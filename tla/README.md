# A verification project for FlagOps

FlagOps is a feature flag and configuration service: a FastAPI backend over PostgreSQL
(asynchronous SQLAlchemy, READ COMMITTED) and Redis, a React dashboard, a Python SDK that
evaluates flags in the application's process, and a command-line flag scanner. This
directory holds TLA+ models of the parts whose correctness depends on interleavings, lost
messages, failures and time, the TLC configurations that check them, and TLAPS proofs of
the properties that matter most. Paths below are relative to the repository.

## 1. Inventory

| Part | State it keeps | Operations | Interacts with |
|---|---|---|---|
| Dashboard writes (`backend/app/services/flag.py`, `targeting.py`, `config_service.py`) | rows of flags, settings, rules, segments; `environment.ruleset_version` | create, update, archive, restore, toggle; each ends in `bump_ruleset_version` and a commit | `ruleset_cache.invalidate`: DEL and PUBLISH in Redis |
| Ruleset delivery (`api/eval/router.py`, `services/eval.py`, `core/deps.py`) | none of its own | `GET /eval/v1/ruleset` with ETag, `GET /eval/v1/stream`, evaluation endpoints | PostgreSQL, Redis, SDKs |
| Ruleset cache and rate limit (`services/ruleset_cache.py`) | Redis keys `ruleset:{env}`, `ratelimit:{key}:{minute}` | get, set with TTL, DEL + PUBLISH, INCR | fail-open: every Redis error is swallowed |
| SDK client (`sdk/python/flagops/client.py`, `cache.py`, `streaming.py`, `transport.py`) | cached ruleset and its ETag, fetch lock | poll every 30 s, fetch on an SSE event, reconnect with back-off, evaluate | delivery API |
| SDK event batcher (`events.py`) | a buffer under a lock | track, flush, worker loop, close | `POST /eval/v1/events` |
| Change requests (`services/change_request.py`, `api/v1/change_requests.py`, `core/scheduler.py`) | rows of `change_request` | create, approve, reject, cancel, apply, scheduler job every minute | applies payloads to settings and rules, bumps the version |
| Config center (`services/config_service.py`) | draft items, releases with snapshots, current release | replace the draft, publish, roll back, diff | bumps the version |
| Targeting (`services/targeting.py`) | rules, overrides, segments | replace all rules, upsert overrides, edit segments with a cycle check | bumps the version |
| Evaluation engine (`backend/app/engine`, copied to `sdk/python/flagops/engine`) | none | `evaluate`, condition trees, segments, bucketing | pure |
| Tenancy (`services/tenancy.py`, `core/permissions.py`, the routers) | organisations, projects, environments, memberships, API keys | create, change, delete; roles, last-owner rule | its access checks guard every handler |
| Authentication (`services/auth.py`) | `refresh_token_hash` of a user | register, login, refresh, logout | `core/deps.py` of every handler |
| Evaluation tracker (`services/eval.py`) | a set of settings evaluated since the last flush | record, flush | PostgreSQL |
| Flag health and debt (`services/flag_health.py`, `flag_debt.py`) | nothing | lifecycle state and score of a flag, archive | reads settings, rules, events |
| Audit, scanner, OpenFeature provider, frontend, demo, seed, migrations | rows or nothing | read-only, or sequential | - |

What is hard here:

* *Concurrency in the database.* No handler takes a row lock except through the UPDATE of
  `bump_ruleset_version`; every other check is made on rows read earlier.
* *Several copies of one ruleset*: PostgreSQL, Redis, one per SDK, each with a version label
  that is read separately from the rows.
* *Delivery*: events are published before the commit, are lost while a stream is down, and an
  answer can outlive the request it belongs to.
* *Time and failure*: the scheduler applies batches it read before, payloads fail, the process
  restarts.
* *Threads* in the SDK that share a buffer, a fetch lock and an HTTP client that gets closed.
* *One flag, evaluated four ways*: by the API from rows, by the SDK from a serialised ruleset, by
  the dashboard's simulation and by the impact analysis of a change request, each with a context
  it builds itself.
* *What makes each part correct*: a ruleset is never older than its label and arrives in the end;
  a change is applied once, approved and due; an event is sent once; releases are a log; rules
  are those of one request, segments have no circles, deletions leave nothing dangling; an
  organisation keeps an owner and its rows are changed by its members only; a session ends with
  its token; a count is right however calls overlap; the four evaluations agree.

The components are listed with their status in `PROJECT.json`, and every hazard with the line
where it bites and the properties about it.

## 2. Modules

| Module | Models | Proofs in |
|---|---|---|
| `RulesetDelivery` | the path of a ruleset from a dashboard transaction to the SDK cache | `RulesetDeliveryProofs` |
| `ChangeRequests` | the change request workflow and its scheduler | `ControlPlaneProofs` |
| `ControlledChange` | what that workflow promises (abstract specification) | - |
| `EventBatcher` | the SDK's event buffer and its threads | `DataPlaneProofs` |
| `ConfigReleases` | drafts, releases and rollbacks of a configuration namespace | `ConfigReleasesProofs` |
| `ReleaseLog` | what a release history promises (abstract specification) | - |
| `Evaluation` | the engine: operators, condition trees, segments, bucketing, `evaluate`, as functions | `ServingProofs` |
| `FlagServing` | one flag under a sequence of edits, and the four ways it is evaluated | `ServingProofs` |
| `Targeting` | overlapping edits of segments and rules, with their locks | `DashboardProofs` |
| `Tenancy` | organisations and what belongs to them, members, the access check of every endpoint | `TenancyProofs` |
| `RefreshTokens` | registration, login, rotation and logout | `ControlPlaneProofs` |
| `FlagHealth` | lifecycle state and debt score of a flag while time passes | `DashboardProofs` |
| `EnvironmentLocks` | version bumps of several environments in one transaction | `DashboardProofs` |
| `EvaluationTracker` | the set of evaluated settings and its flushes | `DataPlaneProofs` |
| `RateLimit` | the counters of an API key | `DataPlaneProofs` |
| `MCControlPlane` | the components behind the dashboard side by side | `ControlPlaneProofs` |
| `MCDataPlane` | the components that serve flags side by side | `DataPlaneProofs` |
| `WaitingTheorems` | graphs of transactions that wait for each other: lemmas for the proofs | itself |
| `MC...` | symmetry sets and the small instances for TLC | - |

`MCControlPlane` and `MCDataPlane` extend several modules and check them in one run. Their
components share no variable, so interleaving them would only multiply states: a variable
`focus` chooses, once and for all, the component that moves. Every behaviour of a component on
its own is a behaviour with that focus, so what the run shows of a component is what a run of the
component alone would show. The other direction is proved: a behaviour of the composition is one
of each component (`ComponentsRun` of `ControlPlaneProofs` and of `DataPlaneProofs`).

Operators named in a comment "Mutant of X" are deliberately wrong variants of X; no
specification uses them. They document which mistake each property catches: putting one in the
place of X makes the run report the property.

### RulesetDelivery

The *content* of a ruleset is abstracted to one counter for every SELECT of
`load_ruleset_bundle` (`content[q]`: how many committed transactions changed the rows query q
returns). `history[v]` remembers the counters at the commit of version v, so "at least as new
as version v" is a comparison, and reading the four queries at different moments can produce
every mixture the code can.

| Code | Model |
|---|---|
| `environment.ruleset_version`, the rows | `version`, `content` |
| a dashboard transaction: bump (row lock), DEL, PUBLISH, commit or rollback | `Bump`, `DeleteCached`, `Publish`, `Commit`, `Rollback`; `tx` is the transaction that holds the lock |
| `apply_payload`, which invalidates twice | `InvalidateAgain` |
| `flag_health.archive_flag`, which does not bump | `ArchiveWithoutBump`, bounded by `MaxSilent` |
| `GET /ruleset`: `verify_api_key` in its own session, ETag comparison, cache lookup, four SELECTs, SET, answer | `Authenticate`, `LookupCache`, `LoadQuery` (one action for every SELECT), `StoreCache`, `Respond` |
| `_fetch_and_update_ruleset` under `_fetch_lock`; a request the SDK gave up | `StartFetch`, `waiting`, `FetchFails` |
| SSE subscription, lost connection, `_on_stream_update` | `Connect`, `Disconnect`, `StreamSkip`, `StreamFetch`, `StreamLockTimeout` |

Every fault (rollback, Redis error, failed fetch, broken stream) draws on one budget `MaxFaults`.
A request with `CLIENT` scope does not use Redis (`ServerClients`).

### ChangeRequests

A handler is three things in the code: a dependency that reads the row, checks on what it read,
and a commit that writes the changed columns whatever the row holds by then. They are the
actions `Read` (with `Permitted`), `Decide`, and `Schedule` / `ApplyNow` / `Reject` / `Cancel`.
The ORM detail that matters is kept: `Cancel` writes nothing if the row was read as CANCELLED.
The scheduler job is `Scan` (one SELECT) and one `ApplyDue` for each request in the order of
`scheduled_at`, each with its own commit. A payload is one of three kinds: it applies, it
raises inside `apply_payload` (rollback, then a second transaction that sets APPROVED), or the
commit itself fails. A rollback expires every row of the session, so the job's next access to a
row of its batch raises and ends the job: `ApplyDueFails` and `ApplyDueAborts` empty `batch`.
`Crash` restarts the process. `Create` stores whatever status the caller sends, as
`ChangeRequestCreate` (`backend/app/schemas/change_request.py:19`) and the endpoint do: a request
can be born APPROVED, and the scheduler then applies it.

`approvers`, `effects` and `createdAs` are history variables: who approved, how often the payload
was committed, and the status a request was stored with. `ControlledChange` speaks about the
authors, the schedules and the clock: a change takes effect not before its time, and only after an
administrator other than its author approved it, unless its author requested it as one that is
exempt from the review. `KeepsPromise` is that specification as a property of the detailed one; the
refinement mapping takes the requests created APPROVED (`BornApproved`) for the exempt ones and is
the identity on the other variables. That the code has such requests at all is what the run
`unreviewed` reports.

### EventBatcher

An event is a model value; `buffer`, `batch` (one for each thread), `posted` and `lost` say
where it is. The critical sections of the lock are single actions (`Track`, `Drain`), the request
is `Send`, and `close()` of the client is `Stop`, `FlushRest` (after the worker ended, or the
two seconds of `join` are over while it is sending) and `CloseTransport`. `send_events` swallows
every failure and `flush` drops its result, so what the API answers is not modelled: an event is
`posted` when its request was sent, and `lost` when sending it failed.

### ConfigReleases

A session is one request, numbered by arrival, in a transaction of its own. SELECTs read
committed rows (`draft`, `releases`, `current`); what a transaction has deleted or inserted
stays in its record `tx[s]` until it commits, and is visible to the row locks and unique indexes
of PostgreSQL only (`LockedBy`, `ClaimedBy`, `KeyHeldBy`, marked external in the map).

| Code | Model |
|---|---|
| `update_draft_items`: SELECT of the existing items, masked values keep their ciphertext | `StartReplace`, `Masked` |
| its DELETE: snapshot of the statement, then row by row, waiting for locked rows | `BeginDelete`, `DeleteRow` |
| `publish_release`: SELECT of the draft; `rollback_release`: SELECT of the target | `StartPublish`, `StartRollback` |
| `max(version) + 1`, and the flush of the new release | `ReadMax`, `InsertRelease` (waits for an uncommitted twin, fails on a committed one) |
| new items, flushed by the commit because `autoflush` is off | `InsertRow` |
| the commit: draft, release and `current_release_id` | `Commit` |
| a validation error, a failed statement, a crash: `get_db` rolls back | `Fail`, `Abort` |
| PostgreSQL aborts one transaction of a cycle | `DetectDeadlock` |

Every item is taken to be a secret, the kind whose value may be copied from the rows read; its
value is the request that wrote it. The order in which a DELETE or a flush visits its rows is
left open. The row of the environment, which `bump_ruleset_version` locks, adds no waiting here:
of one namespace only the holder of the next version locks it. The refresh after the commit
changes nothing that is stored.

`ReleaseLog` is a sequence of releases that is only appended to; a rollback appends the content
of the release it names. `KeepsLog` maps it to the releases 1..`current`.

### Evaluation and FlagServing

`Evaluation` is the engine as functions, with a third truth value for an exception
(`SegmentDepthExceeded`, a NaN that cannot be ordered, an invalid distribution). Texts are not taken
apart: a value is a record of what the operators can tell about it (its number as Python or as a
Decimal, its version, its truth), substring and regular expression tests are constant relations,
MurmurHash is the constant function `Hash`. A condition tree is a node of the constant set `Nodes`,
which contains the parts of its nodes, and what the code computes by recursion over a tree is a
function on that set (on `Places`, a node with its two depths, for the matcher). Weights are
integers in units of a thousandth of a percent, so sums are exact where the code allows an error of
0.001.

| Code | Model |
|---|---|
| `apply_operator`, `OPERATORS` | `apply_operator`, `Holds` |
| `match_condition_group`, `_eval_single_condition` | `match_condition_group`, `match_condition`, with both depth limits and the short cuts |
| `bucket` | `bucket`, `Slot`, `ValidDistribution` |
| `evaluate` | `evaluate`: disabled, override, rules by priority, default |
| `set_targeting_rules_atomic`, the rules of a payload | `set_targeting_rules_atomic` (validated), `ApplyRules` (not validated); both give new ids |
| segments, overrides, settings | `SaveSegment`, `delete_segment`, `create_individual_override`, `update_flag_setting`, `ApplySetting` |
| `load_ruleset_bundle`, `get_ruleset_payload`, `parse_ruleset` | `BundleOf`, `Payload`, `Parse` |
| `evaluate_flag`, `get_evaluation`, `simulate_flag_evaluation`, `simulate_impact` | `Server`, `Sdk`, `Simulation`, `Impact`, with `ServerContext`, `SdkContext`, `SimulationContext`, `ImpactContext` |

The properties relate these answers. `FollowsRules` compares `evaluate` with a definition by
quantifiers that knows neither order nor depth; `AcceptedEvaluates` says that what the validation
accepts the engine can evaluate, unless the context or a condition has a NaN (`Plain`, `PlainTrees`)
or a chain of segments is too long; `SdkAgrees`, `SimulationAgrees` and `ImpactPredicts` say, each
with the exceptions the code has, that the four evaluations agree. The impact analysis reads
`targetingKey`, `targeting_key` and `attributes` in another order than the API and takes a falsy value
for none; `Traceable` says for which contexts of events both still find the same user.

### Targeting

Requests are transactions: what they read is not locked, the bump locks the environment until
the commit. `Look` is one SELECT of `check_cyclic_segment_reference`, which remembers what its
session has loaded; `BeginDelete` / `DeleteRow` / `EndDelete` the DELETE of the old rules, row by
row; `Bump` waits for the lock; the `Commit...` actions check the unique constraints and foreign
keys. The rules are locked before the environment by a replacement and after it by the deletion
of a segment, so the two can wait for each other (`DetectDeadlock`).

### Tenancy

`objects` holds the rows of every table below an organisation, with the row each refers to. An
endpoint is a record of the row its path names, its minimal role and what it does; the sets
`OrganizationEndpoints` ... `ChangeRequestEndpoints` are the routers. `Allowed` is the dependency
that checks the role, from the row up to the organisation; the commit comes later and checks
constraints only. Deleting cascades. `raced` and `alone` are history: which requests overlapped,
and whether somebody else committed since a request began.

### RefreshTokens

A token is the request that made it. `Refresh` reads the stored hash and compares; `Flush` takes
the row lock, `CommitTokens` and `CommitLogout` store. `tokens`, `logouts` and `met` are history:
which token was exchanged for which, what each logout was to end, and which requests overlapped.

### FlagHealth

The settings of the production environments, their rules by kind (none, a fixed variation, a
distribution that gives all to one variation, a divided one), the newest event and the day.
`Snapshot`, `derive_lifecycle_state` and `debt_score` are the functions of the code, in integers;
the score is computed in parts of a multiple of all its divisors and rounded half to even. The steps
are all that moves a snapshot: days, switches, new rules, the UPDATE of the evaluation timestamps
(which moves `updated_at`), events, archive and restore. The code adds the weights of a distribution
up (`_rollout`), whatever variation they serve; the history `fullSince` follows ADR 009 instead and
counts an environment as rolled out (`RolledOut`) only if everybody there gets one variation.

### EnvironmentLocks, EvaluationTracker, RateLimit

`EnvironmentLocks`: a transaction bumps its environments in any order (the SELECT has none) and
holds each row until it ends. `EvaluationTracker`: the critical sections of the lock are
`Record` and `BeginFlush`, the UPDATE is `Write` or `WriteFails`, and the set is gone when the
process ends.

`RateLimit`: `check_rate_limit` is three steps. `ReadClock` fixes the key by the clock, `Incr` is
the awaited INCR, which may be executed in a later minute than the key names, and `Expire` is the
EXPIRE of the first request of a key. The limiter is open when Redis fails: at the INCR (`IncrFails`,
which may have counted or not, or there is no pool) the request passes, and so it does at the EXPIRE
(`GiveUp`, which is also a process that ends between two steps), whose key then keeps no TTL. Keys go
away when their time is over. `passed`, `late` and `failures` are history: the requests that the INCR
let through in each minute of the clock, those of them that were counted on the key of an earlier
minute, and those that passed because Redis failed. Requests above the limit are cut off after the first.

## 3. Runs

| Run | Bounds | Shows |
|---|---|---|
| `delivery` | 1 client, 2 overlapping requests, 2 queries, 2 versions, 1 silent change, 1 fault, no Redis | `EtagFresh`, `NeverBackwards` and, under fairness, `ConvergesUnlessSilent` hold |
| `delivery_redis` | the same with Redis | `LabelsFresh`, `SkipLosesNothing` hold |
| `redis_etag` | 1 query, Redis, no fault | `EtagFresh` is violated |
| `silent_archive` | 1 version, 1 silent change | `Convergence` is violated |
| `changes` | 2 requests created PENDING, APPROVED or APPLIED, an administrator and a developer, 2 handlers, 2 points of time, 1 restart, all payloads | `ReviewedUnlessBornApproved` and `KeepsPromise` hold |
| `unreviewed` | 1 request created with any of the six statuses, 1 handler, 2 points of time | `FourEyes` is violated |
| `head_of_line` | 2 requests, 1 handler, 2 points of time, failing payloads | `DueApplied` is violated |
| `two_reviewers` | 1 request, 2 handlers | `AppliedOnce` is violated |
| `events_close` | 2 events, no failure | `CloseLosesNothing` is violated |
| `rollout` | rule sets that raise a share from 10 to 20 percent | `RolloutMonotone` is violated |
| `control_plane` | see below | what holds of change requests with one handler, targeting, tenancy, tokens, flag health and environment locks |
| `data_plane` | see below | what holds of evaluation, event batching, evaluation timestamps, the rate limit and the config center |

`control_plane`, by focus:

| Focus | Bounds | Shows |
|---|---|---|
| changes | 2 requests created PENDING or APPROVED, 1 handler, 3 points of time, 1 restart, good payloads | `AppliedOnce`, `DueApplied` |
| targeting | 2 segments to begin with, no rules or rules of which some refer to the first segment, 2 overlapping requests, references by key and by id, up to 2 rules, of which two sets share no priority | `RulesOfOneRequest`, `CyclesNeedOverlap`, `EveryEditEnds` |
| tenancy | 2 organisations with a project and an environment each, 2 people, 2 overlapping requests of any endpoint | `OwnersNeedOverlap`, `ChangesByMembers`, `SettingsCoherent`, `SettingsComplete` |
| tokens | 2 clients, 2 addresses, 5 requests | `RotationNeedsOverlap`, `LogoutHolds` |
| health | 2 production environments, jumps of 7 days up to day 14, stale after 10 | `StaleWasRolledOut`, `OnlyAgeing` |
| locks | 2 environments, 2 overlapping transactions, 3 in all | `EveryEnvironmentBumped` |

`data_plane`, by focus:

| Focus | Bounds | Shows |
|---|---|---|
| serving | 13 trees at and beyond the depth limits, 3 segments in a chain or a circle, 6 rule sets, 3 settings, 9 contexts, hashes at the borders of the shares | `AcceptedEvaluates`, `SdkAgrees`, `SimulationAgrees`, `ImpactPredicts`, `FollowsRules`, `SharesRespected` |
| events | 2 threads, 3 events, max_buffer 2, 1 failed request | nothing forgotten, nothing sent twice, the buffer bounded, `LeavesBuffer` |
| tracking | 2 evaluations at a time, 3 settings, a set of 2 is full, 4 evaluations | `EvaluationsKept`, `FullSetFlushed` |
| rate | a minute of 2 ticks, limit 2, 2 requests at a time, 2 minutes, 1 error of Redis at an INCR in each | `LimitPerMinute` |
| releases | 3 requests, 2 keys, 2 edits, an empty or full draft, no release or one | `CurrentIsLatest`, `OnlyOverlappingMerge`, `KeepsLog`, `EveryRequestEnds` |

Whatever has the focus, `ControlTypesOK` and `DataTypesOK` join the type invariants of the
components: types, unique keys, priorities, addresses and members, nothing that refers to a row
that is gone, everything below one organisation, no row locked twice, a score from 0 to 100. The
types of `RulesetDelivery`, `ConfigReleases` and, for two handlers, `ChangeRequests`, and the
invariants `NotBeforeSchedule` and `OneItemPerKey`, are theorems that no run repeats; so are `UpToDate`,
`FetchesCatchUp`, `LastFlushTakesAll`, `TwiceInSixtySeconds`, `NoRequestStuck`, `NoEditStuck` and
`NoChangeStuck` (section 4), which TLC confirmed on the instances of the runs before they were proved.

Several properties are about overlap: what the documentation promises fails when two requests
run at the same time, because nothing locks what was read. They state the part of the promise
that holds: `RulesOfOneRequest`, `CyclesNeedOverlap`, `OwnersNeedOverlap`, `ChangesByMembers`,
`RotationNeedsOverlap`, `LogoutHolds` and `SettingsComplete` name exactly which requests must have
overlapped for it to fail.

Why these bounds are enough to be interesting: two versions and two queries are the least in
which a payload can mix versions; two requests are the least in which an abandoned one
overtakes its successor; one fault suffices for each single failure. Two requests and two
handlers are the least for a stale review next to a scheduler batch of more than one. Three
events and a buffer of two let the threads overfill it while the worker drains. Three requests are
one to finish, one to hold locks and one to wait; two keys are the least for a deadlock, and the
two `MCEdits` can be merged, and the draft at the start and what a rollback brings back have both keys,
so that requests can deadlock. Two overlapping requests are the least for every race of targeting,
tenancy, tokens and locks; a third request of `locks` finds the versions the others left. Rule sets
without a common priority let two overlapping replacements both commit, so that their rules mix, and
first rules that refer to segments let a replacement and the deletion of a segment wait for each
other. Two minutes and a limit of two let a key be counted, expire or stay without TTL, be met again
in its minute, and be counted late in the next one. The proofs remove the bounds for the safety
properties they cover.

The instances of `ChangeRequests` bound the statuses that requests are created with (`Births`), because
each birth multiplies the states: no guard tells DRAFT from PENDING, and a request born REJECTED or
CANCELLED can only be cancelled. `unreviewed` has all six, and the theorems have no such bound.

**Fairness.** `RulesetDelivery`: an open transaction ends, the API serves a request it has started,
the poller thread comes round (`_polling_loop` waits at most the interval or the back-off). Edits,
connections and faults are not fair; each fault may happen at any time until the budget is used.
`ChangeRequests`: the clock advances, a handler that started ends, the scheduler job runs every
minute; nobody has to review. `EventBatcher`: flushing threads go on, the worker's wait times out,
and a close that began goes on; nobody has to track or to close. `ConfigReleases`, `Targeting`: a
request that arrived goes on when its statement can, and PostgreSQL breaks deadlocks
(`deadlock_timeout`); no request has to arrive, and failures are not fair. In `control_plane` and
`data_plane` the fairness of a component is required when it has the focus. `ConvergesUnlessSilent`
is `Convergence` of all behaviours but those in which a flag is archived from the health page.

**What the violations mean.** `redis_etag`: request A loads version 1 and is delayed before its
SET; version 2 is committed and the key deleted; A stores version 1; request B authenticates
with version 2, hits the key and sends version 1's rows under the ETag of version 2. The SDK
keeps them, through every 304, until the version changes again. `silent_archive`: archiving
from the flag health page changes the rules and not the version. `unreviewed`: somebody creates a
request as APPROVED with a schedule; when its time has come the scheduler finds it approved and due
and commits its payload, which nobody but its author has seen. `two_reviewers`: two
approvals read the request while it is PENDING, and both execute the payload. `head_of_line`:
the first request of the batch fails, the rollback expires the others, the job ends; a minute
later the same request is first again. `events_close`: an application thread has drained a
batch when the client is closed; its request meets a closed HTTP client and the batch is gone.
`rollout`: a user lies in the first 10 percent for rule 1; the request that raises the share to
20 percent stores a new rule with another id, and the hash of the user with that id lies beyond.

## 4. Proofs

All theorems are proved by TLAPS for every value of the constants that satisfies the modules' named
assumptions: any number of clients, requests, handlers, queries, versions, users, threads, events,
keys, environments, settings and faults.

* `RulesetDeliveryProofs`. `LabelInv` is inductive: committed versions only add to the rows
  (`HistoryInv`), a request that passed authentication has read, query by query, rows at least as
  new as the version it authenticated with, and a finished payload is as new as its label. From it
  follow `LabelsFresh` and, because an event is skipped only if the label reaches it,
  `SkipLosesNothing` (both with Redis in any state). `EtagFresh` and `NeverBackwards` need
  `~RedisEnabled`: then the label of a payload is the ETag it is sent with (`OwnRowsInv`), and the
  request a client waits for was started by it and has read nothing older than what the client holds
  (`LockInv`). The run `redis_etag` shows that the hypothesis is needed.
* `RulesetDeliveryProofs`, up to date. `UpToDate` is the other direction of freshness: rows that
  reach a client or Redis are committed rows, never newer ones (`CommittedInv`), and the rows change
  only together with the version (`BumpedRows`), so a payload labelled with the current version *is*
  the committed ruleset, whatever mixture of versions it was read from; unless a flag was archived
  silently (`silent = 0`), as the run `silent_archive` shows. Without Redis the same holds of the
  ETag, so a 304 tells the truth (`NotModifiedIsTrue`).
* `RulesetDeliveryProofs`, catching up. `FetchesCatchUp` is the safety half of
  `ConvergesUnlessSilent`, with Redis or without: a fetch that leaves when version v is committed
  either fails or leaves the client with an ETag of at least v, and ETags never go down. The
  invariant behind it (`EtagInv`) ties the request a client waits for to what the client holds: it
  carries the client's present ETag, authenticates with no smaller version, and answers 304 for that
  ETag only.
* `ControlPlaneProofs`, change requests. `ChangeInv` adds to `ReviewedUnlessBornApproved` and
  `NotBeforeSchedule` what handlers and the batch carry across their steps: a handler that approves
  passed the four-eyes check on an existing row, one that applies has seen the schedule reached,
  whatever is in the batch is cleared (`Cleared`: approved, or born APPROVED) and due.
  `ReviewedUnlessBornApproved` alone is not inductive, because a stale handler or a batch acts on
  what it saw. `ReviewedOrBornApproved` adds that `FourEyes` itself holds as long as no request is
  created APPROVED: the creation is the only way around the review. `ImplementsPromise` maps every
  step to a step of `ControlledChange` or a stutter. None of them has a hypothesis.
* `DataPlaneProofs`, the event buffer. `EventInv` says that the buffer, the batches, the posted and
  the lost events are disjoint; with `BatchInv` (a thread holds a batch only while it sends) it is
  inductive and gives `NothingForgotten` and `SentOnce`. `BufferBounded` is inductive by itself,
  with the cardinality facts of the library.
* `DataPlaneProofs`, closing the client. `LastFlushTakesAll`: once the flush of `close()` is
  through, no event tracked before it is in the buffer, and none comes back (`CloseInv`). What can
  still be lost is a batch that another thread holds when the HTTP client is closed:
  `QuietCloseLosesNothing` proves what the run `events_close` refutes, `CloseLosesNothing`, from
  `ClosedQuietly` (no thread holds a batch at that moment). `close()` does not establish it: it
  joins no application thread, and the worker for two seconds at most.
* `ConfigReleasesProofs`. Three inductive invariants, each reduced to the session of the step:
  `VersionsInv` (versions are 1..`current`, and the one transaction that holds a version holds the
  next: a second one would have waited for it or failed) gives `CurrentIsLatest`; `RowsInv` (rows in
  flight are disjoint from each other and, by key, from what is committed) gives `OneItemPerKey`;
  `HistoryInv` (a DELETE has seen all that is left of those who were done before it) gives
  `OnlyOverlappingMerge`. None of the properties is inductive alone, because the unique constraints
  act on uncommitted rows. `ReleasesAreALog` combines the first two: every step appends to
  `ReleaseLog` or stutters.

* `ControlPlaneProofs`, tokens. `TokensInv`: numbers of requests are unique (`NumbersInv`), the
  account a request has loaded and the one it has locked are known (`AccountsInv`), and whoever
  still holds an old token, or a session that was logged out, is a request that overlapped
  (`RotationInv`, `LogoutInv`). The properties speak of tokens handed out only; the invariant adds
  the requests that have compared a hash and not yet stored their own.
* `DataPlaneProofs`, tracker and rate limit. `TrackerInv` adds to `EvaluationsKept` that an UPDATE
  under way stands for the last evaluation of what it took (`Carried`): its ids were taken after it.
  `FullSetFlushed` is inductive with the types. `RateInv` is three parts. `RateTypes` are the types;
  `CountInv` says that no key with a TTL goes away before its minute ends, because an EXPIRE runs in
  that minute or later and sets a whole minute from then, and one that is late, or never comes, only
  lengthens the life of a key; and that the counter of a minute that is not over is therefore at
  least the number of requests that passed in it, the late ones aside. `KeysInv` says that a request
  passes late at most once in a minute: the next it starts there takes the key of that minute. So
  the late ones of a minute are no more than the requests under way at a time. The argument needs
  the arithmetic of `clock \div Minute` (`MinuteOf`, `MinuteMultiples`) for a minute of any length.
  `SlidingWindow`: any sixty seconds lie in two minutes of the clock, so while Redis answers twice
  the limit passes in them, and twice the number of requests under way on top; what passes because
  Redis fails is not bounded by anything.
* `DashboardProofs`, version bumps. `LocksInv`: what a transaction was to bump is bumped or to do
  (`Split`), bumped rows are disjoint (`LocksExclude`), and no committed transaction has the number
  of a running one (`Numbers`), so that each commit counts once.
* `DashboardProofs`, targeting. `TargetingInv` joins the constraints of the tables with what each
  request knows of the others (`WriterInv`). A DELETE that has gone through has met every rule of
  those who did not overlap (`DeleteSees`); that gives `RulesOfOneRequest`. For `CyclesNeedOverlap`
  the invariant follows the cycle check reference by reference (`CircleInSight`): if the new tree
  closed a circle through the segment, one of the references still to be looked up would lie on it;
  at the commit none is left. It holds of requests that nobody overtook (`alone`), for which what
  the session has loaded is still there (`StillTrue`).
* `DashboardProofs`, flag health. `HealthInv` ties the history to the rows: a setting that is rolled
  out as ADR 009 means it, and whose rules are older than its `updated_at`, has production rolled
  out since `updated_at` at the latest (`FullSinceUpdate`). `StaleWasRolledOut` follows, because the
  snapshot takes the newest `updated_at`. Its hypothesis asks for one such setting: a flag with
  divided distributions only becomes STALE for a rollout it never had (section 5). `OnlyAgeing` is
  about two states and arithmetic: the components of the score grow with their days (`ShareGrows`),
  rounding half to even keeps the order (`RoundGrows`), and so does the cut at 100.
* `TenancyProofs`. `TenancyInv`: every row is rooted in an organisation through the foreign keys
  (`Rooted`), so that cascades take whole branches; a request that is about to write knows, unless
  it was overtaken, that the row, the member and the owners it has read are as they were.
  `SettingsCoherent` and `SettingsComplete` are conjuncts, the second with the environments a flag's
  request has read. `OwnersNeedOverlap` and `ChangesByMembers` are action properties: each
  endpoint's step is taken apart from the invariant before it, a cascade by the organisation of what
  it takes.

`AppliedOnce` is a theorem under the hypothesis `OneHandler` (the handlers of change requests do not
overlap each other; the scheduler, restarts and failures go on beside them): `OnceInv` says that a
request an approval has read is still open, and that the job holds only requests that are not
applied yet. The run `two_reviewers` shows that the hypothesis is needed.

* `ServingProofs`. `ServingInv` is inductive: a segment that is saved has a valid tree
  (`SegmentsOK`), and rules that were checked stay valid whatever is edited after them
  (`CheckedOK`); the rest are types. The agreement of the evaluations is then about functions:
  * `SdkAgrees`: a ruleset contains only the flag's own variations (`KnownKeepsOwn`), so reading the
    payload gives it back (`ParsedIsBundle`). `ImpactPredicts`: rulesets that differ in the ids of
    their rules decide alike but for the bucket (`IdsDecideNothing`), and a traceable context is the
    one the API builds (`TraceableContext`).
  * `SharesRespected`: the running sums exist and are integers (`WeightAdds`), the last one reaches
    `Whole` up to a rounding that is less than a bucket, so the first sum beyond a bucket bounds its
    share. `WideningKeepsUsers` is what ADR-007 asks for, for one id of a rule; the run `rollout`
    shows that the rule does not keep its id.
  * `FollowsRules` and `AcceptedEvaluates`: a tree may contain itself, so nothing is said by
    induction over trees. What the matcher computes exists because its two depths bound the
    recursion (`Remaining`, `MatchUnfolds`), and the place of least `Remaining` where a claim fails
    would need a lower one. `ValidTree` and `SegmentRefs` follow a tree without such a bound, and
    `Means` is not given the matcher's depth; a function with their equation exists because each
    asks only for more of the parts (`LeastSolution`). A place raises if it is too deep, which
    `ValidTree` excludes (`ValidDescends`), or if it hangs on a reference too far from the rule,
    which makes a chain (`RefsCollect`, `ChainUnfolds`). Where the engine does not raise, it answers
    what the tree means (`EngineMeans`), and of finitely many rules with different priorities one is
    the first.

  Assumed of the constants: `Nodes` contains the parts of nodes and the trees that are stored, the
  tree that segments start with is valid, hashes are natural numbers, variations have names, the
  rules a client sends are finitely many with integer weights and priorities, and the attributes of
  a context are a function. Nothing is assumed of the depth, the size or the circularity of trees,
  or of operators and values.

A recursive function of TLA+ is a CHOOSE: what it computes is a fact only once a function with its
equation is known to exist. `DefinedByRecursion` (for a recursion with a bound) and `LeastSolution`
(for a monotone one) show that once, both from the existence of a least number (`LeastOf`).

**Standstill.** `NoRequestIsStuck` (configuration), `NoEditIsStuck` (targeting) and
`NoChangeIsStuck` (version bumps) are the safety half of `EveryRequestEnds` and `EveryEditEnds`, for
any number of transactions: nobody waits for a transaction that has ended, and whenever a set of
transactions wait for each other only, one of them can execute its next statement or is on a circle
of waiting ones, which PostgreSQL detects and breaks. The invariants say who holds what
(`VersionsInv`, `RowsInv`, `LocksInv`, `TargetingInv`); the rest is `WaitingTheorems`: of a finite
group in which everybody waits for a member, a smallest part that does so is a circle
(`BlockedHasCircle`, by well-founded induction over finite subsets from the library). A DELETE or a
flush visits its rows in any order; here each transaction is given its next row, whichever it is,
because a transaction waits for one row at a time. An order is chosen by the theorem's quantifier,
so it holds of all.

**Compositions.** `ComponentsRun` maps a step of `MCControlPlane` or `MCDataPlane` to a step of one
component and stutters of the others. `ControlTypesHold` and `DataTypesHold` are the types the runs
check, and `ControlPlaneIsSafe` and `DataPlaneIsSafe` collect the safety properties of both runs:
for any constants, not the instances only.

**Only model-checked.** The liveness properties (`ConvergesUnlessSilent`, `DueApplied`,
`LeavesBuffer`, `EveryRequestEnds`, `EveryEditEnds`), which need fairness and ENABLED; what each
says of safety is proved (`FetchesCatchUp`, `LastFlushTakesAll`, `NoRequestStuck`, `NoEditStuck`),
except for `DueApplied`. And that the text relations and conversions of an instance are those of
Python, which is the choice of the constants. Every other property of a passing run is a theorem;
those with a hypothesis (`~RedisEnabled`, `OneHandler`) name it, and a run shows that it is needed.

## 5. Not modelled, and why

The audit log is written with the rows it describes and read by no logic. The flag scanner, the
OpenFeature provider and the seed are sequential programs over files, a client object or an empty
database. The frontend, the demo and the load tests are clients of the system; migrations run once.
Back-off delays, TTL values of rulesets, the cryptography of tokens and keys, remote mode of the
SDK, and answers to dashboard clients carry no property stated here. Regular expressions and the
parsing of numbers and versions are tables in `Evaluation`, so nothing is shown about them.

Observed while modelling and not stated as a run: an SSE event is sent before the commit of
the version it announces, and also for a transaction that is rolled back
(`backend/app/services/flag.py:31`); a cancellation can overwrite APPLIED, for the same reason
as `two_reviewers` (`backend/app/services/change_request.py:257`); the events the SDK tracks
lack three fields that `EventItem` requires (`backend/app/schemas/eval.py:38`), so the API
answers 422 to every batch. In the config center, two overlapping replacements are merged although
the docstring says "Replace all draft items" (`backend/app/services/config_service.py:203`):
neither DELETE sees the other's new rows, and only equal keys collide; `OnlyOverlappingMerge` is
the part of the promise that holds. A publish that read an older draft can become the newest
release (line 299). A masked value for a key that was deleted meanwhile is encrypted literally
(line 221).

In targeting, a segment that refers to its own id for the first time passes the cycle check,
which remembers names as they are written (`backend/app/services/targeting.py:137`), and chains of
four segments are stored although the engine raises for them. A change request in production
stores its rules without validation (`backend/app/services/change_request.py:375`), and one flag
with an invalid distribution makes the evaluation of all flags fail
(`backend/app/services/eval.py:336`). A group that stands among the `conditions` of another, and
a bare condition in the place of a tree, never match. A context whose only key is `userId` makes
conditions on `userId` see nothing, and the simulation, which merges the segment of a rule, shows
matches the API does not make (`backend/app/services/targeting.py:707`).

In tenancy, the documentation gives the management of members to owners and the code to
administrators as well; two owners who leave at the same time leave nobody
(`backend/app/services/tenancy.py:140`). An update of a setting in production can store the change
request and answer 404 (`backend/app/api/v1/flags.py:203`). An access token stays valid after a
logout.

The evaluation tracker has no periodic flush: below fifty settings for each process nothing is ever
written (`backend/app/services/eval.py:58`). The rate limit is called a sliding window
(`docs/progress/S18-security-performance.md`, `backend/app/services/ruleset_cache.py:75`) and counts
minutes of the clock, so twice the limit passes within sixty seconds, the requests under way at the
turn of a minute not counted; that it is open while Redis is away is documented
(`docs/adr/004-redis-cache.md:47`). In flag health the weights of a distribution always add up to
100, so any percentage rule counts as a full rollout (`backend/app/services/flag_health.py:73`) where
ADR 009 asks for 100% of one variation: a flag divided 10 to 90 becomes STALE for its rollout. The
hypothesis of `StaleWasRolledOut` excludes it by name. The tracker's UPDATE moves `updated_at`
(`backend/app/models/base.py:22`), so a flag in use is never STALE for its rollout; the formulas of
ADR 009 differ from the code.

## 6. Plan

What is left, in the order of importance for the system:

1. Composition of `ChangeRequests` with `RulesetDelivery`: an applied request reaches the SDKs.
2. API keys: their hash, revocation and the authentication of SDKs that overlaps it.
