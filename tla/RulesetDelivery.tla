--------------------------- MODULE RulesetDelivery ---------------------------
(***************************************************************************)
(* How one environment's ruleset reaches the SDKs.                         *)
(*                                                                         *)
(*   dashboard handler --> PostgreSQL (environment.ruleset_version + rows) *)
(*          |                       ^                                      *)
(*          | DEL, PUBLISH          | 4 SELECTs                            *)
(*          v                       |                                      *)
(*        Redis  <--- GET / SET --- GET /eval/v1/ruleset <--- SDK poller   *)
(*          |                                                  ^           *)
(*          +---- SSE ruleset_updated ---> SDK stream thread --+           *)
(*                                                                         *)
(* The text of a ruleset is abstracted to one stamp per SELECT of          *)
(* load_ruleset_bundle: content[q] counts the committed transactions that  *)
(* changed the rows query q returns.  history[v] remembers, for every      *)
(* committed ruleset_version v, the stamps at the moment v was committed,  *)
(* so "at least as new as version v" is a comparison with history[v].      *)
(***************************************************************************)
EXTENDS Integers, Sequences

CONSTANTS
  Clients,        \* SDK instances
  ServerClients,  \* those whose API key has SERVER scope: only they use the cache
  Handlers,       \* concurrent GET /ruleset requests the API can be serving
  NoHandler,      \* a client that has no request in flight
  NumQueries,     \* SELECTs of load_ruleset_bundle (4 in the code)
  RedisEnabled,   \* settings.REDIS_ENABLED
  MaxVersion,     \* bound on environment.ruleset_version
  MaxSilent,      \* bound on content changes that skip bump_ruleset_version
  MaxFaults       \* bound on rollbacks, Redis errors, failed fetches, broken streams

ASSUME DeliveryAssumption ==
  /\ ServerClients \subseteq Clients
  /\ NoHandler \notin Handlers
  /\ NumQueries \in Nat \ {0}
  /\ RedisEnabled \in BOOLEAN
  /\ MaxVersion \in Nat /\ MaxSilent \in Nat /\ MaxFaults \in Nat

VARIABLES
  version,   \* committed environment.ruleset_version
  content,   \* committed rows, one stamp per query
  history,   \* history[v] = content when version v was committed
  tx,        \* the transaction holding the lock of the environment row
  redis,     \* value of key ruleset:{env}, NoPayload when absent
  handler,   \* GET /ruleset requests being served
  sdk,       \* RulesetCache of every client
  waiting,   \* the request a client's _fetch_lock holder waits for
  stream,    \* is the client's SSE connection established?
  inbox,     \* ruleset_updated events on their way to the client
  silent,    \* content changes made without a bump so far
  faults     \* faults so far

database == <<version, content, history>>
vars == <<version, content, history, tx, redis, handler, sdk, waiting,
          stream, inbox, silent, faults>>

Queries  == 1..NumQueries
Versions == 0..MaxVersion
None     == -1
Stamps   == [Queries -> Nat]

\* A serialised ruleset: the rulesetVersion it is labelled with and its rows.
Payload   == [label : Versions \cup {None}, content : Stamps]
NoPayload == [label |-> None, content |-> [q \in Queries |-> 0]]

AtLeast(c, d) == \A q \in Queries : c[q] >= d[q]

IdleTx == [pc |-> "idle", parts |-> {}, again |-> FALSE, msg |-> 0]
IdleHandler(c) == [pc |-> "idle", client |-> c, inm |-> None, ver |-> 0,
                   next |-> 1, body |-> NoPayload]

Init ==
  /\ version = 0
  /\ content = [q \in Queries |-> 0]
  /\ history = [v \in Versions |-> [q \in Queries |-> 0]]
  /\ tx = IdleTx
  /\ redis = NoPayload
  /\ \E c \in Clients : handler = [h \in Handlers |-> IdleHandler(c)]
  /\ sdk = [c \in Clients |-> [payload |-> NoPayload, etag |-> None]]
  /\ waiting = [c \in Clients |-> NoHandler]
  /\ stream = [c \in Clients |-> FALSE]
  /\ inbox = [c \in Clients |-> <<>>]
  /\ silent = 0
  /\ faults = 0

Fault == faults < MaxFaults /\ faults' = faults + 1

-----------------------------------------------------------------------------
(* Dashboard handlers: rows are written and ruleset_version is incremented  *)
(* in one transaction, which holds the lock of the environment row from the *)
(* UPDATE on, so a second transaction waits in bump_ruleset_version.        *)

\* UPDATE environment SET ruleset_version = ruleset_version + 1 RETURNING.
\* S: the queries whose rows the transaction changes (none for a config
\* release); again: a change request's apply_payload invalidates twice.
Bump(S, again) ==
  /\ tx.pc = "idle"
  /\ version < MaxVersion
  /\ tx' = [pc |-> "bumped", parts |-> S, again |-> again, msg |-> version + 1]
  /\ UNCHANGED <<database, redis, handler, sdk, waiting, stream, inbox, silent, faults>>

\* invalidate: DEL of the cached ruleset.  An error is swallowed and skips
\* the PUBLISH as well; without Redis the function returns at once.
DeleteCached ==
  /\ tx.pc = "bumped"
  /\ \/ /\ RedisEnabled
        /\ redis' = NoPayload
        /\ tx' = [tx EXCEPT !.pc = "deleted"]
        /\ UNCHANGED faults
     \/ /\ RedisEnabled
        /\ Fault
        /\ tx' = [tx EXCEPT !.pc = "invalidated"]
        /\ UNCHANGED redis
     \/ /\ ~RedisEnabled
        /\ tx' = [tx EXCEPT !.pc = "invalidated"]
        /\ UNCHANGED <<redis, faults>>
  /\ UNCHANGED <<database, handler, sdk, waiting, stream, inbox, silent>>

\* invalidate: PUBLISH, relayed by the SSE hub to every connected stream.
Publish ==
  /\ tx.pc = "deleted"
  /\ tx' = [tx EXCEPT !.pc = "invalidated"]
  /\ \/ /\ inbox' = [c \in Clients |-> IF stream[c] THEN Append(inbox[c], tx.msg)
                                       ELSE inbox[c]]
        /\ UNCHANGED faults
     \/ /\ Fault
        /\ UNCHANGED inbox
  /\ UNCHANGED <<database, redis, handler, sdk, waiting, stream, silent>>

\* apply_payload calls invalidate(env) a second time, with version = 0.
InvalidateAgain ==
  /\ tx.pc = "invalidated" /\ tx.again
  /\ tx' = [tx EXCEPT !.pc = "bumped", !.again = FALSE, !.msg = 0]
  /\ UNCHANGED <<database, redis, handler, sdk, waiting, stream, inbox, silent, faults>>

\* Mutant of Commit: a handler that forgets bump_ruleset_version.
CommitWithoutBump ==
  /\ tx.pc = "invalidated" /\ ~tx.again
  /\ content' = [q \in Queries |-> IF q \in tx.parts THEN content[q] + 1 ELSE content[q]]
  /\ tx' = IdleTx
  /\ UNCHANGED <<version, history, redis, handler, sdk, waiting, stream, inbox, silent, faults>>

\* The rows and the new version become visible together.
Commit ==
  /\ tx.pc = "invalidated" /\ ~tx.again
  /\ version' = version + 1
  /\ content' = [q \in Queries |-> IF q \in tx.parts THEN content[q] + 1 ELSE content[q]]
  /\ history' = [history EXCEPT ![version + 1] = content']
  /\ tx' = IdleTx
  /\ UNCHANGED <<redis, handler, sdk, waiting, stream, inbox, silent, faults>>

\* An exception after the bump: get_db rolls back, the DEL and the PUBLISH stay.
Rollback ==
  /\ tx.pc # "idle"
  /\ Fault
  /\ tx' = IdleTx
  /\ UNCHANGED <<database, redis, handler, sdk, waiting, stream, inbox, silent>>

\* flag_health.archive_flag removes a flag from query 1 and does not bump.
ArchiveWithoutBump ==
  /\ silent < MaxSilent
  /\ silent' = silent + 1
  /\ content' = [content EXCEPT ![1] = @ + 1]
  /\ UNCHANGED <<version, history, tx, redis, handler, sdk, waiting, stream, inbox, faults>>

\* The cache entry reaches its TTL.
CacheExpires ==
  /\ redis # NoPayload
  /\ redis' = NoPayload
  /\ UNCHANGED <<database, tx, handler, sdk, waiting, stream, inbox, silent, faults>>

-----------------------------------------------------------------------------
(* GET /eval/v1/ruleset.                                                    *)

\* verify_api_key reads the version in a session of its own; the ETag
\* comparison uses that value.
Authenticate(h) ==
  /\ handler[h].pc = "auth"
  /\ handler' = [handler EXCEPT
       ![h].ver = version,
       ![h].pc = IF handler[h].inm = version THEN "notModified" ELSE "lookup"]
  /\ UNCHANGED <<database, tx, redis, sdk, waiting, stream, inbox, silent, faults>>

UsesCache(h) == RedisEnabled /\ handler[h].client \in ServerClients

\* get_cached_ruleset: a hit is returned with the label it was stored with.
LookupCache(h) ==
  /\ handler[h].pc = "lookup"
  /\ \/ /\ UsesCache(h) /\ redis # NoPayload
        /\ handler' = [handler EXCEPT ![h].pc = "reply", ![h].body = redis]
        /\ UNCHANGED faults
     \/ /\ ~UsesCache(h) \/ redis = NoPayload
        /\ handler' = [handler EXCEPT ![h].pc = "load"]
        /\ UNCHANGED faults
     \/ /\ UsesCache(h) /\ redis # NoPayload
        /\ Fault
        /\ handler' = [handler EXCEPT ![h].pc = "load"]
  /\ UNCHANGED <<database, tx, redis, sdk, waiting, stream, inbox, silent>>

\* Mutant of LoadQuery: the label is the version read after the rows.
LoadQueryLateLabel(h) ==
  LET q == handler[h].next IN
  /\ handler[h].pc = "load"
  /\ handler' = [handler EXCEPT
       ![h].body.content[q] = content[q],
       ![h].body.label = IF q = NumQueries THEN version ELSE @,
       ![h].next = IF q = NumQueries THEN 1 ELSE q + 1,
       ![h].pc = IF q = NumQueries THEN "store" ELSE "load"]
  /\ UNCHANGED <<database, tx, redis, sdk, waiting, stream, inbox, silent, faults>>

\* load_ruleset_bundle: one SELECT, with a READ COMMITTED snapshot of its own.
\* The last one builds the payload under the version read at authentication.
LoadQuery(h) ==
  LET q == handler[h].next IN
  /\ handler[h].pc = "load"
  /\ handler' = [handler EXCEPT
       ![h].body.content[q] = content[q],
       ![h].body.label = IF q = NumQueries THEN handler[h].ver ELSE @,
       ![h].next = IF q = NumQueries THEN 1 ELSE q + 1,
       ![h].pc = IF q = NumQueries THEN "store" ELSE "load"]
  /\ UNCHANGED <<database, tx, redis, sdk, waiting, stream, inbox, silent, faults>>

\* set_cached_ruleset: an unconditional SET, errors swallowed.
StoreCache(h) ==
  /\ handler[h].pc = "store"
  /\ handler' = [handler EXCEPT ![h].pc = "reply"]
  /\ \/ /\ UsesCache(h)
        /\ redis' = handler[h].body
        /\ UNCHANGED faults
     \/ /\ UsesCache(h)
        /\ Fault
        /\ UNCHANGED redis
     \/ /\ ~UsesCache(h)
        /\ UNCHANGED <<redis, faults>>
  /\ UNCHANGED <<database, tx, sdk, waiting, stream, inbox, silent>>

\* Mutant of Respond: the ETag is the version at the time of the answer.
RespondCurrentEtag(h) ==
  LET c == handler[h].client IN
  /\ handler[h].pc \in {"notModified", "reply"}
  /\ handler' = [handler EXCEPT ![h] = IdleHandler(c)]
  /\ \/ /\ waiting[c] = h
        /\ waiting' = [waiting EXCEPT ![c] = NoHandler]
        /\ sdk' = IF handler[h].pc = "reply"
                  THEN [sdk EXCEPT ![c] = [payload |-> handler[h].body, etag |-> version]]
                  ELSE sdk
     \/ /\ waiting[c] # h
        /\ UNCHANGED <<waiting, sdk>>
  /\ UNCHANGED <<database, tx, redis, stream, inbox, silent, faults>>

\* Mutant of Respond: the answer of an abandoned request is applied as well.
RespondLate(h) ==
  LET c == handler[h].client IN
  /\ handler[h].pc \in {"notModified", "reply"}
  /\ handler' = [handler EXCEPT ![h] = IdleHandler(c)]
  /\ waiting' = [waiting EXCEPT ![c] = IF @ = h THEN NoHandler ELSE @]
  /\ sdk' = IF handler[h].pc = "reply"
            THEN [sdk EXCEPT ![c] = [payload |-> handler[h].body, etag |-> handler[h].ver]]
            ELSE sdk
  /\ UNCHANGED <<database, tx, redis, stream, inbox, silent, faults>>

\* The response.  A 200 carries the payload and the ETag of the version read
\* at authentication; RulesetCache.update stores both.  A 304 changes nothing.
\* Nobody reads the response of a request its client has given up.
Respond(h) ==
  LET c == handler[h].client IN
  /\ handler[h].pc \in {"notModified", "reply"}
  /\ handler' = [handler EXCEPT ![h] = IdleHandler(c)]
  /\ \/ /\ waiting[c] = h
        /\ waiting' = [waiting EXCEPT ![c] = NoHandler]
        /\ sdk' = IF handler[h].pc = "reply"
                  THEN [sdk EXCEPT ![c] = [payload |-> handler[h].body,
                                           etag |-> handler[h].ver]]
                  ELSE sdk
     \/ /\ waiting[c] # h
        /\ UNCHANGED <<waiting, sdk>>
  /\ UNCHANGED <<database, tx, redis, stream, inbox, silent, faults>>

-----------------------------------------------------------------------------
(* The SDK: one poller thread, one SSE thread, one fetch lock.              *)

\* _fetch_and_update_ruleset, up to the request leaving with If-None-Match.
StartFetch(c) ==
  /\ waiting[c] = NoHandler
  /\ \E h \in Handlers :
       /\ handler[h].pc = "idle"
       /\ waiting' = [waiting EXCEPT ![c] = h]
       /\ handler' = [handler EXCEPT ![h] = [IdleHandler(c) EXCEPT
                        !.pc = "auth", !.inm = sdk[c].etag]]

\* The initial fetch and every round of _polling_loop.
Poll(c) ==
  /\ StartFetch(c)
  /\ UNCHANGED <<database, tx, redis, sdk, stream, inbox, silent, faults>>

\* Transport error, timeout or error status: the lock is released, the cache
\* is kept.  The request may still be running on the server.
FetchFails(c) ==
  /\ waiting[c] # NoHandler
  /\ Fault
  /\ waiting' = [waiting EXCEPT ![c] = NoHandler]
  /\ \/ UNCHANGED handler
     \/ handler' = [handler EXCEPT ![waiting[c]] = IdleHandler(c)]
  /\ UNCHANGED <<database, tx, redis, sdk, stream, inbox, silent>>

\* _stream_loop (re)connects; the hub subscribes before the first heartbeat.
\* Nothing is fetched on a (re)connection.
Connect(c) ==
  /\ ~stream[c]
  /\ stream' = [stream EXCEPT ![c] = TRUE]
  /\ UNCHANGED <<database, tx, redis, handler, sdk, waiting, inbox, silent, faults>>

\* The connection breaks and what was on its way is lost.
Disconnect(c) ==
  /\ stream[c]
  /\ Fault
  /\ stream' = [stream EXCEPT ![c] = FALSE]
  /\ inbox' = [inbox EXCEPT ![c] = <<>>]
  /\ UNCHANGED <<database, tx, redis, handler, sdk, waiting, silent>>

\* Mutant of AlreadyHas: compares the ETag instead of the payload's label.
AlreadyHasByEtag(c, v) == sdk[c].payload # NoPayload /\ sdk[c].etag >= v

\* _on_stream_update: the event announces nothing newer than the cached label.
AlreadyHas(c, v) == sdk[c].payload # NoPayload /\ sdk[c].payload.label >= v

StreamSkip(c) ==
  /\ inbox[c] # <<>>
  /\ AlreadyHas(c, Head(inbox[c]))
  /\ inbox' = [inbox EXCEPT ![c] = Tail(@)]
  /\ UNCHANGED <<database, tx, redis, handler, sdk, waiting, stream, silent, faults>>

StreamFetch(c) ==
  /\ inbox[c] # <<>>
  /\ ~AlreadyHas(c, Head(inbox[c]))
  /\ StartFetch(c)
  /\ inbox' = [inbox EXCEPT ![c] = Tail(@)]
  /\ UNCHANGED <<database, tx, redis, sdk, stream, silent, faults>>

\* The poller holds the fetch lock for more than three seconds: the event is
\* consumed and nothing is fetched for it.
StreamLockTimeout(c) ==
  /\ inbox[c] # <<>>
  /\ ~AlreadyHas(c, Head(inbox[c]))
  /\ waiting[c] # NoHandler
  /\ inbox' = [inbox EXCEPT ![c] = Tail(@)]
  /\ UNCHANGED <<database, tx, redis, handler, sdk, waiting, stream, silent, faults>>

-----------------------------------------------------------------------------
Write ==
  \/ \E S \in SUBSET Queries, again \in BOOLEAN : Bump(S, again)
  \/ DeleteCached \/ Publish \/ InvalidateAgain \/ Commit \/ Rollback

Serve(h) == Authenticate(h) \/ LookupCache(h) \/ LoadQuery(h) \/ StoreCache(h) \/ Respond(h)

Listen(c) == StreamSkip(c) \/ StreamFetch(c) \/ StreamLockTimeout(c)

Next ==
  \/ Write
  \/ ArchiveWithoutBump
  \/ CacheExpires
  \/ \E h \in Handlers : Serve(h)
  \/ \E c \in Clients : Poll(c) \/ FetchFails(c) \/ Connect(c) \/ Disconnect(c) \/ Listen(c)

Spec == Init /\ [][Next]_vars

\* An open transaction ends, the API answers the requests it has started, the
\* poller thread comes round again.  Nobody has to edit, connect or fail.
Fairness ==
  /\ WF_vars(DeleteCached) /\ WF_vars(Publish) /\ WF_vars(InvalidateAgain) /\ WF_vars(Commit)
  /\ \A h \in Handlers : WF_vars(Serve(h))
  /\ \A c \in Clients : WF_vars(Poll(c))

FairSpec == Spec /\ Fairness

-----------------------------------------------------------------------------
(* Properties.                                                              *)

TxStates == {"idle", "bumped", "deleted", "invalidated"}
HandlerStates == {"idle", "auth", "lookup", "load", "store", "reply", "notModified"}

Transaction == [pc : TxStates, parts : SUBSET Queries, again : BOOLEAN, msg : Versions]
Request == [pc : HandlerStates, client : Clients, inm : Versions \cup {None},
            ver : Versions, next : Queries, body : Payload]
RulesetCache == [payload : Payload, etag : Versions \cup {None}]

\* Types of every variable.
TypeOK ==
  /\ version \in Versions
  /\ content \in Stamps
  /\ history \in [Versions -> Stamps]
  /\ tx \in Transaction
  /\ tx.pc # "idle" => version < MaxVersion
  /\ redis \in Payload
  /\ handler \in [Handlers -> Request]
  /\ sdk \in [Clients -> RulesetCache]
  /\ waiting \in [Clients -> Handlers \cup {NoHandler}]
  /\ stream \in [Clients -> BOOLEAN]
  /\ inbox \in [Clients -> Seq(Versions)]
  /\ silent \in 0..MaxSilent
  /\ faults \in 0..MaxFaults

\* A client that holds ETag v holds rows at least as new as version v.  This
\* is what makes a 304 harmless: client.py answers it with "Cache is fresh".
EtagFresh ==
  \A c \in Clients : sdk[c].etag # None =>
      /\ sdk[c].etag <= version
      /\ AtLeast(sdk[c].payload.content, history[sdk[c].etag])

\* A payload labelled with version v never holds rows older than version v,
\* neither in a client nor in Redis: verify_api_key reads the label before
\* load_ruleset_bundle reads the rows.
LabelFresh(p) ==
  p.label # None => p.label <= version /\ AtLeast(p.content, history[p.label])

LabelsFresh == LabelFresh(redis) /\ \A c \in Clients : LabelFresh(sdk[c].payload)

\* When _on_stream_update drops an event as a duplicate and the version it
\* announces is committed, the client already has the rows of that version.
SkipLosesNothing ==
  \A c \in Clients :
    (inbox[c] # <<>> /\ AlreadyHas(c, Head(inbox[c])) /\ Head(inbox[c]) <= version)
      => AtLeast(sdk[c].payload.content, history[Head(inbox[c])])

\* An update of the SDK cache never replaces rows by older ones, whichever
\* thread fetched them and whatever the answers did on their way: a late
\* answer of an abandoned request must not overwrite a newer ruleset.
NeverBackwards ==
  [][\A c \in Clients : AtLeast(sdk'[c].payload.content, sdk[c].payload.content)]_vars

\* Once the dashboard is quiet every client ends up with the committed rows
\* and keeps them (ADR-005: polling is the fail-safe of SSE).
Convergence == <>[](\A c \in Clients : sdk[c].payload.content = content)

\* The same while no content changes without a bump: through lost messages,
\* failed transactions and restarts, every bumped change reaches every client.
ConvergesUnlessSilent == Convergence \/ <>(silent > 0)

\* The safety behind it: a client whose payload bears the current version has
\* exactly the committed rows, so that it is enough to compare versions, unless
\* a flag was archived without a bump.
UpToDate ==
  silent = 0 => \A c \in Clients :
    sdk[c].payload.label = version => sdk[c].payload.content = content

-----------------------------------------------------------------------------
(* The inductive invariant behind these properties.                         *)

\* Committed versions only add to the rows.
HistoryInv ==
  /\ \A v \in Versions : v <= version => AtLeast(content, history[v])
  /\ \A u, v \in Versions : u <= v /\ v <= version => AtLeast(history[v], history[u])

\* A request that got past authentication knows a committed version, and what
\* it has read so far is at least as new.
RequestInv(h) ==
  LET r == handler[h] IN
  /\ r.pc \notin {"idle", "auth"} => r.ver <= version
  /\ r.pc \in {"auth", "lookup"} => r.next = 1
  /\ r.pc = "load" => \A q \in 1..(r.next - 1) : r.body.content[q] >= history[r.ver][q]
  /\ r.pc = "store" => r.body.label = r.ver
  /\ r.pc \in {"store", "reply"} => LabelFresh(r.body)

LabelInv == HistoryInv /\ LabelsFresh /\ \A h \in Handlers : RequestInv(h)

\* Without Redis a 200 carries what this request itself has read, under the
\* version it sends as ETag.
OwnRowsInv ==
  /\ \A h \in Handlers : handler[h].pc = "reply" => handler[h].body.label = handler[h].ver
  /\ \A c \in Clients : sdk[c].etag = sdk[c].payload.label

\* What request r has read so far is at least as new as payload p.
Ahead(r, p) ==
  /\ r.pc # "idle"
  /\ r.pc = "load" => \A q \in 1..(r.next - 1) : r.body.content[q] >= p.content[q]
  /\ r.pc \in {"store", "reply"} => AtLeast(r.body.content, p.content)

\* Nobody holds rows that are not committed, not even those of a transaction
\* whose events have been sent already.
CommittedInv ==
  /\ AtLeast(content, redis.content)
  /\ \A h \in Handlers : AtLeast(content, handler[h].body.content)
  /\ \A c \in Clients : AtLeast(content, sdk[c].payload.content)

\* Without Redis the request a client waits for is its own: no other one touches
\* the client's cache meanwhile, so what it reads cannot be older than what the
\* client has.
LockInv ==
  /\ CommittedInv
  /\ \A c \in Clients : waiting[c] # NoHandler =>
       /\ handler[waiting[c]].client = c
       /\ Ahead(handler[waiting[c]], sdk[c].payload)
=============================================================================
