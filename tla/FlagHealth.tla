----------------------------- MODULE FlagHealth -----------------------------
(***************************************************************************)
(* The health of a flag: the lifecycle state and the debt score that are   *)
(* derived from its settings in production, its events and the days that   *)
(* pass.  Nothing of it is stored; the days at full rollout are read off    *)
(* the updated_at of the settings, which any UPDATE of the row moves.       *)
(***************************************************************************)
EXTENDS Integers, FiniteSetsExt

CONSTANTS
  Production,  \* the production environments of the project
  stale_days,  \* default_stale_days of the project
  Jumps,       \* days that pass at once
  MaxDay,      \* bound on the days of a run
  Temporary    \* is_temporary

ASSUME HealthAssumption ==
  /\ Production # {} /\ IsFiniteSet(Production)
  /\ stale_days \in Nat \ {0} /\ Jumps \subseteq Nat \ {0} /\ MaxDay \in Nat
  /\ Temporary \in BOOLEAN

VARIABLES
  today,      \* days since the flag was created
  archived,   \* archived_at is set
  setting,    \* by environment: [enabled, rule, updated]
  elsewhere,  \* enabled in an environment that is not production
  lastEvent,  \* the day of the newest evaluation event, or Never
  fullSince,  \* history: since when production has been at 100% of one, or NeverDay
  replaced    \* history: environments whose rules changed after updated_at

healthVars == <<today, archived, setting, elsewhere, lastEvent, fullSince, replaced>>

NeverDay == -1

\* What the rules of a setting amount to: there are none, they serve a variation
\* without a distribution, or one of them has a distribution, which gives all to
\* one variation or divides it.
RuleKinds == {"none", "fixed", "full", "split"}

HealthInit ==
  /\ today = 0
  /\ archived = FALSE
  /\ setting = [e \in Production |-> [enabled |-> FALSE, rule |-> "none", updated |-> 0]]
  /\ elsewhere \in BOOLEAN
  /\ lastEvent = NeverDay
  /\ fullSince = NeverDay
  /\ replaced = {}

-----------------------------------------------------------------------------
(* The snapshot.                                                            *)

Enabled == {e \in Production : setting[e].enabled}

\* Enabled without rules is 100; so is any distribution, because its weights are
\* added up whatever variation they serve.
_rollout(s) == IF s.enabled /\ s.rule # "fixed" THEN 100 ELSE 0
RolloutPct == Max({_rollout(setting[e]) : e \in Production})

\* Mutant of RolloutDays: the oldest update is taken.
RolloutDaysOldest ==
  IF RolloutPct >= 100 THEN today - Min({setting[e].updated : e \in Enabled}) ELSE 0

RolloutDays ==
  IF RolloutPct >= 100 THEN today - Max({setting[e].updated : e \in Enabled}) ELSE 0

\* _build_snapshot.
Snapshot ==
  [archived |-> archived,
   enabled_env_count |-> Cardinality(Enabled) + (IF elsewhere THEN 1 ELSE 0),
   full |-> RolloutPct >= 100,
   days_at_full_rollout |-> RolloutDays,
   days_since_last_eval |-> IF lastEvent = NeverDay THEN NeverDay ELSE today - lastEvent,
   age |-> today]

\* _DAYS_NO_EVAL_STALE; a flag that was never evaluated is not silent.
SilentTooLong(snap) == snap.days_since_last_eval >= 14

derive_lifecycle_state(snap) ==
  IF snap.archived THEN "ARCHIVED"
  ELSE IF snap.enabled_env_count = 0 THEN "DRAFT"
  ELSE IF (snap.full /\ snap.days_at_full_rollout > stale_days) \/ SilentTooLong(snap) THEN "STALE"
  ELSE IF snap.full THEN "ROLLED_OUT"
  ELSE "ACTIVE"

\* Mutant of Share: beyond its maximum a component counts for nothing.
ShareCut(days, max_days, scale) ==
  IF days <= 0 \/ days > max_days THEN 0 ELSE (days * scale) \div max_days

\* A component of the score, as a fraction of its maximum: days of max_days.
Share(days, max_days, scale) ==
  IF days <= 0 THEN 0 ELSE IF days >= max_days THEN scale ELSE (days * scale) \div max_days

\* Multiple of 365, 90, 30 and stale_days: every component is exact.
Scale == 6570 * stale_days

\* round: to the even number in the middle.
Round(n, d) ==
  LET q == n \div d
      r == 2 * (n % d)
  IN  IF r > d \/ (r = d /\ q % 2 = 1) THEN q + 1 ELSE q

\* calculate_debt_score with the default weights, in parts of 100.
debt_score(snap) ==
  LET age == Share(snap.age, 365, Scale)
      rollout == Share(snap.days_at_full_rollout, 90, Scale)
      staleness == Share(snap.days_since_last_eval, 30, Scale)
      temporary == IF Temporary THEN Share(snap.age, stale_days, Scale) ELSE 0
  IN  Min({100, Round(25 * age + 35 * rollout + 25 * staleness + 15 * temporary, Scale)})

State == derive_lifecycle_state(Snapshot)
Score == debt_score(Snapshot)

-----------------------------------------------------------------------------
(* What happens to a flag.                                                  *)

\* Environments at full rollout as ADR 009 means it: everybody gets the default,
\* or all of a distribution goes to one variation.
RolledOut == {e \in Production : setting[e].enabled /\ setting[e].rule \in {"none", "full"}}

\* The history of the rollout after a step.
Follow ==
  fullSince' = IF RolledOut' # {} THEN (IF fullSince = NeverDay THEN today ELSE fullSince)
               ELSE NeverDay

DaysPass(d) ==
  /\ today + d <= MaxDay
  /\ today' = today + d
  /\ UNCHANGED <<archived, setting, elsewhere, lastEvent, fullSince, replaced>>

\* A setting is switched, by update_flag_setting or a change request.
Switch(e) ==
  /\ setting' = [setting EXCEPT ![e].enabled = ~@, ![e].updated = today]
  /\ replaced' = replaced \ {e}
  /\ Follow
  /\ UNCHANGED <<today, archived, elsewhere, lastEvent>>

\* The rules are replaced: rows of another table, updated_at stays.
ReplaceRules(e, k) ==
  /\ k # setting[e].rule
  /\ setting' = [setting EXCEPT ![e].rule = k]
  /\ replaced' = replaced \cup {e}
  /\ Follow
  /\ UNCHANGED <<today, archived, elsewhere, lastEvent>>

\* EvaluationTracker.flush is an UPDATE as well: onupdate moves updated_at, and so
\* does an update_flag_setting of another field.
FlushTimestamps(e) ==
  /\ setting[e].updated # today
  /\ setting' = [setting EXCEPT ![e].updated = today]
  /\ replaced' = replaced \ {e}
  /\ Follow
  /\ UNCHANGED <<today, archived, elsewhere, lastEvent>>

\* record_events_batch: the newest event is of today.
RecordEvent ==
  /\ lastEvent # today
  /\ lastEvent' = today
  /\ UNCHANGED <<today, archived, setting, elsewhere, fullSince, replaced>>

\* archive_flag, "Flag already archived", and restore_flag.
Archive == ~archived /\ archived' = TRUE
Restore == archived /\ archived' = FALSE

HealthNext ==
  \/ \E d \in Jumps : DaysPass(d)
  \/ \E e \in Production :
       Switch(e) \/ FlushTimestamps(e) \/ \E k \in RuleKinds : ReplaceRules(e, k)
  \/ RecordEvent
  \/ (Archive \/ Restore) /\ UNCHANGED <<today, setting, elsewhere, lastEvent, fullSince, replaced>>

HealthSpec == HealthInit /\ [][HealthNext]_healthVars

-----------------------------------------------------------------------------
(* Properties.                                                              *)

LifecycleStates == {"DRAFT", "ACTIVE", "ROLLED_OUT", "STALE", "ARCHIVED"}

\* Types; the score is a number from 0 to 100.
HealthTypeOK ==
  /\ State \in LifecycleStates
  /\ Score \in 0..100
  /\ \A e \in Production : setting[e].updated \in 0..today /\ setting[e].rule \in RuleKinds
  /\ lastEvent \in NeverDay..today /\ fullSince \in NeverDay..today

\* ADR 009: a flag is STALE for its rollout only after more than stale_days at
\* full rollout without a break.  The code measures this by the newest updated_at
\* of all enabled settings and by sums of weights.  That is sound when some
\* environment is rolled out by rules as old as its updated_at.  It is not for a
\* flag whose only distributions are divided ones (10 and 90 add up to 100), nor
\* when rules were replaced, which leaves updated_at alone.
StaleWasRolledOut ==
  (State = "STALE" /\ ~SilentTooLong(Snapshot) /\ ~(RolledOut \subseteq replaced))
    => fullSince # NeverDay /\ today - fullSince > stale_days

\* Days that pass make a flag STALE and no better: no other state is reached, and
\* the score does not fall.
OnlyAgeing == [][today' # today => State' \in {State, "STALE"} /\ Score' >= Score]_healthVars
=============================================================================
