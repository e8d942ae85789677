-------------------------- MODULE EvaluationTracker -------------------------
(***************************************************************************)
(* EvaluationTracker of the evaluation API: the settings that were         *)
(* evaluated are collected in a set, and written with one UPDATE when the  *)
(* set is full.  The lock is released between recording and flushing, and  *)
(* again between emptying the set and the UPDATE.                          *)
(***************************************************************************)
EXTENDS Integers, FiniteSets

CONSTANTS
  Evaluators,     \* evaluations that run at the same time in a process
  Evaluated,      \* settings of flags
  batch_size,     \* 50 in the code
  MaxEvaluations  \* bound on the evaluations of a run

ASSUME TrackerAssumption ==
  IsFiniteSet(Evaluated) /\ batch_size \in Nat \ {0} /\ MaxEvaluations \in Nat

VARIABLES
  pending,      \* _pending_setting_ids
  tracking,     \* the evaluations: [pc, ids, upTo], upTo: when the ids were taken
  evaluations,  \* evaluations so far, which is also the time
  lastSeen,     \* history: when a setting was evaluated last
  lastWritten,  \* history: the last evaluation an UPDATE of the setting stands for
  forgotten     \* history: settings whose evaluations an error or a crash dropped

trackerVars == <<pending, tracking, evaluations, lastSeen, lastWritten, forgotten>>

Resting == [pc |-> "idle", ids |-> {}, upTo |-> 0]

TrackerInit ==
  /\ pending = {}
  /\ tracking = [p \in Evaluators |-> Resting]
  /\ evaluations = 0
  /\ lastSeen = [s \in Evaluated |-> 0]
  /\ lastWritten = [s \in Evaluated |-> 0]
  /\ forgotten = {}

\* Mutant of Record: only the evaluation that fills the set flushes it, and it
\* compares before it adds.
RecordLate(p, s) ==
  /\ tracking[p].pc = "idle" /\ evaluations < MaxEvaluations
  /\ evaluations' = evaluations + 1
  /\ pending' = pending \cup {s}
  /\ lastSeen' = [lastSeen EXCEPT ![s] = evaluations + 1]
  /\ tracking' = [tracking EXCEPT
       ![p].pc = IF Cardinality(pending) >= batch_size THEN "flush" ELSE "idle"]
  /\ UNCHANGED <<lastWritten, forgotten>>

\* record, called once the flag is evaluated.
Record(p, s) ==
  /\ tracking[p].pc = "idle" /\ evaluations < MaxEvaluations
  /\ evaluations' = evaluations + 1
  /\ pending' = pending \cup {s}
  /\ lastSeen' = [lastSeen EXCEPT ![s] = evaluations + 1]
  /\ tracking' = [tracking EXCEPT
       ![p].pc = IF Cardinality(pending \cup {s}) >= batch_size THEN "flush" ELSE "idle"]
  /\ UNCHANGED <<lastWritten, forgotten>>

\* Mutant of BeginFlush: it does not look whether somebody else has flushed.
BeginFlushEmpty(p) ==
  /\ tracking[p].pc = "flush"
  /\ tracking' = [tracking EXCEPT ![p] = [pc |-> "update", ids |-> pending, upTo |-> evaluations]]
  /\ pending' = {}
  /\ UNCHANGED <<evaluations, lastSeen, lastWritten, forgotten>>

\* flush: the set is copied and emptied.  Somebody else may have done so.
BeginFlush(p) ==
  /\ tracking[p].pc = "flush"
  /\ tracking' = [tracking EXCEPT
       ![p] = IF pending = {} THEN Resting
              ELSE [pc |-> "update", ids |-> pending, upTo |-> evaluations]]
  /\ pending' = {}
  /\ UNCHANGED <<evaluations, lastSeen, lastWritten, forgotten>>

\* last_evaluated_at is the start of p's transaction; what counts here is that an
\* UPDATE covers the evaluation, in whatever order the UPDATEs come.
Stamped(p) ==
  [s \in Evaluated |-> IF s \in tracking[p].ids /\ lastWritten[s] < tracking[p].upTo
                       THEN tracking[p].upTo ELSE lastWritten[s]]

\* Mutant of Write: the set is emptied after the UPDATE.
WriteClears(p) ==
  /\ tracking[p].pc = "update"
  /\ lastWritten' = Stamped(p)
  /\ pending' = {}
  /\ tracking' = [tracking EXCEPT ![p] = Resting]
  /\ UNCHANGED <<evaluations, lastSeen, forgotten>>

\* The UPDATE and its commit.
Write(p) ==
  /\ tracking[p].pc = "update"
  /\ lastWritten' = Stamped(p)
  /\ tracking' = [tracking EXCEPT ![p] = Resting]
  /\ UNCHANGED <<pending, evaluations, lastSeen, forgotten>>

\* The UPDATE fails: the ids it took are nowhere else.
WriteFails(p) ==
  /\ tracking[p].pc = "update"
  /\ tracking' = [tracking EXCEPT ![p] = Resting]
  /\ forgotten' = forgotten \cup tracking[p].ids
  /\ UNCHANGED <<pending, evaluations, lastSeen, lastWritten>>

\* The process ends: the set is in its memory only.
ProcessEnds ==
  /\ pending' = {}
  /\ forgotten' = forgotten \cup pending \cup UNION {tracking[p].ids : p \in Evaluators}
  /\ tracking' = [p \in Evaluators |-> Resting]
  /\ UNCHANGED <<evaluations, lastSeen, lastWritten>>

TrackerNext ==
  \/ \E p \in Evaluators :
       (\E s \in Evaluated : Record(p, s)) \/ BeginFlush(p) \/ Write(p) \/ WriteFails(p)
  \/ ProcessEnds

TrackerSpec == TrackerInit /\ [][TrackerNext]_trackerVars

-----------------------------------------------------------------------------
(* Properties.                                                              *)

Carriers == [pc : {"idle", "flush", "update"}, ids : SUBSET Evaluated, upTo : 0..evaluations]

\* Types of every variable; an UPDATE is only sent for the ids it took, at least
\* one, however many evaluations have seen the set full.
TrackerTypeOK ==
  /\ pending \subseteq Evaluated /\ forgotten \subseteq Evaluated
  /\ tracking \in [Evaluators -> Carriers]
  /\ \A p \in Evaluators : (tracking[p].pc = "update") = (tracking[p].ids # {})
  /\ evaluations \in Nat
  /\ lastSeen \in [Evaluated -> 0..evaluations] /\ lastWritten \in [Evaluated -> 0..evaluations]

\* The last evaluation of a setting is written, or waits to be, unless an UPDATE
\* failed or the process ended: no flush takes away what it does not write.
EvaluationsKept ==
  \A s \in Evaluated :
    lastWritten[s] < lastSeen[s] =>
      s \in pending \cup forgotten \cup UNION {tracking[p].ids : p \in Evaluators}

\* "Batches last_evaluated_at": a full set has somebody on the way to flush it,
\* although the lock is free in between and others may have come first.
FullSetFlushed ==
  Cardinality(pending) >= batch_size => \E p \in Evaluators : tracking[p].pc = "flush"
=============================================================================
