-------------------------- MODULE EnvironmentLocks --------------------------
(***************************************************************************)
(* The version bumps of transactions that change a flag in every           *)
(* environment of its project, next to transactions that bump one.         *)
(*                                                                         *)
(* Each bump is an UPDATE that locks the row of the environment until the  *)
(* commit; the environments come in the order of a SELECT without ORDER    *)
(* BY, which is any order, and a different one for every transaction.      *)
(***************************************************************************)
EXTENDS Integers, FiniteSets

CONSTANTS
  Changers,      \* transactions that run at the same time
  Envs,          \* the environments of the project
  MaxChanges     \* bound on the transactions of a run

ASSUME LocksAssumption == IsFiniteSet(Changers) /\ MaxChanges \in Nat

VARIABLES
  version,   \* ruleset_version: the committed value
  change,    \* the transactions: [pc, n, envs, todo, bumped]
  changes,   \* transactions so far
  applied    \* history: the environments each committed transaction was to bump

lockVars == <<version, change, changes, applied>>

NoChange == [pc |-> "idle", n |-> 0, envs |-> {}, todo |-> {}, bumped |-> {}]

LocksInit ==
  /\ version = [e \in Envs |-> 1]
  /\ change = [p \in Changers |-> NoChange]
  /\ changes = 0
  /\ applied = {}

\* update_flag, archive_flag and restore_flag read all environments; a setting or
\* the rules of one environment concern that one.
StartChange(p, E) ==
  /\ change[p].pc = "idle" /\ changes < MaxChanges
  /\ E = Envs \/ Cardinality(E) = 1
  /\ changes' = changes + 1
  /\ change' = [change EXCEPT
       ![p] = [pc |-> "bump", n |-> changes + 1, envs |-> E, todo |-> E, bumped |-> {}]]
  /\ UNCHANGED <<version, applied>>

HolderOf(p, e) == {q \in Changers \ {p} : e \in change[q].bumped}

\* Mutant of BumpEnvironment: the first environment ends the loop.
BumpSome(p, e) ==
  /\ change[p].pc = "bump" /\ e \in change[p].todo
  /\ HolderOf(p, e) = {}
  /\ change' = [change EXCEPT ![p].todo = @ \ Envs, ![p].bumped = @ \cup {e}]
  /\ UNCHANGED <<version, changes, applied>>

\* bump_ruleset_version, once the row is free.
BumpEnvironment(p, e) ==
  /\ change[p].pc = "bump" /\ e \in change[p].todo
  /\ HolderOf(p, e) = {}
  /\ change' = [change EXCEPT ![p].todo = @ \ {e}, ![p].bumped = @ \cup {e}]
  /\ UNCHANGED <<version, changes, applied>>

CommitChanges(p) ==
  /\ change[p].pc = "bump" /\ change[p].todo = {}
  /\ version' = [e \in Envs |->
       IF e \in change[p].bumped THEN version[e] + 1 ELSE version[e]]
  /\ applied' = applied \cup {[n |-> change[p].n, envs |-> change[p].envs]}
  /\ change' = [change EXCEPT ![p] = NoChange]
  /\ UNCHANGED changes

RollBack(p) ==
  /\ change' = [change EXCEPT ![p] = NoChange]
  /\ UNCHANGED <<version, changes, applied>>

\* Whom p waits for: the order of the SELECT decides which row comes next.
Awaits(p, q) ==
  change[p].pc = "bump" /\ change[q].pc = "bump" /\ change[p].todo \cap change[q].bumped # {}

\* PostgreSQL aborts a transaction of a circle, and the request fails.
BreakDeadlock(p) ==
  /\ \E C \in SUBSET Changers : p \in C /\ \A q \in C : \E r \in C \ {q} : Awaits(q, r)
  /\ RollBack(p)

\* Any other error, or a crash.
ChangeFails(p) == change[p].pc = "bump" /\ RollBack(p)

GoOn(p) ==
  (\E e \in change[p].todo : BumpEnvironment(p, e)) \/ CommitChanges(p) \/ BreakDeadlock(p)

LocksNext ==
  \E p \in Changers : (\E E \in SUBSET Envs : StartChange(p, E)) \/ GoOn(p) \/ ChangeFails(p)

LocksSpec == LocksInit /\ [][LocksNext]_lockVars

-----------------------------------------------------------------------------
(* Properties.                                                              *)

\* Types; a row is locked by one transaction.
LocksTypeOK ==
  /\ version \in [Envs -> Nat]
  /\ \A p \in Changers : change[p].todo \subseteq change[p].envs
                         /\ change[p].bumped \cap change[p].todo = {}
  /\ \A p, q \in Changers : p # q => change[p].bumped \cap change[q].bumped = {}

\* All or nothing: the version of an environment has moved once for every
\* committed change that concerns it, in whatever order the rows were locked, and
\* no more for one that was rolled back half way.
EveryEnvironmentBumped ==
  \A e \in Envs : version[e] = 1 + Cardinality({c \in applied : e \in c.envs})

=============================================================================
