-------------------------- MODULE DashboardProofs ---------------------------
(***************************************************************************)
(* Theorems about what the dashboard writes and shows of a project: the    *)
(* version bumps of its environments, the edits of its segments and rules, *)
(* and the health of its flags.  The three share no variable.              *)
(***************************************************************************)
EXTENDS EnvironmentLocks, Targeting, FlagHealth, WaitingTheorems, FiniteSetTheorems,
        WellFoundedInduction, TLAPS

-----------------------------------------------------------------------------
(* Version bumps, for any number of environments and of transactions.  The  *)
(* row locks keep the environments of two transactions apart, and a         *)
(* transaction has bumped what it is no longer to bump; the numbers of the  *)
(* running transactions are none of the committed ones, so that each commit *)
(* counts once.                                                             *)

Transactions(n) ==
  [pc : {"idle", "bump"}, n : 0..n, envs : SUBSET Envs, todo : SUBSET Envs, bumped : SUBSET Envs]

Shapes ==
  /\ changes \in Nat
  /\ version \in [Envs -> Nat]
  /\ change \in [Changers -> Transactions(changes)]

\* What a transaction was to bump is bumped or still to do.
Split ==
  \A p \in Changers :
    /\ change[p].todo \cup change[p].bumped = change[p].envs
    /\ change[p].todo \cap change[p].bumped = {}

LocksExclude ==
  \A p, q \in Changers : p # q => change[p].bumped \cap change[q].bumped = {}

\* No committed transaction has the number of a running one, and no two running
\* ones share theirs.
Numbers ==
  /\ IsFiniteSet(applied)
  /\ \A c \in applied : c.n \in 1..changes
  /\ \A p \in Changers : change[p].pc = "bump" =>
       change[p].n \in 1..changes /\ \A c \in applied : c.n # change[p].n
  /\ \A p, q \in Changers :
       p # q /\ change[p].pc = "bump" /\ change[q].pc = "bump" => change[p].n # change[q].n

LocksInv == Shapes /\ Split /\ LocksExclude /\ Numbers /\ EveryEnvironmentBumped

OthersChange(p) == \A q \in Changers \ {p} : change'[q] = change[q]

-----------------------------------------------------------------------------

\* A step of one transaction replaces its record and no other.
LEMMA OneRecord ==
  ASSUME Shapes, NEW p \in Changers, NEW r, change' = [change EXCEPT ![p] = r],
         changes' \in Nat, changes <= changes', r \in Transactions(changes')
  PROVE  /\ change'[p] = r /\ OthersChange(p)
         /\ change' \in [Changers -> Transactions(changes')]
<1>1. Transactions(changes) \subseteq Transactions(changes')
  BY DEF Shapes, Transactions
<1>2. change \in [Changers -> Transactions(changes')]
  BY <1>1 DEF Shapes
<1>3. QED
  BY <1>2 DEF Shapes, OthersChange

\* The idle record fits everywhere.
LEMMA NoChangeFits ==
  ASSUME NEW n \in Nat
  PROVE  NoChange \in Transactions(n)
BY DEF NoChange, Transactions

\* Nothing runs at first.
LEMMA LocksInitHolds == LocksInit => LocksInv
<1> SUFFICES ASSUME LocksInit PROVE LocksInv
  OBVIOUS
<1>1. Shapes
  BY NoChangeFits DEF LocksInit, Shapes
<1>2. Split /\ LocksExclude
  BY DEF LocksInit, Split, LocksExclude, NoChange
<1>3. Numbers
  BY FS_EmptySet DEF LocksInit, Numbers, NoChange
<1>4. EveryEnvironmentBumped
  <2> SUFFICES ASSUME NEW e \in Envs
               PROVE  version[e] = 1 + Cardinality({c \in applied : e \in c.envs})
    BY DEF EveryEnvironmentBumped
  <2>1. {c \in applied : e \in c.envs} = {}
    BY DEF LocksInit
  <2>2. QED
    BY <2>1, FS_EmptySet DEF LocksInit
<1>5. QED
  BY <1>1, <1>2, <1>3, <1>4 DEF LocksInv

\* A transaction starts with a number nobody has had.
LEMMA StartChangeKeeps ==
  ASSUME LocksInv, NEW p \in Changers, NEW E \in SUBSET Envs, StartChange(p, E)
  PROVE  LocksInv'
<1> DEFINE r == [pc |-> "bump", n |-> changes + 1, envs |-> E, todo |-> E, bumped |-> {}]
<1>1. /\ changes \in Nat /\ changes' = changes + 1
      /\ version' = version /\ applied' = applied
      /\ change' = [change EXCEPT ![p] = r]
  BY DEF StartChange, LocksInv, Shapes
<1>2. /\ r.pc = "bump" /\ r.n = changes + 1 /\ r.envs = E /\ r.todo = E /\ r.bumped = {}
      /\ r \in Transactions(changes')
  BY <1>1 DEF Transactions
<1> HIDE DEF r
<1>3. change'[p] = r /\ OthersChange(p) /\ change' \in [Changers -> Transactions(changes')]
  <2>1. Shapes /\ changes' \in Nat /\ changes <= changes'
    BY <1>1 DEF LocksInv
  <2>2. QED
    BY <1>1, <1>2, <2>1, OneRecord
<1>4. Shapes'
  BY <1>1, <1>3 DEF LocksInv, Shapes
<1>5. Split'
  BY <1>2, <1>3 DEF LocksInv, Split, OthersChange
<1>6. LocksExclude'
  BY <1>2, <1>3 DEF LocksInv, LocksExclude, OthersChange
<1>7. Numbers'
  <2>1. IsFiniteSet(applied') /\ \A c \in applied' : c.n \in 1..changes' /\ c.n # changes + 1
    BY <1>1 DEF LocksInv, Numbers
  <2>2. ASSUME NEW q \in Changers, change'[q].pc = "bump"
        PROVE  /\ change'[q].n \in 1..changes' /\ (\A c \in applied' : c.n # change'[q].n)
               /\ (q # p => change'[q].n # changes + 1)
    <3>1. CASE q = p
      BY <1>1, <1>2, <1>3, <2>1, <3>1
    <3>2. CASE q # p
      BY <1>1, <1>3, <2>2, <3>2 DEF LocksInv, Numbers, OthersChange
    <3>3. QED
      BY <3>1, <3>2
  <2>3. ASSUME NEW q \in Changers, NEW s \in Changers, q # s,
               change'[q].pc = "bump", change'[s].pc = "bump"
        PROVE  change'[q].n # change'[s].n
    <3>1. CASE q = p \/ s = p
      BY <1>2, <1>3, <2>2, <2>3, <3>1
    <3>2. CASE q # p /\ s # p
      BY <1>3, <2>3, <3>2 DEF LocksInv, Numbers, OthersChange
    <3>3. QED
      BY <3>1, <3>2
  <2>4. QED
    BY <2>1, <2>2, <2>3 DEF Numbers
<1>8. EveryEnvironmentBumped'
  BY <1>1 DEF LocksInv, EveryEnvironmentBumped
<1>9. QED
  BY <1>4, <1>5, <1>6, <1>7, <1>8 DEF LocksInv

\* The row of the environment is nobody else's when it is bumped.
LEMMA BumpSomeKeeps ==
  ASSUME LocksInv, NEW p \in Changers, NEW e \in change[p].todo, BumpEnvironment(p, e)
  PROVE  LocksInv'
<1> DEFINE r == [change[p] EXCEPT !.todo = @ \ {e}, !.bumped = @ \cup {e}]
<1>1. /\ change[p].pc = "bump" /\ change[p] \in Transactions(changes)
      /\ changes \in Nat /\ changes' = changes /\ version' = version /\ applied' = applied
      /\ \A q \in Changers \ {p} : e \notin change[q].bumped
      /\ change' = [change EXCEPT ![p] = r]
  BY DEF BumpEnvironment, HolderOf, LocksInv, Shapes
<1>2. /\ r.pc = change[p].pc /\ r.n = change[p].n /\ r.envs = change[p].envs
      /\ r.todo = change[p].todo \ {e} /\ r.bumped = change[p].bumped \cup {e}
      /\ r \in Transactions(changes')
  BY <1>1 DEF Transactions
<1> HIDE DEF r
<1>3. change'[p] = r /\ OthersChange(p) /\ change' \in [Changers -> Transactions(changes')]
  <2>1. Shapes /\ changes' \in Nat /\ changes <= changes'
    BY <1>1 DEF LocksInv
  <2>2. QED
    BY <1>1, <1>2, <2>1, OneRecord
<1>4. Shapes'
  BY <1>1, <1>3 DEF LocksInv, Shapes
<1>5. Split'
  BY <1>2, <1>3 DEF LocksInv, Split, OthersChange
<1>6. LocksExclude'
  BY <1>1, <1>2, <1>3 DEF LocksInv, LocksExclude, OthersChange
<1>7. Numbers'
  BY <1>1, <1>2, <1>3 DEF LocksInv, Numbers, OthersChange
<1>8. EveryEnvironmentBumped'
  BY <1>1 DEF LocksInv, EveryEnvironmentBumped
<1>9. QED
  BY <1>4, <1>5, <1>6, <1>7, <1>8 DEF LocksInv

\* A transaction that is over holds nothing and has no number.
LEMMA EndsClean ==
  ASSUME LocksInv, NEW p \in Changers, change' = [change EXCEPT ![p] = NoChange],
         changes' = changes
  PROVE  /\ OthersChange(p) /\ change'[p].pc = "idle"
         /\ change' \in [Changers -> Transactions(changes')]
         /\ Split' /\ LocksExclude'
<1>1. /\ change'[p] = NoChange /\ OthersChange(p)
      /\ change' \in [Changers -> Transactions(changes')]
  <2>1. Shapes /\ changes' \in Nat /\ changes <= changes'
    BY DEF LocksInv, Shapes
  <2>2. NoChange \in Transactions(changes')
    BY <2>1, NoChangeFits
  <2>3. QED
    BY <2>1, <2>2, OneRecord
<1>2. NoChange.pc = "idle" /\ NoChange.envs = {} /\ NoChange.todo = {} /\ NoChange.bumped = {}
  BY DEF NoChange
<1>3. Split'
  BY <1>1, <1>2 DEF LocksInv, Split, OthersChange
<1>4. LocksExclude'
  BY <1>1, <1>2 DEF LocksInv, LocksExclude, OthersChange
<1>5. QED
  BY <1>1, <1>2, <1>3, <1>4

\* A rollback leaves no trace.
LEMMA RollBackKeeps ==
  ASSUME LocksInv, NEW p \in Changers, RollBack(p)
  PROVE  LocksInv'
<1>1. /\ change' = [change EXCEPT ![p] = NoChange] /\ changes' = changes
      /\ version' = version /\ applied' = applied
  BY DEF RollBack
<1>2. /\ OthersChange(p) /\ change'[p].pc = "idle"
      /\ change' \in [Changers -> Transactions(changes')]
      /\ Split' /\ LocksExclude'
  BY <1>1, EndsClean
<1>3. Shapes'
  BY <1>1, <1>2 DEF LocksInv, Shapes
<1>4. Numbers'
  BY <1>1, <1>2 DEF LocksInv, Numbers, OthersChange
<1>5. EveryEnvironmentBumped'
  BY <1>1 DEF LocksInv, EveryEnvironmentBumped
<1>6. QED
  BY <1>2, <1>3, <1>4, <1>5 DEF LocksInv

\* A commit counts in exactly the environments it was to bump.
LEMMA CommitKeeps ==
  ASSUME LocksInv, NEW p \in Changers, CommitChanges(p)
  PROVE  LocksInv'
<1> DEFINE new == [n |-> change[p].n, envs |-> change[p].envs]
<1>1. /\ change[p].pc = "bump" /\ change[p].bumped = change[p].envs
      /\ changes' = changes /\ change' = [change EXCEPT ![p] = NoChange]
      /\ applied' = applied \cup {new}
      /\ version' = [e \in Envs |-> IF e \in change[p].bumped THEN version[e] + 1 ELSE version[e]]
  BY DEF CommitChanges, LocksInv, Split
<1>2. /\ OthersChange(p) /\ change'[p].pc = "idle"
      /\ change' \in [Changers -> Transactions(changes')]
      /\ Split' /\ LocksExclude'
  BY <1>1, EndsClean
<1>3. new.n = change[p].n /\ new.envs = change[p].envs /\ new \notin applied
  BY <1>1 DEF LocksInv, Numbers
<1> HIDE DEF new
<1>4. Shapes'
  BY <1>1, <1>2 DEF LocksInv, Shapes
<1>5. Numbers'
  <2>1. IsFiniteSet(applied')
    BY <1>1, FS_AddElement DEF LocksInv, Numbers
  <2>2. \A c \in applied' : c.n \in 1..changes'
    BY <1>1, <1>3 DEF LocksInv, Numbers
  <2>3. QED
    BY <1>1, <1>2, <1>3, <2>1, <2>2 DEF LocksInv, Numbers, OthersChange
<1>6. EveryEnvironmentBumped'
  <2> SUFFICES ASSUME NEW e \in Envs
               PROVE  version'[e] = 1 + Cardinality({c \in applied' : e \in c.envs})
    BY DEF EveryEnvironmentBumped
  <2> DEFINE before == {c \in applied : e \in c.envs}
  <2>1. IsFiniteSet(before) /\ new \notin before
    BY <1>3, FS_Subset DEF LocksInv, Numbers
  <2>2. version[e] = 1 + Cardinality(before) /\ Cardinality(before) \in Nat
    BY <2>1, FS_CardinalityType DEF LocksInv, EveryEnvironmentBumped
  <2>3. CASE e \in change[p].envs
    <3>1. {c \in applied' : e \in c.envs} = before \cup {new}
      BY <1>1, <1>3, <2>3
    <3>2. Cardinality(before \cup {new}) = Cardinality(before) + 1
      BY <2>1, FS_AddElement
    <3>3. version'[e] = version[e] + 1
      BY <1>1, <2>3
    <3> HIDE DEF before
    <3>4. QED
      BY <2>2, <3>1, <3>2, <3>3
  <2>4. CASE e \notin change[p].envs
    <3>1. {c \in applied' : e \in c.envs} = before
      BY <1>1, <1>3, <2>4
    <3>2. QED
      BY <1>1, <2>2, <2>4, <3>1
  <2>5. QED
    BY <2>3, <2>4
<1>7. QED
  BY <1>2, <1>4, <1>5, <1>6 DEF LocksInv

-----------------------------------------------------------------------------

\* Every step of every transaction keeps the invariant.
LEMMA LocksStepHolds == LocksInv /\ [LocksNext]_lockVars => LocksInv'
<1> SUFFICES ASSUME LocksInv, [LocksNext]_lockVars PROVE LocksInv'
  OBVIOUS
<1>1. CASE UNCHANGED lockVars
  BY <1>1 DEF lockVars, LocksInv, Shapes, Split, LocksExclude, Numbers, EveryEnvironmentBumped
<1>2. CASE LocksNext
  <2>1. PICK p \in Changers :
          (\E E \in SUBSET Envs : StartChange(p, E)) \/ GoOn(p) \/ ChangeFails(p)
    BY <1>2 DEF LocksNext
  <2>2. CASE \E E \in SUBSET Envs : StartChange(p, E)
    BY <2>2, StartChangeKeeps
  <2>3. CASE \E e \in change[p].todo : BumpEnvironment(p, e)
    BY <2>3, BumpSomeKeeps
  <2>4. CASE CommitChanges(p)
    BY <2>4, CommitKeeps
  <2>5. CASE BreakDeadlock(p) \/ ChangeFails(p)
    BY <2>5, RollBackKeeps DEF BreakDeadlock, ChangeFails
  <2>6. QED
    BY <2>1, <2>2, <2>3, <2>4, <2>5 DEF GoOn
<1>3. QED
  BY <1>1, <1>2

\* The invariant holds throughout.
THEOREM LocksInvariant == LocksSpec => []LocksInv
<1>1. QED
  BY LocksInitHolds, LocksStepHolds, PTL DEF LocksSpec

\* Types, and mutual exclusion on the rows of environments.
THEOREM LocksTypeCorrect == LocksSpec => []LocksTypeOK
<1>1. LocksInv => LocksTypeOK
  BY DEF LocksInv, Shapes, Split, LocksExclude, LocksTypeOK
<1>2. QED
  BY LocksInvariant, <1>1, PTL

\* ruleset_version counts the committed changes that concern the environment, in
\* whatever order the SELECT gives the environments and whoever is rolled back.
THEOREM EveryCommitCounts == LocksSpec => []EveryEnvironmentBumped
<1>1. LocksInv => EveryEnvironmentBumped
  BY DEF LocksInv
<1>2. QED
  BY LocksInvariant, <1>1, PTL

\* Every transaction asks for its environments in an order of its own: the next
\* one of each, whom it waits for then, and the guards of BumpEnvironment and
\* CommitChanges.
NoEnv == CHOOSE e : e \notin Envs

NextEnvs ==
  {next \in [Changers -> Envs \cup {NoEnv}] :
     \A p \in Changers : change[p].todo # {} => next[p] \in change[p].todo}

ChangeHeldUp(p, e) == IF change[p].todo = {} THEN {} ELSE HolderOf(p, e)

ChangeReady(p, e) ==
  /\ change[p].pc = "bump"
  /\ change[p].todo = {} \/ (e \in change[p].todo /\ HolderOf(p, e) = {})

\* Whatever the orders are: nobody waits for a transaction that has ended, and of
\* those that wait for one another only, one can go on or is in a circle, which
\* PostgreSQL breaks.
NoChangeStuck ==
  \A next \in NextEnvs :
    LET W == [p \in Changers |-> ChangeHeldUp(p, next[p])] IN
    /\ \A p \in Changers : \A q \in W[p] : change[q].pc = "bump"
    /\ \A S \in SUBSET {p \in Changers : change[p].pc = "bump"} :
         S # {} /\ (\A p \in S : W[p] \subseteq S) =>
           \E p \in S : ChangeReady(p, next[p]) \/ OnCircle(W, p)

\* An idle transaction has locked nothing.
LEMMA IdleLocksNothing == LocksSpec => [](\A p \in Changers : change[p].pc = "idle" => change[p].bumped = {})
<1> DEFINE Inv == \A p \in Changers : change[p].pc = "idle" => change[p].bumped = {}
<1>1. LocksInit => Inv
  BY DEF LocksInit, NoChange
<1>2. Inv /\ LocksInv /\ [LocksNext]_lockVars => Inv'
  <2> SUFFICES ASSUME Inv, LocksInv, [LocksNext]_lockVars PROVE Inv'
    OBVIOUS
  <2>1. change \in [Changers -> Transactions(changes)]
    BY DEF LocksInv, Shapes
  <2>2. ASSUME NEW p \in Changers, NEW E \in SUBSET Envs, StartChange(p, E) PROVE Inv'
    BY <2>1, <2>2 DEF StartChange
  <2>3. ASSUME NEW p \in Changers, NEW e \in change[p].todo, BumpEnvironment(p, e) PROVE Inv'
    BY <2>1, <2>3 DEF BumpEnvironment, Transactions
  <2>4. ASSUME NEW p \in Changers, CommitChanges(p) \/ RollBack(p) PROVE Inv'
    BY <2>1, <2>4 DEF CommitChanges, RollBack, NoChange
  <2>5. CASE UNCHANGED lockVars
    BY <2>5 DEF lockVars
  <2>6. QED
    BY <2>2, <2>3, <2>4, <2>5 DEF LocksNext, GoOn, BreakDeadlock, ChangeFails
<1>3. QED
  BY <1>1, <1>2, LocksInvariant, PTL DEF LocksSpec

\* The bumps of a flag's environments come in any order, and still the transactions
\* do not all stop: the circles that can form are those PostgreSQL sees.
THEOREM NoChangeIsStuck == LocksSpec => []NoChangeStuck
<1> DEFINE Quiet == \A p \in Changers : change[p].pc = "idle" => change[p].bumped = {}
<1>1. LocksInv /\ Quiet => NoChangeStuck
  <2> SUFFICES ASSUME LocksInv, Quiet, NEW next \in NextEnvs PROVE
        LET W == [p \in Changers |-> ChangeHeldUp(p, next[p])] IN
        /\ \A p \in Changers : \A q \in W[p] : change[q].pc = "bump"
        /\ \A S \in SUBSET {p \in Changers : change[p].pc = "bump"} :
             S # {} /\ (\A p \in S : W[p] \subseteq S) =>
               \E p \in S : ChangeReady(p, next[p]) \/ OnCircle(W, p)
    BY DEF NoChangeStuck
  <2> DEFINE W == [p \in Changers |-> ChangeHeldUp(p, next[p])]
  <2>1. \A p \in Changers : \A q \in W[p] : change[q].pc = "bump"
    BY DEF LocksInv, Shapes, Transactions, ChangeHeldUp, HolderOf
  <2>2. ASSUME NEW S \in SUBSET {p \in Changers : change[p].pc = "bump"}, S # {},
               \A p \in S : W[p] \subseteq S
        PROVE  \E p \in S : ChangeReady(p, next[p]) \/ OnCircle(W, p)
    <3>1. IsFiniteSet(S) /\ S \subseteq DOMAIN W
      BY LocksAssumption, FS_Subset
    <3>2. \A p \in S : W[p] = {} => ChangeReady(p, next[p])
      BY DEF ChangeHeldUp, ChangeReady, NextEnvs
    <3>3. \E p \in S : W[p] = {} \/ OnCircle(W, p)
      <4> HIDE DEF W
      <4>1. QED
        BY <2>2, <3>1, SomebodyMoves
    <3>4. QED
      BY <3>2, <3>3
  <2>3. QED
    BY <2>1, <2>2
<1>2. QED
  BY <1>1, LocksInvariant, IdleLocksNothing, PTL

-----------------------------------------------------------------------------
(* Overlapping edits of segments and rules, for any number of writers, keys, *)
(* trees and requests: the rows keep their constraints, the rules of two    *)
(* requests mix only if the requests overlapped, and a request nobody overtook *)
(* closes no circle of segments.                                            *)

SegmentRows == [id : Nat, key : Keys, tree : Trees]
RuleRows == [of : Nat, priority : Int, segment : Nat]
Lookups == [ref : References, path : SUBSET References]

Edits ==
  [pc : EditLabels, kind : Kinds, n : Nat, key : Keys \cup {""}, row : Nat, tree : Trees,
   loaded : SUBSET SegmentRows, todo : SUBSET Lookups, rules : SUBSET [priority : Int, segment : Nat],
   seen : SUBSET (Nat \X Int), deleted : SUBSET (Nat \X Int), alone : BOOLEAN]

EditShapes ==
  /\ segments \subseteq SegmentRows
  /\ rules \subseteq RuleRows
  /\ edit \in [Writers -> Edits]
  /\ edits \in Nat

Runs(w) == edit[w].pc # "idle"

\* Segments and rules in themselves: the constraints of the tables.
SegmentsUnique ==
  /\ \A r \in segments : r.id \in 1..edits
  /\ \A r, q \in segments : (r.id = q.id \/ r.key = q.key) => r = q

RulesUnique ==
  /\ \A r \in rules : r.of \in 0..edits /\ r.segment \in {NoSegment} \cup {q.id : q \in segments}
  /\ \A r, q \in rules : r.priority = q.priority => r = q

\* A running request has a number no other one and no segment has.
RequestNumbers ==
  /\ \A w \in Writers : edit[w].n \in 0..edits
  /\ \A w \in Writers : Runs(w) => edit[w].n # 0 /\ \A r \in segments : r.id # edit[w].n
  /\ \A v, w \in Writers : v # w /\ Runs(v) /\ Runs(w) => edit[v].n # edit[w].n

\* Requests that run now have overlapped.
NowOverlapped ==
  \A v, w \in Writers : v # w /\ Runs(v) /\ Runs(w) => {edit[v].n, edit[w].n} \in overlapped

\* Which kinds of requests are where; the rules of a request have one each of
\* their priorities.
Stage(w) ==
  /\ edit[w].pc = "check" => edit[w].kind \in {"create", "update"}
  /\ edit[w].pc \in {"delete", "rows"} => edit[w].kind = "rules"
  /\ edit[w].kind \in {"create", "update"} => edit[w].key \in Keys
  /\ \A r, q \in edit[w].rules : r.priority = q.priority => r = q

\* A rule that w's DELETE has not seen is of a request that overlaps w.
DeleteSees(w) ==
  \A r \in rules :
    /\ edit[w].pc = "rows" =>
         <<r.of, r.priority>> \in edit[w].seen \/ {r.of, edit[w].n} \in overlapped
    /\ (edit[w].pc \in {"bump", "commit"} /\ edit[w].kind = "rules") =>
         <<r.of, r.priority>> \in edit[w].deleted \/ {r.of, edit[w].n} \in overlapped

Checks(w) ==
  /\ edit[w].pc \in {"check", "bump", "commit"} /\ edit[w].kind \in {"create", "update"}
  /\ edit[w].alone

\* Nothing has been committed since a request began that is still alone: the
\* session's rows are those of the table.
StillTrue(w) == Checks(w) =>
  /\ edit[w].loaded \subseteq segments
  /\ edit[w].kind = "update" => \E r \in segments : r.id = edit[w].row /\ r.key = edit[w].key

OwnKey(w) == <<"key", edit[w].key>>
KeysOf(D) == {<<"key", r.key>> : r \in D}

\* From every row of D the references by key lead on, to D or to w's segment;
\* so do those of w's new tree.
LeadsOn(w, D, tree) ==
  /\ \A r \in D : Refs[r.tree] \cap (KeysOf(D) \cup {OwnKey(w)}) # {}
  /\ Refs[tree] \cap (KeysOf(D) \cup {OwnKey(w)}) # {}

\* If w's tree closed a circle through its own segment, along rows D, then one
\* of the references that are still to be looked up would lie on the circle.
CircleInSight(w) == Checks(w) =>
  /\ \A e \in edit[w].todo : OwnKey(w) \in e.path
  /\ edit[w].pc # "check" => edit[w].todo = {}
  /\ \A D \in SUBSET segments : LeadsOn(w, D, edit[w].tree) =>
       \E e \in edit[w].todo : e.ref \in KeysOf(D) \cup {OwnKey(w)}

WriterInv(w) == Stage(w) /\ DeleteSees(w) /\ StillTrue(w) /\ CircleInSight(w)

TargetingInv ==
  /\ EditShapes /\ SegmentsUnique /\ RulesUnique /\ RequestNumbers
  /\ NowOverlapped /\ RulesOfOneRequest
  /\ \A w \in Writers : WriterInv(w)

OthersEdit(w) == \A v \in Writers \ {w} : edit'[v] = edit[v]

-----------------------------------------------------------------------------
(* Shapes.                                                                  *)

LEMMA NoEditFits ==
  ASSUME NEW pc \in EditLabels
  PROVE  /\ NoEdit(pc) \in Edits
         /\ NoEdit(pc).pc = pc /\ NoEdit(pc).kind = "none" /\ NoEdit(pc).n = 0
         /\ NoEdit(pc).rules = {} /\ NoEdit(pc).todo = {} /\ NoEdit(pc).alone = TRUE
BY TargetingAssumption DEF NoEdit, Edits, Kinds, NoSegment

\* An idle writer has nothing to keep.
LEMMA IdleKeeps ==
  ASSUME NEW w \in Writers, edit[w] = NoEdit("idle")
  PROVE  WriterInv(w)
BY NoEditFits
   DEF WriterInv, Stage, DeleteSees, StillTrue, CircleInSight, Checks, EditLabels

LEMMA OneEdit ==
  ASSUME EditShapes, NEW w \in Writers, NEW r \in Edits, edit' = [edit EXCEPT ![w] = r]
  PROVE  edit'[w] = r /\ OthersEdit(w) /\ edit' \in [Writers -> Edits]
BY DEF EditShapes, OthersEdit

\* Nobody has begun at first.
LEMMA TargetingInitHolds == TargetingInit => TargetingInv
<1> SUFFICES ASSUME TargetingInit PROVE TargetingInv
  OBVIOUS
<1> USE DEF TargetingInit
<1>1. PICK R \in RuleSets :
        /\ \A r \in R : r.segment \in {NoSegment} \cup {q.id : q \in FirstSegments}
        /\ rules = {[of |-> 0, priority |-> r.priority, segment |-> r.segment] : r \in R}
  OBVIOUS
<1>2. Cardinality(FirstSegments) \in Nat
  BY TargetingAssumption, FS_CardinalityType
<1>3. /\ \A w \in Writers : edit[w] = NoEdit("idle")
      /\ edit \in [Writers -> Edits]
  BY NoEditFits DEF EditLabels
<1>4. \A w \in Writers : edit[w].pc = "idle" /\ edit[w].n = 0
  BY <1>3, NoEditFits DEF EditLabels
<1>5. EditShapes
  <2>1. segments \subseteq SegmentRows
    BY <1>2, TargetingAssumption DEF SegmentRows
  <2>2. R \subseteq [priority : Int, segment : Nat]
    BY TargetingAssumption
  <2>3. rules \subseteq RuleRows
    BY <1>1, <2>2 DEF RuleRows, NoSegment
  <2>4. QED
    BY <1>2, <1>3, <2>1, <2>3 DEF EditShapes
<1>6. SegmentsUnique
  BY <1>2, TargetingAssumption DEF SegmentsUnique
<1>7. RulesUnique
  <2>1. \A r, q \in R : r.priority = q.priority => r = q
    BY TargetingAssumption
  <2>2. \A r \in R : r.segment \in {NoSegment} \cup {q.id : q \in segments}
    BY <1>1
  <2>3. \A r, q \in rules : r.priority = q.priority => r = q
    BY <1>1, <2>1
  <2>4. \A r \in rules : r.of \in 0..edits /\ r.segment \in {NoSegment} \cup {q.id : q \in segments}
    BY <1>1, <1>2, <2>2
  <2>5. QED
    BY <2>3, <2>4 DEF RulesUnique
<1>8. RequestNumbers /\ NowOverlapped
  BY <1>2, <1>4 DEF RequestNumbers, NowOverlapped, Runs
<1>9. RulesOfOneRequest
  BY <1>1 DEF RulesOfOneRequest
<1>10. QED
  BY <1>3, <1>5, <1>6, <1>7, <1>8, <1>9, IdleKeeps DEF TargetingInv

-----------------------------------------------------------------------------
(* Steps of one request that leave the rows alone.                          *)

\* w stops, or stays the request it is.
SameRequest(w) ==
  \/ edit'[w] = NoEdit("idle")
  \/ /\ Runs(w) /\ edit'[w].pc # "idle"
     /\ edit'[w].n = edit[w].n

LEMMA LocalStep ==
  ASSUME TargetingInv, NEW w \in Writers, NEW r \in Edits, edit' = [edit EXCEPT ![w] = r],
         UNCHANGED <<segments, rules, edits, overlapped>>,
         SameRequest(w), WriterInv(w)'
  PROVE  TargetingInv'
<1>1. edit'[w] = r /\ OthersEdit(w) /\ edit' \in [Writers -> Edits]
  BY OneEdit DEF TargetingInv
<1>2. EditShapes' /\ SegmentsUnique' /\ RulesUnique' /\ RulesOfOneRequest'
  BY <1>1 DEF TargetingInv, EditShapes, SegmentsUnique, RulesUnique, RulesOfOneRequest
<1>3. \A v \in Writers : Runs(v)' => Runs(v) /\ edit'[v].n = edit[v].n
  BY <1>1, NoEditFits DEF SameRequest, OthersEdit, Runs, EditLabels
<1>4. RequestNumbers'
  <2>1. \A v \in Writers : edit'[v].n \in 0..edits
    BY <1>1, NoEditFits
       DEF TargetingInv, EditShapes, RequestNumbers, SameRequest, OthersEdit, EditLabels
  <2>2. QED
    BY <1>3, <2>1 DEF TargetingInv, RequestNumbers
<1>5. NowOverlapped'
  BY <1>3 DEF TargetingInv, NowOverlapped
<1>6. ASSUME NEW v \in Writers PROVE WriterInv(v)'
  <2>1. CASE v = w
    BY <2>1
  <2>2. CASE v # w
    <3>1. edit'[v] = edit[v] /\ WriterInv(v)
      BY <1>1, <2>2 DEF OthersEdit, TargetingInv
    <3>2. Stage(v)' /\ DeleteSees(v)' /\ StillTrue(v)'
      BY <3>1 DEF WriterInv, Stage, DeleteSees, StillTrue, Checks
    <3>3. CircleInSight(v)'
      <4>1. /\ Checks(v)' = Checks(v) /\ OwnKey(v)' = OwnKey(v)
            /\ \A D : LeadsOn(v, D, edit[v].tree)' = LeadsOn(v, D, edit[v].tree)
        BY <3>1 DEF Checks, OwnKey, LeadsOn, KeysOf
      <4>2. QED
        BY <3>1, <4>1 DEF WriterInv, CircleInSight, KeysOf
    <3>4. QED
      BY <3>2, <3>3 DEF WriterInv
  <2>3. QED
    BY <2>1, <2>2
<1>7. QED
  BY <1>2, <1>4, <1>5, <1>6 DEF TargetingInv

LEMMA RefuseKeeps ==
  ASSUME TargetingInv, NEW w \in Writers, Refuse(w)
  PROVE  TargetingInv'
<1>1. NoEdit("idle") \in Edits
  BY NoEditFits DEF EditLabels
<1>2. edit'[w] = NoEdit("idle")
  BY <1>1, OneEdit DEF Refuse, TargetingInv
<1>3. WriterInv(w)'
  BY <1>2, NoEditFits
     DEF WriterInv, Stage, DeleteSees, StillTrue, CircleInSight, Checks, EditLabels
<1>4. QED
  BY <1>1, <1>2, <1>3, LocalStep DEF Refuse, SameRequest

-----------------------------------------------------------------------------
(* The check for circles.                                                   *)

\* A lookup of a request that is alone finds the rows of the table.
LEMMA LookupMeets ==
  ASSUME TargetingInv, NEW w \in Writers, Checks(w), NEW ref,
         NEW r \in segments, r \in Named(ref)
  PROVE  r \in UNION {AsLoaded(w, q) : q \in Named(ref)}
<1>1. edit[w].loaded \subseteq segments
  BY DEF TargetingInv, WriterInv, StillTrue
<1>2. AsLoaded(w, r) = {r}
  BY <1>1 DEF AsLoaded, TargetingInv, SegmentsUnique
<1>3. QED
  BY <1>2

LEMMA LookKeeps ==
  ASSUME TargetingInv, NEW w \in Writers, NEW e \in edit[w].todo, Look(w, e)
  PROVE  TargetingInv'
<1>1. CASE e.ref \in e.path
  BY <1>1, RefuseKeeps DEF Look
<1>2. CASE e.ref \notin e.path
  <2> DEFINE met == UNION {AsLoaded(w, q) : q \in Named(e.ref)}
             more == UNION {Todo(q.tree, e.path \cup {e.ref, <<"key", q.key>>}) : q \in met}
             r == [edit[w] EXCEPT !.loaded = @ \cup met, !.todo = (@ \ {e}) \cup more]
  <2>1. /\ edit[w].pc = "check"
        /\ edit' = [edit EXCEPT ![w] = r]
        /\ UNCHANGED <<segments, rules, edits, overlapped>>
    BY <1>2 DEF Look, TargetingInv, EditShapes
  <2>2. edit[w] \in Edits /\ segments \subseteq SegmentRows /\ e \in Lookups
    BY DEF TargetingInv, EditShapes, Edits
  <2>3. met \subseteq SegmentRows
    BY <2>2 DEF AsLoaded, Named, Edits
  <2>4. more \subseteq Lookups
    <3> SUFFICES ASSUME NEW q \in met
                 PROVE  Todo(q.tree, e.path \cup {e.ref, <<"key", q.key>>}) \subseteq Lookups
      OBVIOUS
    <3>1. q.tree \in Trees /\ <<"key", q.key>> \in References
      BY <2>3 DEF SegmentRows, References
    <3>2. Refs[q.tree] \subseteq References
      BY <3>1, TargetingAssumption
    <3>3. QED
      BY <2>2, <3>1, <3>2 DEF Todo, Lookups
  <2>5. /\ r \in Edits /\ r.pc = "check" /\ r.n = edit[w].n /\ r.kind = edit[w].kind
        /\ r.key = edit[w].key /\ r.row = edit[w].row /\ r.tree = edit[w].tree
        /\ r.rules = edit[w].rules /\ r.alone = edit[w].alone
        /\ r.loaded = edit[w].loaded \cup met /\ r.todo = (edit[w].todo \ {e}) \cup more
    BY <2>1, <2>2, <2>3, <2>4 DEF Edits
  <2> HIDE DEF r
  <2>6. edit'[w] = r
    BY <2>1, <2>5, OneEdit DEF TargetingInv
  <2>7. SameRequest(w)
    BY <2>1, <2>5, <2>6 DEF SameRequest, Runs
  <2>8. Stage(w)' /\ DeleteSees(w)'
    BY <2>1, <2>5, <2>6 DEF TargetingInv, WriterInv, Stage, DeleteSees
  <2>9. Checks(w)' => Checks(w)
    BY <2>1, <2>5, <2>6 DEF Checks
  <2>10. StillTrue(w)'
    <3>1. Checks(w) => met \subseteq segments
      BY DEF TargetingInv, WriterInv, StillTrue, AsLoaded, Named
    <3>2. QED
      BY <2>1, <2>5, <2>6, <2>9, <3>1 DEF TargetingInv, WriterInv, StillTrue
  <2>11. CircleInSight(w)'
    <3> SUFFICES ASSUME Checks(w)'
                 PROVE  /\ \A x \in r.todo : OwnKey(w) \in x.path
                        /\ \A D \in SUBSET segments : LeadsOn(w, D, edit[w].tree) =>
                             \E x \in r.todo : x.ref \in KeysOf(D) \cup {OwnKey(w)}
      BY <2>1, <2>5, <2>6 DEF CircleInSight, LeadsOn, OwnKey, KeysOf
    <3>1. Checks(w) /\ OwnKey(w) \in e.path
      BY <2>9 DEF TargetingInv, WriterInv, CircleInSight
    <3>2. \A x \in r.todo : OwnKey(w) \in x.path
      BY <2>5, <3>1 DEF TargetingInv, WriterInv, CircleInSight, Todo
    <3>3. ASSUME NEW D \in SUBSET segments, LeadsOn(w, D, edit[w].tree)
          PROVE  \E x \in r.todo : x.ref \in KeysOf(D) \cup {OwnKey(w)}
      <4>1. PICK x \in edit[w].todo : x.ref \in KeysOf(D) \cup {OwnKey(w)}
        BY <3>1, <3>3 DEF TargetingInv, WriterInv, CircleInSight
      <4>2. CASE x # e
        BY <2>5, <4>1, <4>2
      <4>3. CASE x = e
        <5>1. PICK d \in D : e.ref = <<"key", d.key>>
          BY <1>2, <3>1, <4>1, <4>3 DEF KeysOf
        <5>2. d \in met
          BY <3>1, <5>1, LookupMeets DEF Named
        <5>3. PICK ref \in Refs[d.tree] : ref \in KeysOf(D) \cup {OwnKey(w)}
          BY <3>3 DEF LeadsOn
        <5> DEFINE path == e.path \cup {e.ref, <<"key", d.key>>}
        <5>4. [ref |-> ref, path |-> path] \in Todo(d.tree, path)
          BY <5>3 DEF Todo
        <5>5. Todo(d.tree, path) \in {Todo(q.tree, e.path \cup {e.ref, <<"key", q.key>>}) : q \in met}
          BY <5>2
        <5>6. [ref |-> ref, path |-> path] \in more
          BY <5>4, <5>5
        <5>7. QED
          BY <2>5, <5>3, <5>6
      <4>4. QED
        BY <4>2, <4>3
    <3>4. QED
      BY <3>2, <3>3
  <2>12. WriterInv(w)'
    BY <2>8, <2>10, <2>11 DEF WriterInv
  <2>13. QED
    BY <2>1, <2>5, <2>7, <2>12, LocalStep
<1>3. QED
  BY <1>1, <1>2

LEMMA CheckedKeeps ==
  ASSUME TargetingInv, NEW w \in Writers, Checked(w)
  PROVE  TargetingInv'
<1> DEFINE r == [edit[w] EXCEPT !.pc = "bump"]
<1>1. edit[w] \in Edits /\ edit[w].pc = "check" /\ edit[w].todo = {}
  BY DEF Checked, TargetingInv, EditShapes
<1>2. /\ edit' = [edit EXCEPT ![w] = r]
      /\ UNCHANGED <<segments, rules, edits, overlapped>>
  BY DEF Checked
<1>3. /\ r \in Edits /\ r.pc = "bump" /\ r.n = edit[w].n /\ r.kind = edit[w].kind
      /\ r.key = edit[w].key /\ r.row = edit[w].row /\ r.tree = edit[w].tree
      /\ r.rules = edit[w].rules /\ r.alone = edit[w].alone
      /\ r.loaded = edit[w].loaded /\ r.todo = {}
  BY <1>1 DEF Edits, EditLabels
<1> HIDE DEF r
<1>4. edit'[w] = r
  BY <1>2, <1>3, OneEdit DEF TargetingInv
<1>5. SameRequest(w)
  BY <1>1, <1>3, <1>4 DEF SameRequest, Runs
<1>6. Stage(w) /\ DeleteSees(w) /\ StillTrue(w) /\ CircleInSight(w)
  BY DEF TargetingInv, WriterInv
<1>7. Stage(w)' /\ DeleteSees(w)' /\ StillTrue(w)'
  BY <1>1, <1>2, <1>3, <1>4, <1>6 DEF Stage, DeleteSees, StillTrue, Checks
<1>8. CircleInSight(w)'
  <2>1. /\ Checks(w)' => Checks(w) /\ OwnKey(w)' = OwnKey(w)
        /\ \A D, tree : LeadsOn(w, D, tree)' = LeadsOn(w, D, tree)
    BY <1>1, <1>3, <1>4 DEF Checks, OwnKey, LeadsOn, KeysOf
  <2>2. QED
    BY <1>1, <1>2, <1>3, <1>4, <1>6, <2>1 DEF CircleInSight, KeysOf
<1>9. QED
  BY <1>2, <1>3, <1>5, <1>7, <1>8, LocalStep DEF WriterInv

-----------------------------------------------------------------------------
(* The DELETE of a replacement.                                             *)

\* A step of the DELETE or of the bump: the record keeps what the request is.
SameData(r, q) ==
  /\ r.n = q.n /\ r.kind = q.kind /\ r.key = q.key /\ r.row = q.row /\ r.tree = q.tree
  /\ r.rules = q.rules /\ r.alone = q.alone /\ r.loaded = q.loaded /\ r.todo = q.todo

\* Of a replacement, only the stage and what its DELETE sees is to be shown.
LEMMA DeleteStep ==
  ASSUME TargetingInv, NEW w \in Writers, NEW r \in Edits, edit' = [edit EXCEPT ![w] = r],
         UNCHANGED <<segments, rules, edits, overlapped>>,
         SameData(r, edit[w]), edit[w].kind = "rules", Runs(w),
         r.pc \in {"rows", "bump", "commit"}, DeleteSees(w)'
  PROVE  TargetingInv'
<1>1. edit'[w] = r
  BY OneEdit DEF TargetingInv
<1>2. SameRequest(w)
  BY <1>1 DEF SameRequest, SameData
<1>3. Stage(w)'
  BY <1>1 DEF Stage, SameData, TargetingInv, WriterInv
<1>4. StillTrue(w)' /\ CircleInSight(w)'
  BY <1>1 DEF StillTrue, CircleInSight, Checks, SameData
<1>5. QED
  BY <1>2, <1>3, <1>4, LocalStep DEF WriterInv

LEMMA BeginDeleteKeeps ==
  ASSUME TargetingInv, NEW w \in Writers, BeginDelete(w)
  PROVE  TargetingInv'
<1> DEFINE r == [edit[w] EXCEPT !.pc = "rows", !.seen = IdsOf(rules)]
<1>1. edit[w] \in Edits /\ edit[w].pc = "delete" /\ edit[w].kind = "rules"
  BY DEF BeginDelete, TargetingInv, EditShapes, WriterInv, Stage
<1>2. /\ edit' = [edit EXCEPT ![w] = r]
      /\ UNCHANGED <<segments, rules, edits, overlapped>>
  BY DEF BeginDelete
<1>3. IdsOf(rules) \subseteq Nat \X Int
  BY DEF IdsOf, TargetingInv, EditShapes, RuleRows
<1>4. r \in Edits /\ r.pc = "rows" /\ r.seen = IdsOf(rules) /\ SameData(r, edit[w])
  BY <1>1, <1>3 DEF Edits, EditLabels, SameData
<1> HIDE DEF r
<1>5. edit'[w] = r
  BY <1>2, <1>4, OneEdit DEF TargetingInv
<1>6. DeleteSees(w)'
  BY <1>2, <1>4, <1>5 DEF DeleteSees, IdsOf
<1>7. QED
  BY <1>1, <1>2, <1>4, <1>6, DeleteStep DEF Runs

LEMMA DeleteRowKeeps ==
  ASSUME TargetingInv, NEW w \in Writers, NEW id, DeleteRow(w, id)
  PROVE  TargetingInv'
<1> DEFINE r == [edit[w] EXCEPT !.deleted = @ \cup {id}]
<1>1. edit[w] \in Edits /\ edit[w].pc = "rows" /\ edit[w].kind = "rules"
  BY DEF DeleteRow, TargetingInv, EditShapes, WriterInv, Stage
<1>2. /\ edit' = [edit EXCEPT ![w] = r]
      /\ UNCHANGED <<segments, rules, edits, overlapped>>
  BY DEF DeleteRow, TargetingInv, EditShapes
<1>3. id \in Nat \X Int
  BY <1>1 DEF DeleteRow, ToDelete, Edits
<1>4. r \in Edits /\ r.pc = "rows" /\ r.seen = edit[w].seen /\ SameData(r, edit[w])
  BY <1>1, <1>3 DEF Edits, SameData
<1> HIDE DEF r
<1>5. edit'[w] = r
  BY <1>2, <1>4, OneEdit DEF TargetingInv
<1>6. DeleteSees(w)'
  <2>1. \A q \in rules : <<q.of, q.priority>> \in edit[w].seen \/ {q.of, edit[w].n} \in overlapped
    BY <1>1 DEF DeleteSees, TargetingInv, WriterInv
  <2>2. edit'[w].pc = "rows" /\ edit'[w].seen = edit[w].seen /\ edit'[w].n = edit[w].n
    BY <1>4, <1>5 DEF SameData
  <2>3. rules' = rules /\ overlapped' = overlapped
    BY <1>2
  <2>4. QED
    BY <2>1, <2>2, <2>3 DEF DeleteSees
<1>7. QED
  BY <1>1, <1>2, <1>4, <1>6, DeleteStep DEF Runs

LEMMA EndDeleteKeeps ==
  ASSUME TargetingInv, NEW w \in Writers, EndDelete(w)
  PROVE  TargetingInv'
<1> DEFINE r == [edit[w] EXCEPT !.pc = "bump"]
<1>1. edit[w] \in Edits /\ edit[w].pc = "rows" /\ edit[w].kind = "rules"
  BY DEF EndDelete, TargetingInv, EditShapes, WriterInv, Stage
<1>2. /\ edit' = [edit EXCEPT ![w] = r]
      /\ UNCHANGED <<segments, rules, edits, overlapped>>
  BY DEF EndDelete
<1>3. r \in Edits /\ r.pc = "bump" /\ r.deleted = edit[w].deleted /\ SameData(r, edit[w])
  BY <1>1 DEF Edits, EditLabels, SameData
<1> HIDE DEF r
<1>4. edit'[w] = r
  BY <1>2, <1>3, OneEdit DEF TargetingInv
<1>5. DeleteSees(w)'
  <2>1. edit[w].seen \cap IdsOf(rules) \subseteq edit[w].deleted
    BY DEF EndDelete, ToDelete
  <2>2. ASSUME NEW q \in rules
        PROVE  <<q.of, q.priority>> \in edit[w].deleted \/ {q.of, edit[w].n} \in overlapped
    <3>1. <<q.of, q.priority>> \in IdsOf(rules)
      BY DEF IdsOf
    <3>2. <<q.of, q.priority>> \in edit[w].seen \/ {q.of, edit[w].n} \in overlapped
      BY <1>1 DEF TargetingInv, WriterInv, DeleteSees
    <3>3. QED
      BY <2>1, <3>1, <3>2
  <2>3. edit'[w].pc = "bump" /\ edit'[w].deleted = edit[w].deleted /\ edit'[w].n = edit[w].n
    BY <1>3, <1>4 DEF SameData
  <2>4. rules' = rules /\ overlapped' = overlapped
    BY <1>2
  <2>5. QED
    BY <2>2, <2>3, <2>4 DEF DeleteSees
<1>6. QED
  BY <1>1, <1>2, <1>3, <1>5, DeleteStep DEF Runs

LEMMA BumpKeeps ==
  ASSUME TargetingInv, NEW w \in Writers, Bump(w)
  PROVE  TargetingInv'
<1> DEFINE r == [edit[w] EXCEPT !.pc = "commit"]
<1>1. edit[w] \in Edits /\ edit[w].pc = "bump"
  BY DEF Bump, TargetingInv, EditShapes
<1>2. /\ edit' = [edit EXCEPT ![w] = r]
      /\ UNCHANGED <<segments, rules, edits, overlapped>>
  BY DEF Bump
<1>3. r \in Edits /\ r.pc = "commit" /\ r.deleted = edit[w].deleted /\ SameData(r, edit[w])
  BY <1>1 DEF Edits, EditLabels, SameData
<1> HIDE DEF r
<1>4. edit'[w] = r
  BY <1>2, <1>3, OneEdit DEF TargetingInv
<1>5. SameRequest(w)
  BY <1>1, <1>3, <1>4 DEF SameRequest, SameData, Runs
<1>6. Stage(w) /\ DeleteSees(w) /\ StillTrue(w) /\ CircleInSight(w)
  BY DEF TargetingInv, WriterInv
<1>7. Stage(w)' /\ DeleteSees(w)' /\ StillTrue(w)'
  BY <1>1, <1>2, <1>3, <1>4, <1>6 DEF Stage, DeleteSees, StillTrue, Checks, SameData
<1>8. CircleInSight(w)'
  <2>1. /\ Checks(w)' => Checks(w) /\ OwnKey(w)' = OwnKey(w)
        /\ \A D, tree : LeadsOn(w, D, tree)' = LeadsOn(w, D, tree)
    BY <1>1, <1>3, <1>4 DEF Checks, OwnKey, LeadsOn, KeysOf, SameData
  <2>2. QED
    BY <1>1, <1>2, <1>3, <1>4, <1>6, <2>1 DEF CircleInSight, KeysOf, SameData
<1>9. QED
  BY <1>2, <1>3, <1>5, <1>7, <1>8, LocalStep DEF WriterInv

-----------------------------------------------------------------------------
(* Arrivals.                                                                *)

Numbered(e) == [e EXCEPT !.n = edits + 1]

LEMMA NumberedFits ==
  ASSUME edits \in Nat, NEW e \in Edits
  PROVE  /\ Numbered(e) \in Edits
         /\ Numbered(e).n = edits + 1
         /\ Numbered(e).pc = e.pc /\ Numbered(e).kind = e.kind /\ Numbered(e).key = e.key
         /\ Numbered(e).row = e.row /\ Numbered(e).tree = e.tree /\ Numbered(e).rules = e.rules
         /\ Numbered(e).loaded = e.loaded /\ Numbered(e).todo = e.todo
         /\ Numbered(e).alone = e.alone
<1> DEFINE m == edits + 1
<1>1. m \in Nat
  OBVIOUS
<1> HIDE DEF m
<1>2. [e EXCEPT !.n = m] \in Edits
  BY <1>1 DEF Edits
<1>3. Numbered(e) = [e EXCEPT !.n = m]
  BY DEF Numbered, m
<1>4. m = edits + 1
  BY DEF m
<1>5. QED
  BY <1>2, <1>3, <1>4 DEF Edits

\* The next number is nobody's, and whoever runs now overlaps the new request.
LEMMA ArriveStep ==
  ASSUME TargetingInv, NEW w \in Writers, NEW e \in Edits, Arrive(w, e), e.pc # "idle",
         WriterInv(w)'
  PROVE  TargetingInv'
<1>1. /\ edit[w].pc = "idle" /\ edits' = edits + 1 /\ edits \in Nat
      /\ edit' = [edit EXCEPT ![w] = Numbered(e)]
      /\ overlapped' = overlapped \cup {{edits + 1, edit[v].n} : v \in Running}
      /\ UNCHANGED <<segments, rules>>
  BY DEF Arrive, Numbered, TargetingInv, EditShapes
<1>2. Numbered(e) \in Edits /\ Numbered(e).n = edits + 1 /\ Numbered(e).pc = e.pc
  BY <1>1, NumberedFits
<1>3. edit'[w] = Numbered(e) /\ OthersEdit(w) /\ edit' \in [Writers -> Edits]
  BY <1>1, <1>2, OneEdit DEF TargetingInv
<1>4. EditShapes' /\ SegmentsUnique' /\ RulesUnique'
  BY <1>1, <1>3 DEF TargetingInv, EditShapes, SegmentsUnique, RulesUnique
<1>5. \A v \in Writers : Runs(v)' => v = w \/ (Runs(v) /\ edit'[v].n = edit[v].n)
  BY <1>3 DEF OthersEdit, Runs
<1>6. RequestNumbers'
  <2>1. \A v \in Writers : edit'[v].n \in 0..edits'
    BY <1>1, <1>2, <1>3 DEF OthersEdit, TargetingInv, RequestNumbers
  <2>2. \A v \in Writers : Runs(v)' => edit'[v].n # 0 /\ \A r \in segments' : r.id # edit'[v].n
    BY <1>1, <1>2, <1>3, <1>5 DEF TargetingInv, RequestNumbers, SegmentsUnique
  <2>3. \A u, v \in Writers : u # v /\ Runs(u)' /\ Runs(v)' => edit'[u].n # edit'[v].n
    BY <1>1, <1>2, <1>3, <1>5 DEF TargetingInv, RequestNumbers
  <2>4. QED
    BY <2>1, <2>2, <2>3 DEF RequestNumbers
<1>7. NowOverlapped'
  <2> SUFFICES ASSUME NEW u \in Writers, NEW v \in Writers, u # v, Runs(u)', Runs(v)'
               PROVE  {edit'[u].n, edit'[v].n} \in overlapped'
    BY DEF NowOverlapped
  <2>1. CASE u # w /\ v # w
    BY <1>1, <1>5, <2>1 DEF TargetingInv, NowOverlapped
  <2>2. ASSUME NEW x \in Writers, x # w, Runs(x)'
        PROVE  {edits + 1, edit'[x].n} \in overlapped'
    <3>1. x \in Running /\ edit'[x].n = edit[x].n
      BY <1>5, <2>2 DEF Running, Runs
    <3>2. QED
      BY <1>1, <3>1
  <2>3. CASE u = w
    BY <1>2, <1>3, <2>2, <2>3
  <2>4. CASE v = w
    <3>1. {edit'[u].n, edit'[v].n} = {edits + 1, edit'[u].n}
      BY <1>2, <1>3, <2>4
    <3>2. QED
      BY <2>2, <2>4, <3>1
  <2>5. QED
    BY <2>1, <2>3, <2>4
<1>8. RulesOfOneRequest'
  BY <1>1 DEF TargetingInv, RulesOfOneRequest
<1>9. ASSUME NEW v \in Writers PROVE WriterInv(v)'
  <2>1. CASE v = w
    BY <2>1
  <2>2. CASE v # w
    <3>1. edit'[v] = edit[v] /\ WriterInv(v) /\ overlapped \subseteq overlapped'
      BY <1>1, <1>3, <2>2 DEF OthersEdit, TargetingInv
    <3>2. Stage(v)' /\ DeleteSees(v)' /\ StillTrue(v)'
      BY <1>1, <3>1 DEF WriterInv, Stage, DeleteSees, StillTrue, Checks
    <3>3. CircleInSight(v)'
      <4>1. /\ Checks(v)' = Checks(v) /\ OwnKey(v)' = OwnKey(v)
            /\ \A D : LeadsOn(v, D, edit[v].tree)' = LeadsOn(v, D, edit[v].tree)
        BY <3>1 DEF Checks, OwnKey, LeadsOn, KeysOf
      <4>2. QED
        BY <1>1, <3>1, <4>1 DEF WriterInv, CircleInSight, KeysOf
    <3>4. QED
      BY <3>2, <3>3 DEF WriterInv
  <2>3. QED
    BY <2>1, <2>2
<1>10. QED
  BY <1>4, <1>6, <1>7, <1>8, <1>9 DEF TargetingInv

\* A check that begins has every reference of the tree before it.
LEMMA CheckBegins ==
  ASSUME TargetingInv, NEW w \in Writers, NEW k \in Keys, NEW t \in Trees,
         NEW e \in Edits, Arrive(w, e),
         e.pc = "check" /\ e.kind \in {"create", "update"} /\ e.key = k /\ e.tree = t,
         e.todo = Todo(t, {<<"key", k>>}), e.rules = {},
         e.loaded \subseteq segments,
         e.kind = "update" => \E r \in segments : r.id = e.row /\ r.key = k
  PROVE  TargetingInv'
<1>1. /\ edit' = [edit EXCEPT ![w] = Numbered(e)] /\ UNCHANGED <<segments, rules>>
      /\ edits \in Nat
  BY DEF Arrive, Numbered, TargetingInv, EditShapes
<1>2. /\ Numbered(e) \in Edits /\ Numbered(e).pc = "check" /\ Numbered(e).kind = e.kind
      /\ Numbered(e).key = k /\ Numbered(e).tree = t /\ Numbered(e).todo = e.todo
      /\ Numbered(e).rules = {} /\ Numbered(e).loaded = e.loaded /\ Numbered(e).row = e.row
  BY <1>1, NumberedFits
<1>3. edit'[w] = Numbered(e)
  BY <1>1, <1>2, OneEdit DEF TargetingInv
<1>4. Stage(w)' /\ DeleteSees(w)' /\ StillTrue(w)'
  BY <1>1, <1>2, <1>3 DEF Stage, DeleteSees, StillTrue, Checks
<1>5. CircleInSight(w)'
  <2>1. OwnKey(w)' = <<"key", k>>
    BY <1>2, <1>3 DEF OwnKey
  <2>2. \A x \in e.todo : OwnKey(w)' \in x.path
    BY <2>1 DEF Todo
  <2>3. ASSUME NEW D \in SUBSET segments, LeadsOn(w, D, t)'
        PROVE  \E x \in e.todo : x.ref \in KeysOf(D) \cup {OwnKey(w)'}
    <3>1. PICK ref \in Refs[t] : ref \in KeysOf(D) \cup {OwnKey(w)'}
      BY <2>3 DEF LeadsOn, KeysOf
    <3>2. [ref |-> ref, path |-> {<<"key", k>>}] \in e.todo
      BY <3>1 DEF Todo
    <3>3. QED
      BY <3>1, <3>2
  <2>4. QED
    BY <1>1, <1>2, <1>3, <2>2, <2>3 DEF CircleInSight, KeysOf
<1>6. QED
  BY <1>4, <1>5, ArriveStep DEF WriterInv

LEMMA StartKeeps ==
  ASSUME TargetingInv, NEW w \in Writers, Start(w)
  PROVE  TargetingInv'
<1> USE NoEditFits DEF EditLabels
<1>0. /\ NoEdit("check") \in Edits /\ NoEdit("bump") \in Edits /\ NoEdit("delete") \in Edits
      /\ NoEdit("check").loaded = {} /\ segments \subseteq SegmentRows
  BY DEF NoEdit, TargetingInv, EditShapes
<1>1. ASSUME NEW k \in Keys, NEW t \in Trees, StartCreate(w, k, t) PROVE TargetingInv'
  <2> DEFINE e == [NoEdit("check") EXCEPT
               !.kind = "create", !.key = k, !.tree = t, !.todo = Todo(t, {<<"key", k>>})]
  <2>1. Todo(t, {<<"key", k>>}) \subseteq Lookups
    BY TargetingAssumption DEF Todo, Lookups, References
  <2>2. /\ e \in Edits /\ e.pc = "check" /\ e.kind = "create" /\ e.key = k /\ e.tree = t
        /\ e.todo = Todo(t, {<<"key", k>>}) /\ e.rules = {} /\ e.loaded = {}
    BY <1>0, <2>1 DEF Edits, Kinds
  <2>3. Arrive(w, e)
    BY <1>1 DEF StartCreate
  <2> HIDE DEF e
  <2>4. QED
    BY <2>2, <2>3, CheckBegins
<1>2. ASSUME NEW s \in segments, NEW t \in Trees, StartUpdate(w, s, t) PROVE TargetingInv'
  <2> DEFINE e == [NoEdit("check") EXCEPT
               !.kind = "update", !.key = s.key, !.row = s.id, !.tree = t, !.loaded = {s},
               !.todo = Todo(t, {<<"key", s.key>>})]
  <2>1. s.key \in Keys /\ s.id \in Nat /\ s \in SegmentRows
    BY <1>0 DEF SegmentRows
  <2>2. Todo(t, {<<"key", s.key>>}) \subseteq Lookups
    BY <2>1, TargetingAssumption DEF Todo, Lookups, References
  <2>3. /\ e \in Edits /\ e.pc = "check" /\ e.kind = "update" /\ e.key = s.key /\ e.tree = t
        /\ e.todo = Todo(t, {<<"key", s.key>>}) /\ e.rules = {} /\ e.loaded = {s} /\ e.row = s.id
    <3>1. {s} \in SUBSET SegmentRows /\ Todo(t, {<<"key", s.key>>}) \in SUBSET Lookups
      BY <2>1, <2>2
    <3>2. QED
      BY <1>0, <2>1, <3>1 DEF Edits, Kinds
  <2>4. Arrive(w, e)
    BY <1>2 DEF StartUpdate
  <2> HIDE DEF e
  <2>5. QED
    BY <2>1, <2>3, <2>4, CheckBegins
<1>3. ASSUME NEW s \in segments, StartDelete(w, s) PROVE TargetingInv'
  <2> DEFINE e == [NoEdit("bump") EXCEPT !.kind = "remove", !.key = s.key, !.row = s.id]
  <2>1. s.key \in Keys /\ s.id \in Nat
    BY <1>0 DEF SegmentRows
  <2>2. e \in Edits /\ e.pc = "bump" /\ e.kind = "remove" /\ e.rules = {}
    BY <1>0, <2>1 DEF Edits, Kinds
  <2>3. Arrive(w, e)
    BY <1>3 DEF StartDelete
  <2> HIDE DEF e
  <2>4. edit' = [edit EXCEPT ![w] = Numbered(e)] /\ edits \in Nat
    BY <2>3 DEF Arrive, Numbered, TargetingInv, EditShapes
  <2>5. /\ Numbered(e) \in Edits /\ Numbered(e).pc = "bump" /\ Numbered(e).kind = "remove"
        /\ Numbered(e).rules = {}
    BY <2>2, <2>4, NumberedFits
  <2>6. edit'[w] = Numbered(e)
    BY <2>4, <2>5, OneEdit DEF TargetingInv
  <2>7. WriterInv(w)'
    BY <2>5, <2>6 DEF WriterInv, Stage, DeleteSees, StillTrue, CircleInSight, Checks
  <2>8. QED
    BY <2>2, <2>3, <2>7, ArriveStep
<1>4. ASSUME NEW R \in RuleSets, StartReplace(w, R) PROVE TargetingInv'
  <2> DEFINE e == [NoEdit("delete") EXCEPT !.kind = "rules", !.rules = R]
  <2>1. e \in Edits /\ e.pc = "delete" /\ e.kind = "rules" /\ e.rules = R
    BY <1>0, TargetingAssumption DEF Edits, Kinds
  <2>2. Arrive(w, e)
    BY <1>4 DEF StartReplace
  <2> HIDE DEF e
  <2>3. edit' = [edit EXCEPT ![w] = Numbered(e)] /\ edits \in Nat
    BY <2>2 DEF Arrive, Numbered, TargetingInv, EditShapes
  <2>4. /\ Numbered(e) \in Edits /\ Numbered(e).pc = "delete" /\ Numbered(e).kind = "rules"
        /\ Numbered(e).rules = R
    BY <2>1, <2>3, NumberedFits
  <2>5. edit'[w] = Numbered(e)
    BY <2>3, <2>4, OneEdit DEF TargetingInv
  <2>6. \A r, q \in R : r.priority = q.priority => r = q
    BY TargetingAssumption
  <2>7. WriterInv(w)'
    BY <2>4, <2>5, <2>6 DEF WriterInv, Stage, DeleteSees, StillTrue, CircleInSight, Checks
  <2>8. QED
    BY <2>1, <2>2, <2>7, ArriveStep
<1>5. QED
  BY <1>1, <1>2, <1>3, <1>4 DEF Start

-----------------------------------------------------------------------------
(* Commits.                                                                 *)

\* The request is over and nobody else is alone any more; the rows it leaves are
\* rows that were there, or have its number.
LEMMA CloseStep ==
  ASSUME TargetingInv, NEW w \in Writers, Runs(w), Close(w),
         segments' \subseteq SegmentRows, rules' \subseteq RuleRows,
         SegmentsUnique', RulesUnique', RulesOfOneRequest',
         \A r \in segments' : r.id = edit[w].n \/ \E q \in segments : q.id = r.id,
         \A r \in rules' :
           r.of = edit[w].n \/ \E q \in rules : q.of = r.of /\ q.priority = r.priority
  PROVE  TargetingInv'
<1>1. /\ edit'[w] = NoEdit("idle")
      /\ \A v \in Writers \ {w} : edit'[v] = [edit[v] EXCEPT !.alone = FALSE]
      /\ UNCHANGED <<edits, overlapped>>
  BY DEF Close
<1>2. ASSUME NEW v \in Writers
      PROVE  edit'[v] \in Edits
  <2>1. edit[v] \in Edits /\ NoEdit("idle") \in Edits
    BY NoEditFits DEF TargetingInv, EditShapes, EditLabels
  <2>2. [edit[v] EXCEPT !.alone = FALSE] \in Edits
    BY <2>1 DEF Edits
  <2>3. QED
    BY <1>1, <2>1, <2>2
<1>3. ASSUME NEW v \in Writers \ {w}
      PROVE  /\ edit'[v].pc = edit[v].pc /\ edit'[v].kind = edit[v].kind /\ edit'[v].n = edit[v].n
             /\ edit'[v].key = edit[v].key /\ edit'[v].rules = edit[v].rules
             /\ edit'[v].seen = edit[v].seen /\ edit'[v].deleted = edit[v].deleted
             /\ edit'[v].alone = FALSE
  <2>1. edit[v] \in Edits /\ edit'[v] = [edit[v] EXCEPT !.alone = FALSE]
    BY <1>1 DEF TargetingInv, EditShapes
  <2>2. QED
    BY <2>1 DEF Edits
<1>4. edit'[w].pc = "idle" /\ edit'[w].n = 0
  BY <1>1, NoEditFits DEF EditLabels
<1>5. EditShapes'
  <2>1. edit' \in [Writers -> Edits]
    <3>1. DOMAIN edit' = Writers /\ edit' = [v \in Writers |-> edit'[v]]
      BY DEF Close
    <3>2. QED
      BY <1>2, <3>1
  <2>2. QED
    BY <1>1, <2>1 DEF EditShapes, TargetingInv
<1>6. \A v \in Writers : Runs(v)' => v # w /\ Runs(v) /\ edit'[v].n = edit[v].n
  BY <1>3, <1>4 DEF Runs
<1>7. RequestNumbers'
  <2>1. ASSUME NEW v \in Writers PROVE edit'[v].n \in 0..edits'
    <3>1. edits' = edits /\ edits \in Nat /\ edit[v].n \in 0..edits
      BY <1>1 DEF TargetingInv, EditShapes, RequestNumbers
    <3>2. edit'[v].n \in {0, edit[v].n}
      BY <1>3, <1>4
    <3>3. QED
      BY <3>1, <3>2
  <2>2. ASSUME NEW v \in Writers, Runs(v)', NEW r \in segments'
        PROVE  edit'[v].n # 0 /\ r.id # edit'[v].n
    <3>1. v # w /\ Runs(v) /\ edit'[v].n = edit[v].n
      BY <1>6, <2>2
    <3>2. edit[v].n # 0 /\ edit[v].n # edit[w].n /\ \A q \in segments : q.id # edit[v].n
      BY <3>1 DEF TargetingInv, RequestNumbers
    <3>3. QED
      BY <3>1, <3>2
  <2>3. ASSUME NEW v \in Writers, Runs(v)' PROVE edit'[v].n # 0
    <3>1. Runs(v) /\ edit'[v].n = edit[v].n
      BY <1>6, <2>3
    <3>2. QED
      BY <3>1 DEF TargetingInv, RequestNumbers
  <2>4. ASSUME NEW u \in Writers, NEW v \in Writers, u # v, Runs(u)', Runs(v)'
        PROVE  edit'[u].n # edit'[v].n
    <3>1. /\ Runs(u) /\ edit'[u].n = edit[u].n
          /\ Runs(v) /\ edit'[v].n = edit[v].n
      BY <1>6, <2>4
    <3>2. QED
      BY <2>4, <3>1 DEF TargetingInv, RequestNumbers
  <2>5. QED
    BY <2>1, <2>2, <2>3, <2>4 DEF RequestNumbers
<1>8. NowOverlapped'
  <2> SUFFICES ASSUME NEW u \in Writers, NEW v \in Writers, u # v, Runs(u)', Runs(v)'
               PROVE  {edit'[u].n, edit'[v].n} \in overlapped'
    BY DEF NowOverlapped
  <2>1. /\ u # w /\ v # w /\ Runs(u) /\ Runs(v)
        /\ edit'[u].n = edit[u].n /\ edit'[v].n = edit[v].n
    BY <1>3, <1>6
  <2>2. QED
    BY <1>1, <2>1 DEF TargetingInv, NowOverlapped
<1>9. ASSUME NEW v \in Writers PROVE WriterInv(v)'
  <2>1. CASE v = w
    BY <1>4, <1>1, <2>1, NoEditFits
       DEF WriterInv, Stage, DeleteSees, StillTrue, CircleInSight, Checks, EditLabels
  <2>2. CASE v # w
    <3>1. v \in Writers \ {w} /\ Stage(v) /\ DeleteSees(v)
      BY <2>2 DEF TargetingInv, WriterInv
    <3>2. Stage(v)'
      BY <1>3, <3>1 DEF Stage
    <3>3. StillTrue(v)' /\ CircleInSight(v)'
      BY <1>3, <3>1 DEF StillTrue, CircleInSight, Checks
    <3>4. ASSUME NEW r \in rules'
          PROVE  /\ edit[v].pc = "rows" =>
                      <<r.of, r.priority>> \in edit[v].seen \/ {r.of, edit[v].n} \in overlapped
                 /\ (edit[v].pc \in {"bump", "commit"} /\ edit[v].kind = "rules") =>
                      <<r.of, r.priority>> \in edit[v].deleted \/ {r.of, edit[v].n} \in overlapped
      <4>1. CASE r.of = edit[w].n
        <5>1. Runs(v) => {edit[w].n, edit[v].n} \in overlapped
          BY <2>2 DEF TargetingInv, NowOverlapped
        <5>2. QED
          BY <4>1, <5>1 DEF Runs
      <4>2. CASE \E q \in rules : q.of = r.of /\ q.priority = r.priority
        BY <3>1, <4>2 DEF DeleteSees
      <4>3. QED
        BY <4>1, <4>2
    <3>5. overlapped' = overlapped
      BY <1>1
    <3>6. DeleteSees(v)'
      BY <1>3, <3>1, <3>4, <3>5 DEF DeleteSees
    <3>7. QED
      BY <3>2, <3>3, <3>6 DEF WriterInv
  <2>3. QED
    BY <2>1, <2>2
<1>10. QED
  BY <1>5, <1>7, <1>8, <1>9 DEF TargetingInv

LEMMA CommitCreateKeeps ==
  ASSUME TargetingInv, NEW w \in Writers, CommitCreate(w)
  PROVE  TargetingInv'
<1>1. CASE \E r \in segments : r.key = edit[w].key
  BY <1>1, RefuseKeeps DEF CommitCreate
<1>2. CASE ~ \E r \in segments : r.key = edit[w].key
  <2> DEFINE new == [id |-> edit[w].n, key |-> edit[w].key, tree |-> edit[w].tree]
  <2>1. /\ segments' = segments \cup {new} /\ rules' = rules
        /\ Close(w) /\ edits' = edits /\ overlapped' = overlapped
        /\ edit[w].pc = "commit" /\ edit[w].kind = "create" /\ Runs(w)
    BY <1>2 DEF CommitCreate, Committing, Close, Runs
  <2>2. edit[w] \in Edits /\ edit[w].n \in 1..edits /\ \A r \in segments : r.id # edit[w].n
    <3>1. edit[w] \in Edits /\ edits \in Nat
      BY DEF TargetingInv, EditShapes
    <3>2. edit[w].n \in 0..edits /\ edit[w].n # 0 /\ \A r \in segments : r.id # edit[w].n
      BY <2>1 DEF TargetingInv, RequestNumbers
    <3>3. QED
      BY <3>1, <3>2
  <2>3. edit[w].key \in Keys
    BY <2>1 DEF TargetingInv, WriterInv, Stage
  <2>4. new \in SegmentRows /\ new.id = edit[w].n /\ new.key = edit[w].key
    BY <2>2, <2>3 DEF SegmentRows, Edits
  <2> HIDE DEF new
  <2>5. segments' \subseteq SegmentRows /\ rules' \subseteq RuleRows
    BY <2>1, <2>4 DEF TargetingInv, EditShapes
  <2>6. SegmentsUnique'
    BY <1>2, <2>1, <2>2, <2>4 DEF TargetingInv, SegmentsUnique
  <2>7. RulesUnique'
    BY <2>1 DEF TargetingInv, RulesUnique
  <2>8. RulesOfOneRequest'
    BY <2>1 DEF TargetingInv, RulesOfOneRequest
  <2>9. \A r \in segments' : r.id = edit[w].n \/ \E q \in segments : q.id = r.id
    BY <2>1, <2>4
  <2>10. \A r \in rules' :
           r.of = edit[w].n \/ \E q \in rules : q.of = r.of /\ q.priority = r.priority
    BY <2>1
  <2>11. QED
    BY <2>1, <2>5, <2>6, <2>7, <2>8, <2>9, <2>10, CloseStep
<1>3. QED
  BY <1>1, <1>2

LEMMA CommitUpdateKeeps ==
  ASSUME TargetingInv, NEW w \in Writers, CommitUpdate(w)
  PROVE  TargetingInv'
<1> DEFINE same == \E q \in edit[w].loaded : q.id = edit[w].row /\ q.tree = edit[w].tree
           new == {[r EXCEPT !.tree = edit[w].tree] : r \in SegmentRow(w)}
<1>1. CASE ~same /\ SegmentRow(w) = {}
  BY <1>1, RefuseKeeps DEF CommitUpdate
<1>2. CASE ~(~same /\ SegmentRow(w) = {})
  <2>1. /\ segments' = IF same THEN segments ELSE (segments \ SegmentRow(w)) \cup new
        /\ rules' = rules
        /\ Close(w) /\ edits' = edits /\ overlapped' = overlapped
        /\ edit[w].pc = "commit" /\ edit[w].kind = "update" /\ Runs(w)
    BY <1>2 DEF CommitUpdate, Committing, Close, Runs
  <2>2. edit[w].tree \in Trees /\ segments \subseteq SegmentRows
    BY DEF TargetingInv, EditShapes, Edits
  <2>3. \A r \in new : r \in SegmentRows /\ \E q \in SegmentRow(w) : q.id = r.id /\ q.key = r.key
    BY <2>2 DEF SegmentRow, SegmentRows
  <2>4. \A r \in SegmentRow(w) : r \in segments /\ r.id = edit[w].row
    BY DEF SegmentRow
  <2>5. \A r, q \in new : r.id = q.id => r = q
    <3> SUFFICES ASSUME NEW r \in SegmentRow(w), NEW q \in SegmentRow(w) PROVE r = q
      BY <2>4
    <3>1. QED
      BY <2>4 DEF TargetingInv, SegmentsUnique
  <2> HIDE DEF same, new
  <2>6. segments' \subseteq SegmentRows /\ rules' \subseteq RuleRows
    BY <2>1, <2>2, <2>3 DEF TargetingInv, EditShapes
  <2>7. \A r \in segments' : \E q \in segments : q.id = r.id /\ q.key = r.key
    BY <2>1, <2>3, <2>4
  <2>8. SegmentsUnique'
    <3>1. \A r \in segments' : r.id \in 1..edits'
      BY <2>1, <2>7 DEF TargetingInv, SegmentsUnique
    <3>2. ASSUME NEW r \in segments', NEW q \in segments', r.id = q.id \/ r.key = q.key
          PROVE  r = q
      <4>1. PICK x \in segments : x.id = r.id /\ x.key = r.key
        BY <2>7
      <4>2. PICK y \in segments : y.id = q.id /\ y.key = q.key
        BY <2>7
      <4>3. x = y
        BY <3>2, <4>1, <4>2 DEF TargetingInv, SegmentsUnique
      <4>4. CASE same
        BY <2>1, <3>2, <4>4 DEF TargetingInv, SegmentsUnique
      <4>5. CASE ~same
        <5>1. r \in new <=> x \in SegmentRow(w)
          <6>1. r \in new => x.id = edit[w].row
            BY <2>3, <2>4, <4>1
          <6>2. r \in segments \ SegmentRow(w) => x = r
            BY <4>1 DEF TargetingInv, SegmentsUnique
          <6>3. QED
            BY <2>1, <4>1, <4>5, <6>1, <6>2 DEF SegmentRow
        <5>2. q \in new <=> y \in SegmentRow(w)
          <6>1. q \in new => y.id = edit[w].row
            BY <2>3, <2>4, <4>2
          <6>2. q \in segments \ SegmentRow(w) => y = q
            BY <4>2 DEF TargetingInv, SegmentsUnique
          <6>3. QED
            BY <2>1, <4>2, <4>5, <6>1, <6>2 DEF SegmentRow
        <5>3. CASE r \in new
          BY <2>5, <4>1, <4>2, <4>3, <5>1, <5>2, <5>3
        <5>4. CASE r \notin new
          BY <2>1, <4>1, <4>2, <4>3, <4>5, <5>1, <5>2, <5>4 DEF TargetingInv, SegmentsUnique
        <5>5. QED
          BY <5>3, <5>4
      <4>6. QED
        BY <4>4, <4>5
    <3>3. QED
      BY <3>1, <3>2 DEF SegmentsUnique
  <2>9. \A q \in segments : \E r \in segments' : r.id = q.id
    <3> SUFFICES ASSUME NEW q \in segments PROVE \E r \in segments' : r.id = q.id
      OBVIOUS
    <3>1. CASE q \in SegmentRow(w)
      <4>1. [q EXCEPT !.tree = edit[w].tree] \in new
        BY <3>1 DEF new
      <4>2. [q EXCEPT !.tree = edit[w].tree].id = q.id
        BY <2>2 DEF SegmentRows
      <4>3. QED
        BY <2>1, <4>1, <4>2
    <3>2. QED
      BY <2>1, <3>1
  <2>10. RulesUnique'
    BY <2>1, <2>9 DEF TargetingInv, RulesUnique
  <2>11. RulesOfOneRequest'
    BY <2>1 DEF TargetingInv, RulesOfOneRequest
  <2>12. \A r \in segments' : r.id = edit[w].n \/ \E q \in segments : q.id = r.id
    BY <2>7
  <2>13. \A r \in rules' :
           r.of = edit[w].n \/ \E q \in rules : q.of = r.of /\ q.priority = r.priority
    BY <2>1
  <2>14. QED
    BY <2>1, <2>6, <2>8, <2>10, <2>11, <2>12, <2>13, CloseStep
<1>3. QED
  BY <1>1, <1>2

LEMMA CommitRemoveKeeps ==
  ASSUME TargetingInv, NEW w \in Writers, CommitRemove(w)
  PROVE  TargetingInv'
<1> DEFINE Cleared(r) == [r EXCEPT !.segment = IF @ = edit[w].row THEN NoSegment ELSE @]
<1>1. /\ segments' = segments \ SegmentRow(w)
      /\ rules' = {Cleared(r) : r \in rules}
      /\ Close(w) /\ edits' = edits /\ overlapped' = overlapped /\ Runs(w)
  BY DEF CommitRemove, Committing, Close, Runs
<1>2. rules \subseteq RuleRows
  BY DEF TargetingInv, EditShapes
<1>3. ASSUME NEW r \in rules
      PROVE  /\ Cleared(r) \in RuleRows
             /\ Cleared(r).of = r.of /\ Cleared(r).priority = r.priority
             /\ Cleared(r).segment = IF r.segment = edit[w].row THEN NoSegment ELSE r.segment
  BY <1>2 DEF RuleRows, NoSegment
<1> HIDE DEF Cleared
<1>4. segments' \subseteq SegmentRows /\ rules' \subseteq RuleRows
  BY <1>1, <1>3 DEF TargetingInv, EditShapes
<1>5. SegmentsUnique'
  BY <1>1 DEF TargetingInv, SegmentsUnique
<1>6. RulesUnique'
  <2>1. ASSUME NEW r \in rules'
        PROVE  r.of \in 0..edits' /\ r.segment \in {NoSegment} \cup {q.id : q \in segments'}
    <3>1. PICK q \in rules : r = Cleared(q)
      BY <1>1
    <3>2. q.of \in 0..edits /\ q.segment \in {NoSegment} \cup {x.id : x \in segments}
      BY DEF TargetingInv, RulesUnique
    <3>3. r.segment # NoSegment => \E x \in segments : x.id = r.segment /\ x \notin SegmentRow(w)
      BY <1>3, <3>1, <3>2 DEF SegmentRow
    <3>4. QED
      BY <1>1, <1>3, <3>1, <3>2, <3>3
  <2>2. ASSUME NEW r \in rules', NEW q \in rules', r.priority = q.priority
        PROVE  r = q
    <3>1. PICK x \in rules : r = Cleared(x)
      BY <1>1
    <3>2. PICK y \in rules : q = Cleared(y)
      BY <1>1
    <3>3. x.priority = y.priority
      BY <1>3, <2>2, <3>1, <3>2
    <3>4. QED
      BY <3>1, <3>2, <3>3 DEF TargetingInv, RulesUnique
  <2>3. QED
    BY <2>1, <2>2 DEF RulesUnique
<1>7. \A r \in rules' : \E q \in rules : q.of = r.of /\ q.priority = r.priority
  BY <1>1, <1>3
<1>8. RulesOfOneRequest'
  <2>1. ASSUME NEW r \in rules', NEW q \in rules'
        PROVE  r.of = q.of \/ {r.of, q.of} \in overlapped'
    <3>1. PICK x \in rules : x.of = r.of
      BY <1>7
    <3>2. PICK y \in rules : y.of = q.of
      BY <1>7
    <3>3. x.of = y.of \/ {x.of, y.of} \in overlapped
      BY DEF TargetingInv, RulesOfOneRequest
    <3>4. QED
      BY <1>1, <3>1, <3>2, <3>3
  <2>2. QED
    BY <2>1 DEF RulesOfOneRequest
<1>9. \A r \in segments' : r.id = edit[w].n \/ \E q \in segments : q.id = r.id
  BY <1>1
<1>10. QED
  BY <1>1, <1>4, <1>5, <1>6, <1>7, <1>8, <1>9, CloseStep

LEMMA CommitRulesKeeps ==
  ASSUME TargetingInv, NEW w \in Writers, CommitRules(w)
  PROVE  TargetingInv'
<1> DEFINE n == edit[w].n
           New(q) == [of |-> n, priority |-> q.priority, segment |-> q.segment]
           clash == \/ \E r \in Kept(w), q \in edit[w].rules : r.priority = q.priority
                    \/ \E q \in edit[w].rules :
                         q.segment \notin {NoSegment} \cup {r.id : r \in segments}
<1>1. CASE clash
  BY <1>1, RefuseKeeps DEF CommitRules
<1>2. CASE ~clash
  <2>1. /\ segments' = segments
        /\ rules' = Kept(w) \cup {New(q) : q \in edit[w].rules}
        /\ Close(w) /\ edits' = edits /\ overlapped' = overlapped
        /\ edit[w].pc = "commit" /\ edit[w].kind = "rules" /\ Runs(w)
    BY <1>2 DEF CommitRules, Committing, Close, Runs
  <2>2. /\ edit[w] \in Edits /\ edits \in Nat /\ n \in 0..edits
        /\ rules \subseteq RuleRows /\ segments \subseteq SegmentRows
    BY DEF TargetingInv, EditShapes, RequestNumbers
  <2>3. edit[w].rules \subseteq [priority : Int, segment : Nat] /\ n \in Nat
    BY <2>2 DEF Edits
  <2>4. \A q \in edit[w].rules : /\ New(q) \in RuleRows /\ New(q).of = n
                                 /\ New(q).priority = q.priority /\ New(q).segment = q.segment
    BY <2>3 DEF RuleRows
  <2>5. /\ \A r \in Kept(w), q \in edit[w].rules : r.priority # q.priority
        /\ \A q \in edit[w].rules : q.segment \in {NoSegment} \cup {r.id : r \in segments}
    BY <1>2
  <2>6. \A r \in Kept(w) : r \in rules /\ {r.of, n} \in overlapped
    BY <2>1 DEF Kept, TargetingInv, WriterInv, DeleteSees
  <2> HIDE DEF New, n, clash
  <2>7. segments' \subseteq SegmentRows /\ rules' \subseteq RuleRows
    BY <2>1, <2>2, <2>4, <2>6
  <2>8. SegmentsUnique'
    BY <2>1 DEF TargetingInv, SegmentsUnique
  <2>9. RulesUnique'
    <3>1. \A r \in Kept(w) : r.of \in 0..edits /\ r.segment \in {NoSegment} \cup {q.id : q \in segments}
      BY <2>6 DEF TargetingInv, RulesUnique
    <3>2. \A r \in rules' :
            r.of \in 0..edits' /\ r.segment \in {NoSegment} \cup {q.id : q \in segments'}
      BY <2>1, <2>2, <2>4, <2>5, <3>1
    <3>3. \A r, q \in edit[w].rules : r.priority = q.priority => r = q
      BY DEF TargetingInv, WriterInv, Stage
    <3>4. \A r, q \in Kept(w) : r.priority = q.priority => r = q
      BY <2>6 DEF TargetingInv, RulesUnique
    <3>5. \A r, q \in rules' : r.priority = q.priority => r = q
      BY <2>1, <2>4, <2>5, <3>3, <3>4
    <3>6. QED
      BY <3>2, <3>5 DEF RulesUnique
  <2>10. RulesOfOneRequest'
    <3> SUFFICES ASSUME NEW r \in rules', NEW q \in rules', r.of # q.of
                 PROVE  {r.of, q.of} \in overlapped
      BY <2>1 DEF RulesOfOneRequest
    <3>1. CASE r \in Kept(w) /\ q \in Kept(w)
      BY <2>6, <3>1 DEF TargetingInv, RulesOfOneRequest
    <3>2. CASE r \in Kept(w) /\ q.of = n
      BY <2>6, <3>2
    <3>3. CASE r.of = n /\ q \in Kept(w)
      <4>1. {r.of, q.of} = {q.of, n}
        BY <3>3
      <4>2. QED
        BY <2>6, <3>3, <4>1
    <3>4. QED
      BY <2>1, <2>4, <3>1, <3>2, <3>3
  <2>11. \A r \in segments' : r.id = edit[w].n \/ \E q \in segments : q.id = r.id
    BY <2>1
  <2>12. \A r \in rules' :
           r.of = edit[w].n \/ \E q \in rules : q.of = r.of /\ q.priority = r.priority
    BY <2>1, <2>4, <2>6 DEF n
  <2>13. QED
    BY <2>1, <2>7, <2>8, <2>9, <2>10, <2>11, <2>12, CloseStep
<1>3. QED
  BY <1>1, <1>2

-----------------------------------------------------------------------------

LEMMA TargetingStepKeeps == TargetingInv /\ [TargetingNext]_targetingVars => TargetingInv'
<1> SUFFICES ASSUME TargetingInv, [TargetingNext]_targetingVars PROVE TargetingInv'
  OBVIOUS
<1>1. ASSUME NEW w \in Writers, Continue(w) PROVE TargetingInv'
  <2>1. ASSUME NEW e \in edit[w].todo, Look(w, e) PROVE TargetingInv'
    BY <2>1, LookKeeps
  <2>2. ASSUME NEW id \in ToDelete(w), DeleteRow(w, id) PROVE TargetingInv'
    BY <2>2, DeleteRowKeeps
  <2>3. CASE Checked(w)
    BY <2>3, CheckedKeeps
  <2>4. CASE BeginDelete(w)
    BY <2>4, BeginDeleteKeeps
  <2>5. CASE EndDelete(w)
    BY <2>5, EndDeleteKeeps
  <2>6. CASE Bump(w)
    BY <2>6, BumpKeeps
  <2>7. CASE CommitCreate(w)
    BY <2>7, CommitCreateKeeps
  <2>8. CASE CommitUpdate(w)
    BY <2>8, CommitUpdateKeeps
  <2>9. CASE CommitRemove(w)
    BY <2>9, CommitRemoveKeeps
  <2>10. CASE CommitRules(w)
    BY <2>10, CommitRulesKeeps
  <2>11. CASE DetectDeadlock(w)
    BY <2>11, RefuseKeeps DEF DetectDeadlock
  <2>12. QED
    BY <1>1, <2>1, <2>2, <2>3, <2>4, <2>5, <2>6, <2>7, <2>8, <2>9, <2>10, <2>11 DEF Continue
<1>2. ASSUME NEW w \in Writers, Fail(w) PROVE TargetingInv'
  BY <1>2, RefuseKeeps DEF Fail
<1>3. CASE UNCHANGED targetingVars
  <2>1. UNCHANGED <<segments, rules, edit, edits, overlapped>>
    BY <1>3 DEF targetingVars
  <2>2. EditShapes' /\ SegmentsUnique' /\ RulesUnique' /\ RulesOfOneRequest'
    BY <2>1 DEF TargetingInv, EditShapes, SegmentsUnique, RulesUnique, RulesOfOneRequest
  <2>3. RequestNumbers' /\ NowOverlapped'
    BY <2>1 DEF TargetingInv, RequestNumbers, NowOverlapped, Runs
  <2>4. ASSUME NEW w \in Writers PROVE WriterInv(w)'
    <3>1. Stage(w)' /\ DeleteSees(w)' /\ StillTrue(w)'
      BY <2>1 DEF TargetingInv, WriterInv, Stage, DeleteSees, StillTrue, Checks
    <3>2. CircleInSight(w)'
      BY <2>1 DEF TargetingInv, WriterInv, CircleInSight, Checks, LeadsOn, OwnKey, KeysOf
    <3>3. QED
      BY <3>1, <3>2 DEF WriterInv
  <2>5. QED
    BY <2>2, <2>3, <2>4 DEF TargetingInv
<1>4. QED
  BY <1>1, <1>2, <1>3, StartKeeps DEF TargetingNext

\* The invariant of all behaviours.
THEOREM TargetingInvariant == TargetingSpec => []TargetingInv
BY TargetingInitHolds, TargetingStepKeeps, PTL DEF TargetingSpec

\* Rows keep the constraints of their tables, and rules refer to segments that
\* are there, under any interleaving (targeting.py, models/flag.py).
THEOREM TargetingTypeCorrect == TargetingSpec => []TargetingTypeOK
<1>1. TargetingInv => TargetingTypeOK
  <2> SUFFICES ASSUME TargetingInv PROVE TargetingTypeOK
    OBVIOUS
  <2>1. \A r \in segments : r.id \in 1..edits /\ r.key \in Keys /\ r.tree \in Trees
    BY DEF TargetingInv, EditShapes, SegmentRows, SegmentsUnique
  <2>2. \A w \in Writers : edit[w].pc \in EditLabels /\ edit[w].kind \in Kinds /\ edit[w].n \in 0..edits
    BY DEF TargetingInv, EditShapes, Edits, RequestNumbers
  <2>3. QED
    BY <2>1, <2>2 DEF TargetingInv, SegmentsUnique, RulesUnique, EditShapes, TargetingTypeOK
<1>2. QED
  BY <1>1, TargetingInvariant, PTL

\* "Atomically replace all targeting rules" (set_targeting_rules_atomic): rules of
\* two requests are in force together only if the requests overlapped.
THEOREM ReplacedAsAWhole == TargetingSpec => []RulesOfOneRequest
BY TargetingInvariant, PTL DEF TargetingInv

\* An idle request has locked no rule, and a running one is of some kind.
Begun(w) ==
  /\ edit[w].pc = "idle" => edit[w].deleted = {}
  /\ edit[w].pc # "idle" => edit[w].kind # "none"

LEMMA BegunAlways == TargetingSpec => [](\A w \in Writers : Begun(w))
<1> DEFINE Inv == \A w \in Writers : Begun(w)
<1>0. NoEdit("idle").pc = "idle" /\ NoEdit("idle").deleted = {}
  BY DEF NoEdit
<1>1. TargetingInit => Inv
  <2> SUFFICES ASSUME TargetingInit, NEW w \in Writers PROVE Begun(w)
    OBVIOUS
  <2>1. edit[w] = NoEdit("idle")
    BY DEF TargetingInit
  <2>2. QED
    BY <1>0, <2>1 DEF Begun
<1>2. Inv /\ TargetingInv /\ [TargetingNext]_targetingVars => Inv'
  <2> SUFFICES ASSUME Inv, TargetingInv, [TargetingNext]_targetingVars PROVE Inv'
    OBVIOUS
  <2>1. edit \in [Writers -> Edits] /\ \A w \in Writers : Begun(w)
    BY DEF TargetingInv, EditShapes
  <2>2. ASSUME NEW w \in Writers, Refuse(w) PROVE Inv'
    <3>1. edit'[w] = NoEdit("idle") /\ \A v \in Writers \ {w} : edit'[v] = edit[v]
      BY <2>1, <2>2 DEF Refuse
    <3>2. QED
      BY <1>0, <2>1, <3>1 DEF Begun
  <2>3. ASSUME NEW w \in Writers, Close(w) PROVE Inv'
    <3>1. /\ edit'[w] = NoEdit("idle")
          /\ \A v \in Writers \ {w} : edit'[v] = [edit[v] EXCEPT !.alone = FALSE]
      BY <2>3 DEF Close
    <3>2. \A v \in Writers \ {w} :
            edit'[v].pc = edit[v].pc /\ edit'[v].kind = edit[v].kind /\ edit'[v].deleted = edit[v].deleted
      BY <2>1, <3>1 DEF Edits
    <3>3. QED
      BY <1>0, <2>1, <3>1, <3>2 DEF Begun
  <2>4. ASSUME NEW w \in Writers, Start(w) PROVE Inv'
    <3>1. ASSUME NEW e, Arrive(w, e), [e EXCEPT !.n = edits + 1].pc # "idle",
                 [e EXCEPT !.n = edits + 1].kind # "none"
          PROVE  Inv'
      <4>1. edit'[w] = [e EXCEPT !.n = edits + 1] /\ \A v \in Writers \ {w} : edit'[v] = edit[v]
        BY <2>1, <3>1 DEF Arrive
      <4>2. QED
        BY <2>1, <3>1, <4>1 DEF Begun
    <3>2. ASSUME NEW k \in Keys, NEW t \in Trees, StartCreate(w, k, t) PROVE Inv'
      BY <3>1, <3>2 DEF StartCreate, NoEdit
    <3>3. ASSUME NEW r \in segments, NEW t \in Trees, StartUpdate(w, r, t) PROVE Inv'
      BY <3>1, <3>3 DEF StartUpdate, NoEdit
    <3>4. ASSUME NEW r \in segments, StartDelete(w, r) PROVE Inv'
      BY <3>1, <3>4 DEF StartDelete, NoEdit
    <3>5. ASSUME NEW R \in RuleSets, StartReplace(w, R) PROVE Inv'
      BY <3>1, <3>5 DEF StartReplace, NoEdit
    <3>6. QED
      BY <2>4, <3>2, <3>3, <3>4, <3>5 DEF Start
  <2>5. ASSUME NEW w \in Writers, NEW pc \in EditLabels \ {"idle"}, edit[w].pc # "idle",
               \A v \in Writers \ {w} : edit'[v] = edit[v],
               edit'[w].pc = pc, edit'[w].kind = edit[w].kind
        PROVE  Inv'
    BY <2>1, <2>5 DEF Begun
  <2>6. ASSUME NEW w \in Writers, Continue(w) PROVE Inv'
    <3>0. w \in Writers /\ edit[w] \in Edits
      BY <2>1
    <3>1. ASSUME NEW e \in edit[w].todo, Look(w, e) PROVE Inv'
      <4>1. CASE e.ref \in e.path
        BY <2>2, <3>1, <4>1 DEF Look
      <4>2. CASE e.ref \notin e.path
        <5>1. PICK X, Y : edit' = [edit EXCEPT ![w].loaded = X, ![w].todo = Y]
          BY <3>1, <4>2 DEF Look
        <5>2. edit'[w] = [edit[w] EXCEPT !.loaded = X, !.todo = Y]
          BY <2>1, <5>1
        <5>3. edit'[w].pc = edit[w].pc /\ edit'[w].kind = edit[w].kind /\ edit[w].pc = "check"
          BY <3>0, <3>1, <5>2 DEF Look, Edits
        <5>4. QED
          BY <2>1, <2>5, <5>1, <5>3 DEF EditLabels
      <4>3. QED
        BY <4>1, <4>2
    <3>2. CASE Checked(w) \/ EndDelete(w) \/ Bump(w)
      <4>1. PICK l \in {"bump", "commit"} : edit' = [edit EXCEPT ![w].pc = l] /\ edit[w].pc # "idle"
        BY <3>2 DEF Checked, EndDelete, Bump
      <4>2. edit'[w] = [edit[w] EXCEPT !.pc = l] /\ \A v \in Writers \ {w} : edit'[v] = edit[v]
        BY <2>1, <4>1
      <4>3. edit'[w].pc = l /\ edit'[w].kind = edit[w].kind
        BY <3>0, <4>2 DEF Edits
      <4>4. QED
        BY <2>5, <4>1, <4>2, <4>3 DEF EditLabels
    <3>3. CASE BeginDelete(w) \/ \E id \in ToDelete(w) : DeleteRow(w, id)
      <4>1. edit[w].pc # "idle" /\ \A v \in Writers \ {w} : edit'[v] = edit[v]
        BY <2>1, <3>3 DEF BeginDelete, DeleteRow
      <4>2. PICK X, Y : edit'[w] = [edit[w] EXCEPT !.pc = "rows", !.seen = X, !.deleted = Y]
        <5>1. CASE BeginDelete(w)
          <6>1. edit'[w] = [edit[w] EXCEPT !.pc = "rows", !.seen = IdsOf(rules), !.deleted = edit[w].deleted]
            BY <2>1, <3>0, <5>1 DEF BeginDelete, Edits
          <6>2. QED
            BY <6>1
        <5>2. ASSUME NEW id \in ToDelete(w), DeleteRow(w, id) PROVE \E X, Y :
                edit'[w] = [edit[w] EXCEPT !.pc = "rows", !.seen = X, !.deleted = Y]
          <6>1. edit'[w] = [edit[w] EXCEPT !.pc = "rows", !.seen = edit[w].seen,
                                           !.deleted = edit[w].deleted \cup {id}]
            BY <2>1, <3>0, <5>2 DEF DeleteRow, Edits
          <6>2. QED
            BY <6>1
        <5>3. QED
          BY <3>3, <5>1, <5>2
      <4>3. edit'[w].pc = "rows" /\ edit'[w].kind = edit[w].kind
        BY <3>0, <4>2 DEF Edits
      <4>4. QED
        BY <2>5, <4>1, <4>3 DEF EditLabels
    <3>4. CASE CommitCreate(w) \/ CommitUpdate(w) \/ CommitRemove(w) \/ CommitRules(w)
      BY <2>2, <2>3, <3>4 DEF CommitCreate, CommitUpdate, CommitRemove, CommitRules
    <3>5. CASE DetectDeadlock(w)
      BY <2>2, <3>5 DEF DetectDeadlock
    <3>6. QED
      BY <2>6, <3>1, <3>2, <3>3, <3>4, <3>5 DEF Continue
  <2>7. CASE UNCHANGED targetingVars
    BY <2>1, <2>7 DEF targetingVars, Begun
  <2>8. QED
    BY <2>2, <2>4, <2>6, <2>7 DEF TargetingNext, Fail
<1>3. QED
  BY <1>1, <1>2, TargetingInvariant, PTL DEF TargetingSpec

\* Every DELETE of the old rules visits them in an order of its own: the next row
\* of each.
NoId == CHOOSE id : id \notin IdsOf(rules)

NextIds ==
  {next \in [Writers -> IdsOf(rules) \cup {NoId}] :
     \A w \in Writers : ToDelete(w) # {} => next[w] \in ToDelete(w)}

\* The requests that w waits for if its next row is id.
EditHeldUp(w, id) ==
  IF edit[w].pc = "rows" THEN (IF ToDelete(w) = {} THEN {} ELSE LockedBy(w, id))
  ELSE IF edit[w].pc = "bump" THEN Holders(w)
  ELSE IF Committing(w, "remove") THEN ReferenceHolders(w)
  ELSE IF Committing(w, "rules") THEN PriorityHolders(w)
  ELSE {}

\* The guards of Continue.
EditReady(w, id) ==
  \/ edit[w].pc \in {"check", "delete"}
  \/ edit[w].pc = "rows" /\ ToDelete(w) = {}
  \/ edit[w].pc = "rows" /\ id \in ToDelete(w) /\ LockedBy(w, id) = {}
  \/ edit[w].pc = "bump" /\ Holders(w) = {}
  \/ Committing(w, "create") \/ Committing(w, "update")
  \/ Committing(w, "remove") /\ ReferenceHolders(w) = {}
  \/ Committing(w, "rules") /\ PriorityHolders(w) = {}

\* Whatever rows they ask for next: nobody waits for a request that has ended, and
\* of requests that wait for one another only, one can go on or is in a circle,
\* which PostgreSQL breaks.
NoEditStuck ==
  \A next \in NextIds :
    LET W == [w \in Writers |-> EditHeldUp(w, next[w])] IN
    /\ \A w \in Writers : W[w] \subseteq Running
    /\ \A S \in SUBSET Running :
         S # {} /\ (\A w \in S : W[w] \subseteq S) => \E w \in S : EditReady(w, next[w]) \/ OnCircle(W, w)

\* Rules that are deleted but not committed, the row of the environment, the rows
\* that refer to a segment: the three locks of these requests leave no other
\* standstill than a circle (the safety half of EveryEditEnds).
THEOREM NoEditIsStuck == TargetingSpec => []NoEditStuck
<1> DEFINE Inv == \A w \in Writers : Begun(w)
<1>1. TargetingInv /\ Inv => NoEditStuck
  <2> SUFFICES ASSUME TargetingInv, \A w \in Writers : Begun(w), NEW next \in NextIds PROVE
        LET W == [w \in Writers |-> EditHeldUp(w, next[w])] IN
        /\ \A w \in Writers : W[w] \subseteq Running
        /\ \A S \in SUBSET Running :
             S # {} /\ (\A w \in S : W[w] \subseteq S) => \E w \in S : EditReady(w, next[w]) \/ OnCircle(W, w)
    BY DEF NoEditStuck
  <2> DEFINE W == [w \in Writers |-> EditHeldUp(w, next[w])]
  <2>1. ASSUME NEW w \in Writers PROVE W[w] \subseteq Running
    <3>1. \A v \in Writers : edit[v].deleted # {} \/ edit[v].pc = "commit" => v \in Running
      BY DEF Begun, Running
    <3>2. QED
      BY <3>1 DEF EditHeldUp, LockedBy, Holders, ReferenceHolders, PriorityHolders
  <2>2. ASSUME NEW S \in SUBSET Running, S # {}, \A w \in S : W[w] \subseteq S
        PROVE  \E w \in S : EditReady(w, next[w]) \/ OnCircle(W, w)
    <3>1. IsFiniteSet(S) /\ S \subseteq DOMAIN W
      BY TargetingAssumption, FS_Subset DEF Running
    <3>2. ASSUME NEW w \in S, W[w] = {} PROVE EditReady(w, next[w])
      <4>1. w \in Writers /\ edit[w].pc \in EditLabels \ {"idle"} /\ edit[w].kind \in Kinds \ {"none"}
        BY DEF Running, Begun, TargetingInv, EditShapes, Edits
      <4>2. EditHeldUp(w, next[w]) = {} /\ (ToDelete(w) # {} => next[w] \in ToDelete(w))
        BY <3>2, <4>1 DEF NextIds
      <4>3. CASE edit[w].pc = "commit"
        BY <4>1, <4>2, <4>3 DEF Kinds, Committing, EditHeldUp, EditReady
      <4>4. CASE edit[w].pc # "commit"
        BY <4>1, <4>2, <4>4 DEF EditLabels, EditHeldUp, EditReady
      <4>5. QED
        BY <4>3, <4>4
    <3>3. \E w \in S : W[w] = {} \/ OnCircle(W, w)
      <4> HIDE DEF W
      <4>1. QED
        BY <2>2, <3>1, SomebodyMoves
    <3>4. QED
      BY <3>2, <3>3
  <2>3. QED
    BY <2>1, <2>2
<1>2. QED
  BY <1>1, TargetingInvariant, BegunAlways, PTL

\* A circle that appears goes through the segment that was just written, and then
\* the check had one of its references still to look up.
LEMMA NoNewCircle ==
  ASSUME TargetingInv, NEW w \in Writers, Committing(w, "create") \/ Committing(w, "update"),
         edit[w].alone, NEW new, new.key = edit[w].key, new.tree = edit[w].tree,
         ~Cyclic(segments), segments' \subseteq segments \cup {new}
  PROVE  ~Cyclic(segments')
<1> SUFFICES ASSUME NEW C \in SUBSET segments', C # {},
                    \A r \in C : \E q \in C : <<"key", q.key>> \in Refs[r.tree]
             PROVE  FALSE
  BY DEF Cyclic
<1>1. new \in C
  <2> SUFFICES ASSUME new \notin C PROVE FALSE
    OBVIOUS
  <2>1. C \in SUBSET segments
    OBVIOUS
  <2>2. QED
    BY <2>1 DEF Cyclic
<1> DEFINE D == C \ {new}
<1>2. D \in SUBSET segments
  OBVIOUS
<1>3. \A q \in C : <<"key", q.key>> \in KeysOf(D) \cup {OwnKey(w)}
  BY DEF KeysOf, OwnKey
<1>4. LeadsOn(w, D, edit[w].tree)
  BY <1>1, <1>3 DEF LeadsOn
<1>5. Checks(w) /\ edit[w].todo = {}
  BY DEF Checks, Committing, TargetingInv, WriterInv, CircleInSight
<1>6. QED
  BY <1>2, <1>4, <1>5 DEF TargetingInv, WriterInv, CircleInSight

\* "Detect circular references between segments": a request that nobody has
\* overtaken closes no circle (check_cyclic_segment_reference).
THEOREM CirclesNeedOverlap == TargetingSpec => CyclesNeedOverlap
<1> DEFINE A == (/\ \A w \in Writers :
                      Committing(w, "create") \/ Committing(w, "update") => edit[w].alone
                 /\ ~Cyclic(segments)) => ~Cyclic(segments')
<1>1. TargetingInv /\ [TargetingNext]_targetingVars => [A]_targetingVars
  <2> SUFFICES ASSUME TargetingInv, TargetingNext,
                      \A w \in Writers :
                        Committing(w, "create") \/ Committing(w, "update") => edit[w].alone,
                      ~Cyclic(segments)
               PROVE  ~Cyclic(segments')
    OBVIOUS
  <2>1. PICK w \in Writers : Start(w) \/ Continue(w) \/ Fail(w)
    BY DEF TargetingNext
  <2>2. ASSUME segments' \subseteq segments PROVE ~Cyclic(segments')
    BY <2>2 DEF Cyclic
  <2>3. CASE CommitCreate(w)
    <3>1. CASE segments' = segments
      BY <2>2, <3>1
    <3>2. CASE segments' # segments
      <4> DEFINE new == [id |-> edit[w].n, key |-> edit[w].key, tree |-> edit[w].tree]
      <4>1. segments' = segments \cup {new} /\ Committing(w, "create")
        BY <2>3, <3>2 DEF CommitCreate, Refuse
      <4>2. QED
        BY <4>1, NoNewCircle
    <3>3. QED
      BY <3>1, <3>2
  <2>4. CASE CommitUpdate(w)
    <3>1. CASE segments' = segments
      BY <2>2, <3>1
    <3>2. CASE segments' # segments
      <4>1. /\ Committing(w, "update")
            /\ segments' = (segments \ SegmentRow(w))
                             \cup {[r EXCEPT !.tree = edit[w].tree] : r \in SegmentRow(w)}
        BY <2>4, <3>2 DEF CommitUpdate, Refuse
      <4>2. Checks(w)
        BY <4>1 DEF Checks, Committing
      <4>3. PICK q \in segments : q.id = edit[w].row /\ q.key = edit[w].key
        BY <4>1, <4>2 DEF Committing, TargetingInv, WriterInv, StillTrue
      <4>4. SegmentRow(w) = {q}
        BY <4>3 DEF SegmentRow, TargetingInv, SegmentsUnique
      <4> DEFINE new == [q EXCEPT !.tree = edit[w].tree]
      <4>5. new.key = edit[w].key /\ new.tree = edit[w].tree
        BY <4>3 DEF TargetingInv, EditShapes, SegmentRows
      <4>6. segments' \subseteq segments \cup {new}
        BY <4>1, <4>4
      <4>7. QED
        BY <4>1, <4>5, <4>6, NoNewCircle
    <3>3. QED
      BY <3>1, <3>2
  <2>5. CASE CommitRemove(w)
    BY <2>2, <2>5 DEF CommitRemove
  <2>6. CASE CommitRules(w)
    BY <2>2, <2>6 DEF CommitRules, Refuse
  <2>7. CASE Start(w)
    BY <2>2, <2>7 DEF Start, StartCreate, StartUpdate, StartDelete, StartReplace, Arrive
  <2>8. CASE Fail(w) \/ DetectDeadlock(w)
    BY <2>2, <2>8 DEF Fail, DetectDeadlock, Refuse
  <2>9. CASE Checked(w) \/ BeginDelete(w) \/ EndDelete(w) \/ Bump(w)
    BY <2>2, <2>9 DEF Checked, BeginDelete, EndDelete, Bump
  <2>10. CASE \E e \in edit[w].todo : Look(w, e)
    BY <2>2, <2>10 DEF Look, Refuse
  <2>11. CASE \E id \in ToDelete(w) : DeleteRow(w, id)
    BY <2>2, <2>11 DEF DeleteRow
  <2>12. QED
    BY <2>1, <2>3, <2>4, <2>5, <2>6, <2>7, <2>8, <2>9, <2>10, <2>11 DEF Continue
<1>2. QED
  BY <1>1, TargetingInvariant, PTL DEF TargetingSpec, CyclesNeedOverlap

-----------------------------------------------------------------------------
(* Numbers.                                                                 *)

LEMMA MinOf ==
  ASSUME NEW S \in SUBSET Nat, S # {}
  PROVE  Min(S) \in S /\ \A y \in S : Min(S) <= y
<1>1. PICK x \in S : \A y \in S : ~(<<y, x>> \in OpToRel(<, Nat))
  BY NatLessThanWellFounded, WFMin
<1>2. \A y \in S : x <= y
  <2> SUFFICES ASSUME NEW y \in S, ~(x <= y) PROVE FALSE
    OBVIOUS
  <2>0. y < x  OBVIOUS
  <2>1. <<y, x>> \in Nat \X Nat /\ <<y, x>>[1] < <<y, x>>[2]  BY <2>0
  <2>2. <<y, x>> \in OpToRel(<, Nat)  BY <2>1 DEF OpToRel
  <2> QED  BY <2>2, <1>1
<1> QED  BY <1>2 DEF Min

LEMMA MaxOf ==
  ASSUME NEW n \in Nat, NEW S \in SUBSET (0..n), S # {}
  PROVE  Max(S) \in S /\ \A y \in S : Max(S) >= y
<1> DEFINE T == {n - x : x \in S}
<1>2. \A x \in S : n - x \in T  OBVIOUS
<1>1. T \in SUBSET Nat /\ T # {}
  <2>1. \A x \in S : n - x \in Nat  OBVIOUS
  <2>2. T \subseteq Nat  BY <2>1
  <2>3. PICK x \in S : TRUE  OBVIOUS
  <2> QED  BY <2>2, <2>3, <1>2
<1> HIDE DEF T
<1>3. Min(T) \in T /\ \A y \in T : Min(T) <= y  BY <1>1, MinOf
<1>4. PICK x \in S : Min(T) = n - x  BY <1>3 DEF T
<1>5. \A y \in S : x >= y
  <2> SUFFICES ASSUME NEW y \in S PROVE x >= y
    OBVIOUS
  <2>1. n - x <= n - y  BY <1>2, <1>3, <1>4
  <2> QED  BY <2>1
<1> QED  BY <1>5 DEF Max

LEMMA Quotient ==
  ASSUME NEW a \in Nat, NEW b \in Nat \ {0}
  PROVE  /\ a \div b \in Nat /\ b * (a \div b) \in Nat
         /\ b * (a \div b) <= a /\ a < b * (a \div b) + b
         /\ a % b = a - b * (a \div b)
OBVIOUS

LEMMA QuotientLess ==
  ASSUME NEW a \in Nat, NEW c \in Nat, NEW b \in Nat \ {0}, a < b * c + b
  PROVE  a \div b <= c
<1> DEFINE q == a \div b
<1>1. q \in Nat /\ b * q \in Nat /\ b * q <= a  BY Quotient
<1> HIDE DEF q
<1>2. c < q => b * c + b <= b * q  BY <1>1
<1>3. b * c \in Nat  OBVIOUS
<1> QED  BY <1>1, <1>2, <1>3 DEF q

LEMMA QuotientGrows ==
  ASSUME NEW a \in Nat, NEW c \in Nat, NEW b \in Nat \ {0}, a <= c
  PROVE  a \div b <= c \div b
<1> DEFINE q == c \div b
<1>1. q \in Nat /\ b * q \in Nat /\ c < b * q + b  BY Quotient
<1> HIDE DEF q
<1>2. a < b * q + b  BY <1>1
<1> QED  BY <1>1, <1>2, QuotientLess DEF q

LEMMA Products ==
  ASSUME NEW a \in Nat, NEW b \in Nat, NEW c \in Nat, a <= b
  PROVE  a * c \in Nat /\ b * c \in Nat /\ a * c <= b * c
OBVIOUS

\* A component is a number up to its maximum, and grows with its days.
LEMMA ShareRange ==
  ASSUME NEW x \in Int, NEW max \in Nat \ {0}, NEW scale \in Nat
  PROVE  Share(x, max, scale) \in Nat /\ Share(x, max, scale) <= scale
<1>1. CASE x <= 0
  BY <1>1 DEF Share
<1>2. CASE x >= max
  BY <1>2 DEF Share
<1>3. CASE x > 0 /\ x < max
  <2>1. x * scale \in Nat /\ x * scale <= max * scale /\ max * scale \in Nat
    BY <1>3, Products
  <2>2. x * scale < max * scale + max  BY <2>1
  <2>3. (x * scale) \div max \in Nat /\ (x * scale) \div max <= scale
    BY <2>1, <2>2, Quotient, QuotientLess
  <2> QED  BY <1>3, <2>3 DEF Share
<1> QED  BY <1>1, <1>2, <1>3

LEMMA ShareGrows ==
  ASSUME NEW x \in Int, NEW y \in Int, NEW max \in Nat \ {0}, NEW scale \in Nat, x <= y
  PROVE  Share(x, max, scale) <= Share(y, max, scale)
<1>0. /\ Share(x, max, scale) \in Nat /\ Share(x, max, scale) <= scale
      /\ Share(y, max, scale) \in Nat
  BY ShareRange
<1>1. CASE x <= 0
  <2>1. Share(x, max, scale) = 0  BY <1>1 DEF Share
  <2> QED  BY <2>1, <1>0
<1>2. CASE y >= max
  <2>1. Share(y, max, scale) = scale  BY <1>2 DEF Share
  <2> QED  BY <2>1, <1>0
<1>3. CASE x > 0 /\ y < max
  <2>1. x * scale \in Nat /\ y * scale \in Nat /\ x * scale <= y * scale
    BY <1>3, Products
  <2>2. (x * scale) \div max <= (y * scale) \div max  BY <2>1, QuotientGrows
  <2> QED  BY <1>3, <2>2 DEF Share
<1> QED  BY <1>1, <1>2, <1>3

\* Rounding to even keeps the order.
LEMMA RoundGrows ==
  ASSUME NEW n \in Nat, NEW m \in Nat, NEW d \in Nat \ {0}, n <= m
  PROVE  Round(n, d) \in Nat /\ Round(n, d) <= Round(m, d)
<1> DEFINE q == n \div d
           p == m \div d
           r == 2 * (n % d)
           s == 2 * (m % d)
<1>1. /\ q \in Nat /\ p \in Nat /\ q <= p
      /\ r \in Int /\ s \in Int /\ (q = p => r <= s)
  <2>1. q \in Nat /\ p \in Nat /\ q <= p  BY Quotient, QuotientGrows
  <2>2. /\ d * q \in Nat /\ d * p \in Nat
        /\ n % d = n - d * q /\ m % d = m - d * p
    BY Quotient
  <2> HIDE DEF q, p
  <2> QED  BY <2>1, <2>2
<1>2. /\ Round(n, d) = IF r > d \/ (r = d /\ q % 2 = 1) THEN q + 1 ELSE q
      /\ Round(m, d) = IF s > d \/ (s = d /\ p % 2 = 1) THEN p + 1 ELSE p
  BY DEF Round
<1> HIDE DEF q, p, r, s
<1>3. q = p => q % 2 = p % 2  OBVIOUS
<1> QED  BY <1>1, <1>2, <1>3

-----------------------------------------------------------------------------
(* Flag health.                                                             *)

\* The invariant.  A setting that is rolled out by rules older than its updated_at
\* has been so since updated_at at the latest, and production with it.
HealthTypes ==
  /\ today \in Nat /\ archived \in BOOLEAN /\ elsewhere \in BOOLEAN
  /\ setting \in [Production -> [enabled : BOOLEAN, rule : RuleKinds, updated : Nat]]
  /\ \A e \in Production : setting[e].updated <= today
  /\ lastEvent \in NeverDay..today /\ fullSince \in NeverDay..today

FullSinceUpdate ==
  \A e \in RolledOut :
    e \notin replaced => fullSince # NeverDay /\ fullSince <= setting[e].updated

HealthInv == HealthTypes /\ FullSinceUpdate

\* Production is at full rollout when one of its environments is.
FullRollout ==
  /\ RolloutPct \in {0, 100}
  /\ RolloutPct >= 100 <=> \E e \in Production : _rollout(setting[e]) = 100

\* Whatever the settings, for the weights of a distribution add up to 100 however
\* they are divided.
LEMMA FullRolloutHolds == FullRollout
<1> DEFINE S == {_rollout(setting[e]) : e \in Production}
<1>1. S \subseteq {0, 100}  BY DEF _rollout
<1>2. S # {}  BY HealthAssumption
<1>3. Max(S) \in S /\ \A y \in S : Max(S) >= y
  <2>1. S \in SUBSET (0..100)  BY <1>1
  <2> HIDE DEF S
  <2> QED  BY <2>1, <1>2, MaxOf
<1>4. \A e \in Production : _rollout(setting[e]) \in S  OBVIOUS
<1>5. Max(S) \in {0, 100}
  <2> HIDE DEF S
  <2> QED  BY <1>1, <1>3
<1>6. Max(S) >= 100 => \E e \in Production : _rollout(setting[e]) = 100
  <2>1. Max(S) >= 100 => Max(S) = 100  BY <1>5
  <2> QED  BY <2>1, <1>3
<1>7. ASSUME NEW e \in Production, _rollout(setting[e]) = 100 PROVE Max(S) >= 100
  <2> HIDE DEF S
  <2> QED  BY <1>3, <1>4, <1>7
<1> QED  BY <1>5, <1>6, <1>7 DEF FullRollout, RolloutPct

LEMMA HealthInitHolds == HealthInit => HealthInv
<1> SUFFICES ASSUME HealthInit PROVE HealthInv
  OBVIOUS
<1>1. HealthTypes
  <2>1. [enabled |-> FALSE, rule |-> "none", updated |-> 0]
          \in [enabled : BOOLEAN, rule : RuleKinds, updated : Nat]
    BY DEF RuleKinds
  <2>2. /\ setting \in [Production -> [enabled : BOOLEAN, rule : RuleKinds, updated : Nat]]
        /\ \A e \in Production : setting[e].updated <= today
    BY <2>1 DEF HealthInit
  <2>3. /\ today \in Nat
        /\ lastEvent \in NeverDay..today /\ fullSince \in NeverDay..today
    <3>1. today = 0 /\ lastEvent = -1 /\ fullSince = -1  BY DEF HealthInit, NeverDay
    <3> QED  BY <3>1 DEF NeverDay
  <2>4. archived \in BOOLEAN /\ elsewhere \in BOOLEAN  BY DEF HealthInit
  <2> QED  BY <2>2, <2>3, <2>4 DEF HealthTypes
<1>2. RolledOut = {}
  BY DEF HealthInit, RolledOut
<1> QED  BY <1>1, <1>2 DEF HealthInv, FullSinceUpdate, RolledOut

\* A step that writes one setting, after which its rules are older than its
\* updated_at only if it was written today, keeps the invariant.
LEMMA WriteSettingKeeps ==
  ASSUME HealthInv, NEW f \in Production, NEW r,
         r \in [enabled : BOOLEAN, rule : RuleKinds, updated : Nat], r.updated <= today,
         setting' = [setting EXCEPT ![f] = r],
         replaced' \in {replaced \ {f}, replaced \cup {f}},
         f \notin replaced' => r.updated = today,
         Follow, UNCHANGED <<today, archived, elsewhere, lastEvent>>
  PROVE  HealthInv'
<1>1. /\ \A e \in Production : setting'[e] = IF e = f THEN r ELSE setting[e]
      /\ setting' \in [Production -> [enabled : BOOLEAN, rule : RuleKinds, updated : Nat]]
  BY DEF HealthInv, HealthTypes
<1>2. /\ fullSince \in NeverDay..today /\ today \in Nat /\ today' = today
  BY DEF HealthInv, HealthTypes
<1>4. /\ RolledOut' # {} =>
            fullSince' = IF fullSince = NeverDay THEN today ELSE fullSince
      /\ RolledOut' = {} => fullSince' = NeverDay
  BY DEF Follow
<1>5. fullSince' \in NeverDay..today
  BY <1>2, <1>4 DEF NeverDay
<1>6. HealthTypes'
  <2>1. \A e \in Production : setting'[e].updated <= today'
    BY <1>1, <1>2 DEF HealthInv, HealthTypes
  <2> QED  BY <1>1, <1>2, <1>5, <2>1 DEF HealthInv, HealthTypes
<1>7. ASSUME NEW e \in RolledOut', e \notin replaced'
      PROVE  fullSince' # NeverDay /\ fullSince' <= setting'[e].updated
  <2>1. fullSince' = IF fullSince = NeverDay THEN today ELSE fullSince
    BY <1>4, <1>7
  <2>0. e \in Production  BY <1>7 DEF RolledOut
  <2>2. fullSince' # NeverDay /\ fullSince' <= today
    BY <2>1, <1>2 DEF NeverDay
  <2>3. CASE e = f
    <3>1. setting'[e].updated = today  BY <2>0, <2>3, <1>1, <1>7
    <3> QED  BY <2>2, <3>1
  <2>4. CASE e # f
    <3>1. setting'[e] = setting[e] /\ e \notin replaced  BY <2>0, <2>4, <1>1, <1>7
    <3>2. e \in RolledOut  BY <2>0, <3>1, <1>7 DEF RolledOut
    <3>3. fullSince # NeverDay /\ fullSince <= setting[e].updated
      BY <3>1, <3>2 DEF HealthInv, FullSinceUpdate, RolledOut
    <3> QED  BY <2>1, <3>1, <3>3
  <2> QED  BY <2>3, <2>4
<1>8. FullSinceUpdate'  BY <1>7 DEF FullSinceUpdate
<1> QED  BY <1>6, <1>8 DEF HealthInv

LEMMA HealthStepKeeps == HealthInv /\ [HealthNext]_healthVars => HealthInv'
<1> SUFFICES ASSUME HealthInv, [HealthNext]_healthVars PROVE HealthInv'
  OBVIOUS
<1>0. /\ today \in Nat
      /\ \A e \in Production :
           /\ setting[e] \in [enabled : BOOLEAN, rule : RuleKinds, updated : Nat]
           /\ setting[e].updated <= today
  BY DEF HealthInv, HealthTypes
<1>1. ASSUME NEW d \in Jumps, DaysPass(d) PROVE HealthInv'
  <2>1. today' \in Nat /\ today <= today'
    BY <1>0, <1>1, HealthAssumption DEF DaysPass
  <2>2. UNCHANGED <<archived, setting, elsewhere, lastEvent, fullSince, replaced>>
    BY <1>1 DEF DaysPass
  <2>3. HealthTypes'
    BY <1>0, <2>1, <2>2 DEF HealthInv, HealthTypes, NeverDay
  <2>4. FullSinceUpdate'
    BY <2>2 DEF HealthInv, FullSinceUpdate, RolledOut
  <2> QED  BY <2>3, <2>4 DEF HealthInv
<1>2. ASSUME NEW e \in Production, Switch(e) PROVE HealthInv'
  <2> DEFINE r == [setting[e] EXCEPT !.enabled = ~@, !.updated = today]
  <2>1. /\ r \in [enabled : BOOLEAN, rule : RuleKinds, updated : Nat]
        /\ r.updated = today
    BY <1>0
  <2>2. setting' = [setting EXCEPT ![e] = r]
    BY <1>2, <1>0 DEF Switch, HealthInv, HealthTypes
  <2> HIDE DEF r
  <2>3. r.updated <= today  BY <2>1, <1>0
  <2> QED  BY <1>2, <2>1, <2>2, <2>3, WriteSettingKeeps DEF Switch
<1>3. ASSUME NEW e \in Production, FlushTimestamps(e) PROVE HealthInv'
  <2> DEFINE r == [setting[e] EXCEPT !.updated = today]
  <2>1. /\ r \in [enabled : BOOLEAN, rule : RuleKinds, updated : Nat]
        /\ r.updated = today
    BY <1>0
  <2>2. setting' = [setting EXCEPT ![e] = r]
    BY <1>3, <1>0 DEF FlushTimestamps, HealthInv, HealthTypes
  <2> HIDE DEF r
  <2>3. r.updated <= today  BY <2>1, <1>0
  <2> QED  BY <1>3, <2>1, <2>2, <2>3, WriteSettingKeeps DEF FlushTimestamps
<1>4. ASSUME NEW e \in Production, NEW k \in RuleKinds, ReplaceRules(e, k) PROVE HealthInv'
  <2> DEFINE r == [setting[e] EXCEPT !.rule = k]
  <2>1. /\ r \in [enabled : BOOLEAN, rule : RuleKinds, updated : Nat]
        /\ r.updated <= today
    BY <1>0
  <2>2. setting' = [setting EXCEPT ![e] = r]
    BY <1>4, <1>0 DEF ReplaceRules, HealthInv, HealthTypes
  <2> HIDE DEF r
  <2>3. e \in replaced'  BY <1>4 DEF ReplaceRules
  <2> QED  BY <1>4, <2>1, <2>2, <2>3, WriteSettingKeeps DEF ReplaceRules
<1>5. CASE RecordEvent
  <2>1. UNCHANGED <<today, archived, setting, elsewhere, fullSince, replaced>> /\ lastEvent' = today
    BY <1>5 DEF RecordEvent
  <2>2. HealthTypes'  BY <1>0, <2>1 DEF HealthInv, HealthTypes, NeverDay
  <2>3. FullSinceUpdate'  BY <2>1 DEF HealthInv, FullSinceUpdate, RolledOut
  <2> QED  BY <2>2, <2>3 DEF HealthInv
<1>6. CASE /\ Archive \/ Restore
           /\ UNCHANGED <<today, setting, elsewhere, lastEvent, fullSince, replaced>>
  <2>1. archived' \in BOOLEAN  BY <1>6 DEF Archive, Restore
  <2>2. HealthTypes'  BY <1>6, <2>1 DEF HealthInv, HealthTypes
  <2>3. FullSinceUpdate'  BY <1>6 DEF HealthInv, FullSinceUpdate, RolledOut
  <2> QED  BY <2>2, <2>3 DEF HealthInv
<1>7. CASE UNCHANGED healthVars
  <2>1. HealthTypes'  BY <1>7 DEF healthVars, HealthInv, HealthTypes
  <2>2. FullSinceUpdate'  BY <1>7 DEF healthVars, HealthInv, FullSinceUpdate, RolledOut
  <2> QED  BY <2>1, <2>2 DEF HealthInv
<1> QED  BY <1>1, <1>2, <1>3, <1>4, <1>5, <1>6, <1>7 DEF HealthNext

\* The invariant of flag health.
THEOREM HealthInvariant == HealthSpec => []HealthInv
<1> QED  BY HealthInitHolds, HealthStepKeeps, PTL DEF HealthSpec

\* The debt score of any snapshot, and how it grows with the days.
LEMMA ScoreRange ==
  ASSUME NEW n \in Nat
  PROVE  /\ Min({100, n}) \in 0..100
         /\ Min({100, n}) = IF n <= 100 THEN n ELSE 100
<1>1. {100, n} \in SUBSET Nat /\ {100, n} # {}  OBVIOUS
<1>2. Min({100, n}) \in {100, n} /\ \A y \in {100, n} : Min({100, n}) <= y
  BY <1>1, MinOf
<1>3. PICK m : m = Min({100, n})  OBVIOUS
<1>4. m \in {100, n} /\ m <= 100 /\ m <= n  BY <1>2, <1>3
<1>5. m \in 0..100 /\ m = IF n <= 100 THEN n ELSE 100  BY <1>4
<1> QED  BY <1>3, <1>5

\* The sum that the score rounds, of the days a snapshot counts.
Debt(age, rollout, silent) ==
  25 * Share(age, 365, Scale) + 35 * Share(rollout, 90, Scale)
    + 25 * Share(silent, 30, Scale)
    + 15 * (IF Temporary THEN Share(age, stale_days, Scale) ELSE 0)

LEMMA ScaleRange == Scale \in Nat \ {0} /\ stale_days \in Nat \ {0}
<1> QED  BY HealthAssumption DEF Scale

LEMMA DebtGrows ==
  ASSUME NEW a \in Int, NEW b \in Int, NEW c \in Int,
         NEW x \in Int, NEW y \in Int, NEW z \in Int, a <= x, b <= y, c <= z
  PROVE  Debt(a, b, c) \in Nat /\ Debt(x, y, z) \in Nat /\ Debt(a, b, c) <= Debt(x, y, z)
<1>1. ASSUME NEW d \in Int, NEW e \in Int, NEW m \in Nat \ {0}, d <= e
      PROVE  /\ Share(d, m, Scale) \in Nat /\ Share(e, m, Scale) \in Nat
             /\ Share(d, m, Scale) <= Share(e, m, Scale)
  BY <1>1, ScaleRange, ShareRange, ShareGrows
<1>2. PICK a1, x1 \in Nat :
        a1 = Share(a, 365, Scale) /\ x1 = Share(x, 365, Scale) /\ a1 <= x1
  <2>1. 365 \in Nat \ {0}  OBVIOUS
  <2>2. /\ Share(a, 365, Scale) \in Nat /\ Share(x, 365, Scale) \in Nat
        /\ Share(a, 365, Scale) <= Share(x, 365, Scale)
    BY <1>1, <2>1
  <2> QED  BY <2>2
<1>3. PICK b1, y1 \in Nat :
        b1 = Share(b, 90, Scale) /\ y1 = Share(y, 90, Scale) /\ b1 <= y1
  <2>1. 90 \in Nat \ {0}  OBVIOUS
  <2>2. /\ Share(b, 90, Scale) \in Nat /\ Share(y, 90, Scale) \in Nat
        /\ Share(b, 90, Scale) <= Share(y, 90, Scale)
    BY <1>1, <2>1
  <2> QED  BY <2>2
<1>4. PICK c1, z1 \in Nat :
        c1 = Share(c, 30, Scale) /\ z1 = Share(z, 30, Scale) /\ c1 <= z1
  <2>1. 30 \in Nat \ {0}  OBVIOUS
  <2>2. /\ Share(c, 30, Scale) \in Nat /\ Share(z, 30, Scale) \in Nat
        /\ Share(c, 30, Scale) <= Share(z, 30, Scale)
    BY <1>1, <2>1
  <2> QED  BY <2>2
<1>5. PICK a2, x2 \in Nat :
        a2 = Share(a, stale_days, Scale) /\ x2 = Share(x, stale_days, Scale) /\ a2 <= x2
  <2>1. stale_days \in Nat \ {0}  BY ScaleRange
  <2>2. /\ Share(a, stale_days, Scale) \in Nat /\ Share(x, stale_days, Scale) \in Nat
        /\ Share(a, stale_days, Scale) <= Share(x, stale_days, Scale)
    BY <1>1, <2>1
  <2> QED  BY <2>2
<1>6. CASE Temporary
  <2>1. /\ Debt(a, b, c) = 25 * a1 + 35 * b1 + 25 * c1 + 15 * a2
        /\ Debt(x, y, z) = 25 * x1 + 35 * y1 + 25 * z1 + 15 * x2
    BY <1>2, <1>3, <1>4, <1>5, <1>6 DEF Debt
  <2> QED  BY <2>1, <1>2, <1>3, <1>4, <1>5
<1>7. CASE ~Temporary
  <2>1. /\ Debt(a, b, c) = 25 * a1 + 35 * b1 + 25 * c1 + 15 * 0
        /\ Debt(x, y, z) = 25 * x1 + 35 * y1 + 25 * z1 + 15 * 0
    BY <1>2, <1>3, <1>4, <1>7 DEF Debt
  <2> QED  BY <2>1, <1>2, <1>3, <1>4
<1> QED  BY <1>6, <1>7

\* What a state shows of production: the newest update among the enabled
\* environments, and the days at full rollout counted from it.
DaysShown ==
  /\ RolloutDays \in Nat /\ RolloutDays <= today
  /\ RolloutPct >= 100 =>
       \E m \in 0..today :
         /\ m = Max({setting[e].updated : e \in Enabled}) /\ RolloutDays = today - m
         /\ \A e \in Enabled : setting[e].updated <= m

LEMMA DaysShownHold == HealthInv => DaysShown
<1> SUFFICES ASSUME HealthInv PROVE DaysShown
  OBVIOUS
<1>0. /\ today \in Nat
      /\ \A e \in Production : setting[e].updated \in 0..today
  BY DEF HealthInv, HealthTypes
<1>1. CASE RolloutPct >= 100
  <2> DEFINE S == {setting[e].updated : e \in Enabled}
  <2>1. PICK e \in Production : _rollout(setting[e]) = 100
    BY <1>1, FullRolloutHolds DEF FullRollout
  <2>2. e \in Enabled  BY <2>1 DEF _rollout, Enabled
  <2>3. S \in SUBSET (0..today) /\ S # {}  BY <1>0, <2>2 DEF Enabled
  <2>4. \A f \in Enabled : setting[f].updated \in S  OBVIOUS
  <2>5. RolloutDays = today - Max(S)  BY <1>1 DEF RolloutDays
  <2> HIDE DEF S
  <2>6. Max(S) \in S /\ \A y \in S : Max(S) >= y  BY <1>0, <2>3, MaxOf
  <2>7. PICK m \in 0..today : m = Max(S) /\ \A y \in S : m >= y  BY <2>3, <2>6
  <2>8. RolloutDays = today - m  BY <2>5, <2>7
  <2>9. ASSUME NEW f \in Enabled PROVE setting[f].updated <= m
    <3>1. setting[f].updated \in S /\ setting[f].updated \in 0..today
      BY <2>4, <1>0 DEF Enabled
    <3> QED  BY <3>1, <2>7, <1>0
  <2>10. RolloutDays \in Nat /\ RolloutDays <= today  BY <2>8, <1>0
  <2> QED  BY <2>7, <2>8, <2>9, <2>10 DEF DaysShown, S
<1>2. CASE ~(RolloutPct >= 100)
  BY <1>0, <1>2 DEF RolloutDays, DaysShown
<1> QED  BY <1>1, <1>2

LEMMA DaysShownNext == HealthInv' => DaysShown'
<1> QED  BY DaysShownHold, PTL

\* A flag that is STALE for its rollout was at full rollout for stale_days.
LEMMA StaleFollows == HealthInv => StaleWasRolledOut
<1> SUFFICES ASSUME HealthInv, State = "STALE", ~SilentTooLong(Snapshot),
                    ~(RolledOut \subseteq replaced)
             PROVE  fullSince # NeverDay /\ today - fullSince > stale_days
  BY DEF StaleWasRolledOut
<1>1. RolloutPct >= 100 /\ RolloutDays > stale_days
  BY DEF State, derive_lifecycle_state, Snapshot
<1>2. PICK e \in RolledOut : e \notin replaced
  OBVIOUS
<1>3. e \in Enabled
  BY <1>2 DEF RolledOut, Enabled
<1>4. fullSince # NeverDay /\ fullSince <= setting[e].updated
  BY <1>2 DEF HealthInv, FullSinceUpdate
<1>5. PICK m \in 0..today : RolloutDays = today - m /\ setting[e].updated <= m
  BY <1>1, <1>3, DaysShownHold DEF DaysShown
<1>6. /\ today \in Nat /\ fullSince \in NeverDay..today
      /\ setting[e].updated \in Nat /\ stale_days \in Nat
  BY HealthAssumption DEF HealthInv, HealthTypes, RolledOut
<1> QED  BY <1>1, <1>4, <1>5, <1>6 DEF NeverDay

\* derive_lifecycle_state reads the days at full rollout off updated_at; what it
\* calls STALE has been at full rollout that long, if some environment of it is
\* rolled out at all, by rules that were not replaced.
THEOREM StaleMeansRolledOut == HealthSpec => []StaleWasRolledOut
<1> QED  BY HealthInvariant, StaleFollows, PTL

\* The state and the score, by the days the snapshot counts.
EnabledCount == Cardinality(Enabled) + (IF elsewhere THEN 1 ELSE 0)
SilentDays == IF lastEvent = NeverDay THEN NeverDay ELSE today - lastEvent

StateShown ==
  State = IF archived THEN "ARCHIVED"
          ELSE IF EnabledCount = 0 THEN "DRAFT"
          ELSE IF (RolloutPct >= 100 /\ RolloutDays > stale_days) \/ SilentDays >= 14 THEN "STALE"
          ELSE IF RolloutPct >= 100 THEN "ROLLED_OUT"
          ELSE "ACTIVE"

ScoreShown ==
  \E age, rollout, silent \in Int, n \in Nat :
    /\ age = today /\ rollout = RolloutDays /\ silent = SilentDays
    /\ n = Debt(age, rollout, silent)
    /\ Score = Min({100, Round(n, Scale)})

LEMMA StateShownHolds == StateShown
<1> QED  BY DEF StateShown, State, derive_lifecycle_state, Snapshot, SilentTooLong,
                EnabledCount, SilentDays

LEMMA StateShownNext == StateShown'
<1> QED  BY StateShownHolds, PTL

LEMMA ScoreShownHolds == HealthInv => ScoreShown
<1> SUFFICES ASSUME HealthInv PROVE ScoreShown
  OBVIOUS
<1>1. today \in Int /\ SilentDays \in Int /\ RolloutDays \in Int
  BY DaysShownHold DEF HealthInv, HealthTypes, NeverDay, DaysShown, SilentDays
<1>2. PICK age, rollout, silent \in Int :
        age = today /\ rollout = RolloutDays /\ silent = SilentDays
  BY <1>1
<1>3. Score = Min({100, Round(Debt(age, rollout, silent), Scale)})
  BY <1>2 DEF Score, debt_score, Snapshot, Debt, SilentDays
<1>4. Debt(age, rollout, silent) \in Nat  BY DebtGrows
<1> QED  BY <1>2, <1>3, <1>4 DEF ScoreShown

LEMMA ScoreShownNext == HealthInv' => ScoreShown'
<1> QED  BY ScoreShownHolds, PTL

LEMMA HealthTypesFollow == HealthInv => HealthTypeOK
<1> SUFFICES ASSUME HealthInv PROVE HealthTypeOK
  OBVIOUS
<1>1. State \in LifecycleStates
  BY DEF State, derive_lifecycle_state, LifecycleStates
<1>2. Score \in 0..100
  <2>1. PICK n \in Nat : Score = Min({100, Round(n, Scale)})
    BY ScoreShownHolds DEF ScoreShown
  <2>2. Round(n, Scale) \in Nat  BY ScaleRange, RoundGrows
  <2> QED  BY <2>1, <2>2, ScoreRange
<1>3. \A e \in Production : setting[e].updated \in 0..today /\ setting[e].rule \in RuleKinds
  BY DEF HealthInv, HealthTypes
<1>4. lastEvent \in NeverDay..today /\ fullSince \in NeverDay..today
  BY DEF HealthInv, HealthTypes
<1> QED  BY <1>1, <1>2, <1>3, <1>4 DEF HealthTypeOK

\* The state is one of five and the score a number from 0 to 100, whatever the days.
THEOREM HealthTypeCorrect == HealthSpec => []HealthTypeOK
<1> QED  BY HealthInvariant, HealthTypesFollow, PTL

\* Days that pass leave what production is set to, and age the rest.
LEMMA DaysGrow ==
  ASSUME HealthInv, NEW d \in Jumps, DaysPass(d)
  PROVE  /\ RolloutPct' = RolloutPct /\ EnabledCount' = EnabledCount /\ archived' = archived
         /\ today' >= today /\ RolloutDays' >= RolloutDays
         /\ SilentDays' >= SilentDays
         /\ (SilentDays >= 14 => SilentDays' >= 14)
<1>1. /\ today \in Nat /\ today' = today + d /\ d \in Nat
      /\ setting' = setting /\ elsewhere' = elsewhere /\ archived' = archived
      /\ lastEvent' = lastEvent /\ lastEvent \in NeverDay..today
  BY HealthAssumption DEF DaysPass, HealthInv, HealthTypes
<1>2. RolloutPct' = RolloutPct
  BY <1>1 DEF RolloutPct, _rollout, Max
<1>3. Enabled' = Enabled /\ Cardinality(Enabled)' = Cardinality(Enabled)
  BY <1>1 DEF Enabled
<1>4. EnabledCount' = EnabledCount
  BY <1>1, <1>3 DEF EnabledCount
<1>5. SilentDays \in Int /\ SilentDays' \in Int /\ SilentDays' >= SilentDays
  BY <1>1 DEF SilentDays, NeverDay
<1>6. RolloutDays' >= RolloutDays
  <2>1. CASE RolloutPct >= 100
    <3>1. PICK n \in 0..today : n = Max({setting[e].updated : e \in Enabled})
                                 /\ RolloutDays = today - n
      BY <2>1, DaysShownHold DEF DaysShown
    <3>3. Max({setting[e].updated : e \in Enabled})' = Max({setting[e].updated : e \in Enabled})
      BY <1>1, <1>3 DEF Max
    <3>4. RolloutDays' = today' - n
      BY <2>1, <1>2, <3>1, <3>3 DEF RolloutDays
    <3> QED  BY <3>1, <3>4, <1>1
  <2>2. CASE ~(RolloutPct >= 100)
    BY <2>2, <1>2 DEF RolloutDays
  <2> QED  BY <2>1, <2>2
<1> QED  BY <1>1, <1>2, <1>4, <1>5, <1>6

LEMMA ScoreOfDebt ==
  ASSUME NEW n \in Nat, NEW m \in Nat, n <= m
  PROVE  /\ Min({100, Round(n, Scale)}) \in Int /\ Min({100, Round(m, Scale)}) \in Int
         /\ Min({100, Round(n, Scale)}) <= Min({100, Round(m, Scale)})
<1>1. PICK p, q \in Nat : p = Round(n, Scale) /\ q = Round(m, Scale) /\ p <= q
  BY ScaleRange, RoundGrows
<1>2. /\ Min({100, p}) \in Int /\ Min({100, q}) \in Int
      /\ Min({100, p}) <= Min({100, q})
  <2>1. /\ Min({100, p}) = IF p <= 100 THEN p ELSE 100
        /\ Min({100, q}) = IF q <= 100 THEN q ELSE 100
    BY ScoreRange
  <2> QED  BY <2>1, <1>1
<1> QED  BY <1>1, <1>2

\* Days that pass make a flag STALE and no better.
LEMMA AgeingStep ==
  HealthInv /\ HealthInv' /\ [HealthNext]_healthVars
    => (today' # today => State' \in {State, "STALE"} /\ Score' >= Score)
<1> SUFFICES ASSUME HealthInv, HealthInv', [HealthNext]_healthVars, today' # today
             PROVE  State' \in {State, "STALE"} /\ Score' >= Score
  OBVIOUS
<1>1. PICK d \in Jumps : DaysPass(d)
  BY DEF HealthNext, Switch, FlushTimestamps, ReplaceRules, RecordEvent, healthVars
<1>2. /\ RolloutPct' = RolloutPct /\ EnabledCount' = EnabledCount /\ archived' = archived
      /\ today' >= today /\ RolloutDays' >= RolloutDays
      /\ SilentDays' >= SilentDays /\ (SilentDays >= 14 => SilentDays' >= 14)
  BY <1>1, DaysGrow
<1>3. State' \in {State, "STALE"}
  <2>1. /\ RolloutDays \in Nat /\ RolloutDays' \in Nat /\ stale_days \in Nat
    BY DaysShownHold, DaysShownNext, ScaleRange DEF DaysShown
  <2>2. RolloutDays > stale_days => RolloutDays' > stale_days
    BY <1>2, <2>1
  <2> DEFINE stale == (RolloutPct >= 100 /\ RolloutDays > stale_days) \/ SilentDays >= 14
  <2>3. stale => stale'  BY <1>2, <2>2
  <2>4. (RolloutPct >= 100)' <=> RolloutPct >= 100  BY <1>2
  <2>5. State = IF archived THEN "ARCHIVED" ELSE IF EnabledCount = 0 THEN "DRAFT"
                ELSE IF stale THEN "STALE"
                ELSE IF RolloutPct >= 100 THEN "ROLLED_OUT" ELSE "ACTIVE"
    BY StateShownHolds DEF StateShown
  <2>6. State' = IF archived' THEN "ARCHIVED" ELSE IF EnabledCount' = 0 THEN "DRAFT"
                 ELSE IF stale' THEN "STALE"
                 ELSE IF (RolloutPct >= 100)' THEN "ROLLED_OUT" ELSE "ACTIVE"
    BY StateShownNext DEF StateShown
  <2> HIDE DEF stale
  <2>7. CASE archived  BY <2>7, <1>2, <2>5, <2>6
  <2>8. CASE ~archived /\ EnabledCount = 0  BY <2>8, <1>2, <2>5, <2>6
  <2>9. CASE ~archived /\ EnabledCount # 0 /\ stale'  BY <2>9, <1>2, <2>6
  <2>10. CASE ~archived /\ EnabledCount # 0 /\ ~stale'
    BY <2>10, <1>2, <2>3, <2>4, <2>5, <2>6
  <2> QED  BY <2>7, <2>8, <2>9, <2>10
<1>4. Score' >= Score
  <2>1. PICK a, b, c \in Int, n \in Nat :
          /\ a = today /\ b = RolloutDays /\ c = SilentDays /\ n = Debt(a, b, c)
          /\ Score = Min({100, Round(n, Scale)})
    BY ScoreShownHolds DEF ScoreShown
  <2>2. PICK x, y, z \in Int, m \in Nat :
          /\ x = today' /\ y = RolloutDays' /\ z = SilentDays' /\ m = Debt(x, y, z)
          /\ Score' = Min({100, Round(m, Scale)})
    BY ScoreShownNext DEF ScoreShown
  <2>3. a <= x /\ b <= y /\ c <= z  BY <1>2, <2>1, <2>2
  <2>4. n <= m  BY <2>1, <2>2, <2>3, DebtGrows
  <2>5. /\ Min({100, Round(n, Scale)}) \in Int /\ Min({100, Round(m, Scale)}) \in Int
        /\ Min({100, Round(n, Scale)}) <= Min({100, Round(m, Scale)})
    BY <2>4, ScoreOfDebt
  <2> QED  BY <2>1, <2>2, <2>5
<1> QED  BY <1>3, <1>4

\* Days that pass move a flag to STALE or leave its state, and never lower the score.
THEOREM AgeingOnly == HealthSpec => OnlyAgeing
<1>1. HealthInv /\ HealthInv' /\ [HealthNext]_healthVars
        => [today' # today => State' \in {State, "STALE"} /\ Score' >= Score]_healthVars
  BY AgeingStep
<1> QED  BY <1>1, HealthInvariant, PTL DEF HealthSpec, OnlyAgeing
=============================================================================
