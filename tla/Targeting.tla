----------------------------- MODULE Targeting -----------------------------
(***************************************************************************)
(* Segments of a project and the rules of a flag, edited by overlapping    *)
(* requests: segments are created, changed and deleted, the rules of the   *)
(* flag are replaced as a whole.                                           *)
(*                                                                         *)
(* A request is a transaction of read committed isolation.  What it reads  *)
(* is not locked; its version bump locks the environment until the commit, *)
(* and everything but the DELETE of the old rules is written after that.   *)
(***************************************************************************)
EXTENDS Integers, FiniteSets

CONSTANTS
  Writers,     \* requests that run at the same time
  Keys,        \* keys of segments
  Trees,       \* names of condition trees
  Refs,        \* Refs[t]: the segments t names, <<"key", k>> or <<"id", n>>
  RuleSets,    \* sets of rules clients send, [priority, segment]
  Plain,       \* a tree without references
  FirstSegments, \* segments that are there from the start, with ids 1 and up
  MaxEdits     \* bound on the number of the last request

References == ({"key"} \X Keys) \cup ({"id"} \X Nat)

\* Duplicate priorities are refused before anything is read or written.
ASSUME TargetingAssumption ==
  /\ IsFiniteSet(Writers)
  /\ MaxEdits \in Nat
  /\ Refs \in [Trees -> SUBSET References]
  /\ Plain \in Trees /\ Refs[Plain] = {}
  /\ \A R \in RuleSets :
       /\ R \subseteq [priority : Int, segment : Nat]
       /\ \A r, q \in R : r.priority = q.priority => r = q
  /\ IsFiniteSet(FirstSegments)
  /\ FirstSegments \subseteq [id : 1..Cardinality(FirstSegments), key : Keys, tree : {Plain}]
  /\ \A r, q \in FirstSegments : (r.id = q.id \/ r.key = q.key) => r = q

VARIABLES
  segments,    \* rows of segment: [id, key, tree]
  rules,       \* rows of targeting_rule: [of, priority, segment]
  edit,        \* the requests
  edits,       \* requests so far; a request numbers the rows it writes
  overlapped   \* history: pairs of requests that ran at the same time

targetingVars == <<segments, rules, edit, edits, overlapped>>

NoSegment == 0

\* n: the number of the request; row, loaded: the segment it changes, and what
\* its session has loaded; todo: references still to be checked, each with the
\* names met on the way; rules: the new rules; seen, deleted: the rows its DELETE
\* finds and has locked; alone: history: nobody has committed since it began.
NoEdit(pc) ==
  [pc |-> pc, kind |-> "none", n |-> 0, key |-> "", row |-> NoSegment, tree |-> Plain,
   loaded |-> {}, todo |-> {}, rules |-> {}, seen |-> {}, deleted |-> {}, alone |-> TRUE]

Running == {w \in Writers : edit[w].pc # "idle"}

\* Rules of an earlier request may be there, with segments that are.
TargetingInit ==
  /\ segments = FirstSegments
  /\ \E R \in RuleSets :
       /\ \A r \in R : r.segment \in {NoSegment} \cup {q.id : q \in FirstSegments}
       /\ rules = {[of |-> 0, priority |-> r.priority, segment |-> r.segment] : r \in R}
  /\ edit = [w \in Writers |-> NoEdit("idle")]
  /\ edits = Cardinality(FirstSegments)
  /\ overlapped = {}

\* A request arrives with the first of its reads.
Arrive(w, e) ==
  /\ edit[w].pc = "idle"
  /\ edits < MaxEdits
  /\ edits' = edits + 1
  /\ edit' = [edit EXCEPT ![w] = [e EXCEPT !.n = edits + 1]]
  /\ overlapped' = overlapped \cup {{edits + 1, edit[v].n} : v \in Running}
  /\ UNCHANGED <<segments, rules>>

-----------------------------------------------------------------------------
(* Segments.                                                                *)

\* What a check starts from: the references of the new tree.
Todo(tree, path) == {[ref |-> q, path |-> path] : q \in Refs[tree]}

\* create_segment: the SELECT for a duplicate.
StartCreate(w, k, t) ==
  /\ \A r \in segments : r.key # k
  /\ Arrive(w, [NoEdit("check") EXCEPT
       !.kind = "create", !.key = k, !.tree = t, !.todo = Todo(t, {<<"key", k>>})])

\* update_segment: get_segment.
StartUpdate(w, r, t) ==
  Arrive(w, [NoEdit("check") EXCEPT
    !.kind = "update", !.key = r.key, !.row = r.id, !.tree = t, !.loaded = {r},
    !.todo = Todo(t, {<<"key", r.key>>})])

Named(ref) == {r \in segments : ref = <<"key", r.key>> \/ ref = <<"id", r.id>>}

\* The session keeps the row it has loaded first.
AsLoaded(w, r) == IF \E q \in edit[w].loaded : q.id = r.id
                  THEN {q \in edit[w].loaded : q.id = r.id} ELSE {r}

Refuse(w) ==
  /\ edit' = [edit EXCEPT ![w] = NoEdit("idle")]
  /\ UNCHANGED <<segments, rules, edits, overlapped>>

\* Mutant of Look: the key of the segment on the way is not remembered.
LookForgets(w, e) ==
  /\ edit[w].pc = "check" /\ e \in edit[w].todo
  /\ IF e.ref \in e.path THEN Refuse(w)
     ELSE LET met == UNION {AsLoaded(w, r) : r \in Named(e.ref)} IN
       /\ edit' = [edit EXCEPT
            ![w].loaded = @ \cup met,
            ![w].todo = (@ \ {e}) \cup UNION {Todo(r.tree, {<<"key", r.key>>}) : r \in met}]
       /\ UNCHANGED <<segments, rules, edits, overlapped>>

\* check_cyclic_segment_reference, one SELECT for each reference on each way.
Look(w, e) ==
  /\ edit[w].pc = "check" /\ e \in edit[w].todo
  /\ IF e.ref \in e.path THEN Refuse(w)
     ELSE LET met == UNION {AsLoaded(w, r) : r \in Named(e.ref)} IN
       /\ edit' = [edit EXCEPT
            ![w].loaded = @ \cup met,
            ![w].todo = (@ \ {e}) \cup
               UNION {Todo(r.tree, e.path \cup {e.ref, <<"key", r.key>>}) : r \in met}]
       /\ UNCHANGED <<segments, rules, edits, overlapped>>

\* Nothing is left to look up.
Checked(w) ==
  /\ edit[w].pc = "check" /\ edit[w].todo = {}
  /\ edit' = [edit EXCEPT ![w].pc = "bump"]
  /\ UNCHANGED <<segments, rules, edits, overlapped>>

\* delete_segment: get_segment.
StartDelete(w, r) ==
  Arrive(w, [NoEdit("bump") EXCEPT !.kind = "remove", !.key = r.key, !.row = r.id])

-----------------------------------------------------------------------------
(* Rules.  A row is known by its request and its priority.                  *)

IdsOf(rows) == {<<r.of, r.priority>> : r \in rows}

\* set_targeting_rules_atomic, which checks the segments of the rules.
StartReplace(w, R) ==
  /\ \A r \in R : r.segment # NoSegment => \E q \in segments : q.id = r.segment
  /\ Arrive(w, [NoEdit("delete") EXCEPT !.kind = "rules", !.rules = R])

\* DELETE FROM targeting_rule: the snapshot of the statement.
BeginDelete(w) ==
  /\ edit[w].pc = "delete"
  /\ edit' = [edit EXCEPT ![w].pc = "rows", ![w].seen = IdsOf(rules)]
  /\ UNCHANGED <<segments, rules, edits, overlapped>>

ToDelete(w) == (edit[w].seen \cap IdsOf(rules)) \ edit[w].deleted

LockedBy(w, id) == {v \in Writers \ {w} : id \in edit[v].deleted}

\* Mutant of DeleteRow: rows that are locked are skipped.
DeleteRowSkipLocked(w, id) ==
  /\ edit[w].pc = "rows" /\ id \in ToDelete(w)
  /\ edit' = IF LockedBy(w, id) = {} THEN [edit EXCEPT ![w].deleted = @ \cup {id}]
             ELSE [edit EXCEPT ![w].seen = @ \ {id}]
  /\ UNCHANGED <<segments, rules, edits, overlapped>>

\* It waits for the transaction that has locked the row.
DeleteRow(w, id) ==
  /\ edit[w].pc = "rows" /\ id \in ToDelete(w)
  /\ LockedBy(w, id) = {}
  /\ edit' = [edit EXCEPT ![w].deleted = @ \cup {id}]
  /\ UNCHANGED <<segments, rules, edits, overlapped>>

EndDelete(w) ==
  /\ edit[w].pc = "rows" /\ ToDelete(w) = {}
  /\ edit' = [edit EXCEPT ![w].pc = "bump"]
  /\ UNCHANGED <<segments, rules, edits, overlapped>>

-----------------------------------------------------------------------------
(* The bump and the commit.                                                 *)

Holders(w) == {v \in Writers \ {w} : edit[v].pc = "commit"}

\* bump_ruleset_version: the row of the environment is locked until the commit.
Bump(w) ==
  /\ edit[w].pc = "bump"
  /\ Holders(w) = {}
  /\ edit' = [edit EXCEPT ![w].pc = "commit"]
  /\ UNCHANGED <<segments, rules, edits, overlapped>>

\* Others are no longer alone.
Close(w) ==
  /\ edit' = [v \in Writers |->
       IF v = w THEN NoEdit("idle") ELSE [edit[v] EXCEPT !.alone = FALSE]]
  /\ UNCHANGED <<edits, overlapped>>

Committing(w, kind) == edit[w].pc = "commit" /\ edit[w].kind = kind

\* uq_segment_project_key.
CommitCreate(w) ==
  /\ Committing(w, "create")
  /\ IF \E r \in segments : r.key = edit[w].key THEN Refuse(w)
     ELSE /\ segments' = segments \cup
               {[id |-> edit[w].n, key |-> edit[w].key, tree |-> edit[w].tree]}
          /\ UNCHANGED rules
          /\ Close(w)

SegmentRow(w) == {r \in segments : r.id = edit[w].row}

\* The session writes only what differs from the row it loaded; an UPDATE that
\* finds no row raises.
CommitUpdate(w) ==
  /\ Committing(w, "update")
  /\ LET same == \E q \in edit[w].loaded : q.id = edit[w].row /\ q.tree = edit[w].tree
     IN  IF ~same /\ SegmentRow(w) = {} THEN Refuse(w)
         ELSE /\ segments' = IF same THEN segments
                   ELSE (segments \ SegmentRow(w)) \cup {[r EXCEPT !.tree = edit[w].tree] : r \in SegmentRow(w)}
              /\ UNCHANGED rules
              /\ Close(w)

\* Writers that have locked a rule the foreign key must set to NULL.
ReferenceHolders(w) ==
  {v \in Writers \ {w} : \E r \in rules :
     r.segment = edit[w].row /\ <<r.of, r.priority>> \in edit[v].deleted}

\* Mutant of CommitRemove: the rules keep the segment.
CommitRemoveDangling(w) ==
  /\ Committing(w, "remove")
  /\ segments' = segments \ SegmentRow(w)
  /\ UNCHANGED rules
  /\ Close(w)

\* The DELETE of the segment, and ON DELETE SET NULL.
CommitRemove(w) ==
  /\ Committing(w, "remove")
  /\ ReferenceHolders(w) = {}
  /\ segments' = segments \ SegmentRow(w)
  /\ rules' = {[r EXCEPT !.segment = IF @ = edit[w].row THEN NoSegment ELSE @] : r \in rules}
  /\ Close(w)

\* Writers that have deleted the row of a priority w inserts.
PriorityHolders(w) ==
  {v \in Writers \ {w} : \E id \in edit[v].deleted : \E r \in edit[w].rules : id[2] = r.priority}

Kept(w) == {r \in rules : <<r.of, r.priority>> \notin edit[w].deleted}

\* The inserts of the flush: uq_rule_setting_priority and the foreign key.
CommitRules(w) ==
  /\ Committing(w, "rules")
  /\ PriorityHolders(w) = {}
  /\ IF \/ \E r \in Kept(w), q \in edit[w].rules : r.priority = q.priority
        \/ \E q \in edit[w].rules : q.segment \notin {NoSegment} \cup {r.id : r \in segments}
     THEN Refuse(w)
     ELSE /\ rules' = Kept(w) \cup
               {[of |-> edit[w].n, priority |-> q.priority, segment |-> q.segment] :
                  q \in edit[w].rules}
          /\ UNCHANGED segments
          /\ Close(w)

\* Whom w waits for; nobody if it can go on.
WaitsFor(w) ==
  CASE edit[w].pc = "rows" ->
         IF \E id \in ToDelete(w) : LockedBy(w, id) = {} THEN {}
         ELSE UNION {LockedBy(w, id) : id \in ToDelete(w)}
    [] edit[w].pc = "bump" -> Holders(w)
    [] Committing(w, "remove") -> ReferenceHolders(w)
    [] Committing(w, "rules") -> PriorityHolders(w)
    [] OTHER -> {}

\* Mutant of DetectDeadlock: nobody breaks it.
DetectDeadlockNever(w) == FALSE /\ Refuse(w)

\* PostgreSQL aborts one of the transactions of a deadlock.
DetectDeadlock(w) ==
  /\ \E C \in SUBSET Writers :
       /\ w \in C
       /\ \A v \in C : WaitsFor(v) \cap C # {} /\ \E u \in C : v \in WaitsFor(u)
  /\ Refuse(w)

\* A failed statement, a lost connection or a crash rolls back.
Fail(w) == edit[w].pc # "idle" /\ Refuse(w)

-----------------------------------------------------------------------------

Start(w) ==
  \/ \E k \in Keys, t \in Trees : StartCreate(w, k, t)
  \/ \E r \in segments, t \in Trees : StartUpdate(w, r, t)
  \/ \E r \in segments : StartDelete(w, r)
  \/ \E R \in RuleSets : StartReplace(w, R)

Continue(w) ==
  \/ \E e \in edit[w].todo : Look(w, e)
  \/ Checked(w)
  \/ BeginDelete(w)
  \/ \E id \in ToDelete(w) : DeleteRow(w, id)
  \/ EndDelete(w)
  \/ Bump(w)
  \/ CommitCreate(w) \/ CommitUpdate(w) \/ CommitRemove(w) \/ CommitRules(w)
  \/ DetectDeadlock(w)

TargetingNext == \E w \in Writers : Start(w) \/ Continue(w) \/ Fail(w)

TargetingSpec == TargetingInit /\ [][TargetingNext]_targetingVars

\* A statement that can go on does, and deadlocks are found.
TargetingFair == \A w \in Writers : WF_targetingVars(Continue(w))

-----------------------------------------------------------------------------
(* Properties.                                                              *)

Kinds == {"none", "create", "update", "remove", "rules"}
EditLabels == {"idle", "check", "delete", "rows", "bump", "commit"}

\* Rows and requests; keys of segments, and priorities of rules, are unique.
TargetingTypeOK ==
  /\ \A r \in segments : r.id \in 1..edits /\ r.key \in Keys /\ r.tree \in Trees
  /\ \A r, q \in segments : (r.id = q.id \/ r.key = q.key) => r = q
  /\ \A r \in rules : r.of \in 0..edits /\ r.segment \in {NoSegment} \cup {q.id : q \in segments}
  /\ \A r, q \in rules : r.priority = q.priority => r = q
  /\ \A w \in Writers : edit[w].pc \in EditLabels /\ edit[w].kind \in Kinds /\ edit[w].n \in 0..edits
  /\ edits \in Nat

\* "Atomically replace all targeting rules": the rules of two requests are in
\* force together only if the requests ran at the same time.
RulesOfOneRequest ==
  \A r, q \in rules : r.of = q.of \/ {r.of, q.of} \in overlapped

\* Segments that refer to each other by key.
Cyclic(rows) ==
  \E C \in SUBSET rows : C # {} /\ \A r \in C : \E q \in C : <<"key", q.key>> \in Refs[r.tree]

\* "Detect circular references between segments": a request that nobody has
\* overtaken closes no circle of keys, whatever is missing, deleted or created
\* again; one that was overtaken after its check may.
CyclesNeedOverlap ==
  [][(/\ \A w \in Writers : Committing(w, "create") \/ Committing(w, "update") => edit[w].alone
      /\ ~Cyclic(segments)) => ~Cyclic(segments')]_targetingVars

\* Every request ends: locks are released, and the deadlock of a replacement,
\* which locks the rules before the environment, with the deletion of a segment,
\* which locks them after it, is broken.
EveryEditEnds == \A w \in Writers : edit[w].pc # "idle" ~> edit[w].pc = "idle"
=============================================================================
