------------------------ MODULE ConfigReleasesProofs ------------------------
(***************************************************************************)
(* Proofs about ConfigReleases, for any keys, edits and number of requests. *)
(* Every action is first reduced to what it does to the transaction of its  *)
(* session; the three inductive invariants then follow action by action.    *)
(***************************************************************************)
EXTENDS ConfigReleases, WaitingTheorems, SequenceTheorems, TLAPS

\* InsertRow when the key is free.
Inserts(s, r) ==
  /\ tx[s].pc = "write" /\ ToDelete(s) = {} /\ KeyHeldBy(s, r) = {}
  /\ SameKey(r, (draft \ tx[s].deleted) \cup tx[s].inserted) = {}
  /\ tx' = [tx EXCEPT ![s].inserted = @ \cup {r}]
  /\ UNCHANGED <<draft, releases, current>>

\* The steps of a session, one disjunct for each action.
LEMMA Steps ==
  ASSUME NEW s \in Sessions, Arrive(s) \/ Proceed(s) \/ Fail(s)
  PROVE  \/ \E e \in Edits : StartReplace(s, e)
         \/ StartPublish(s)
         \/ \E r \in releases : StartRollback(s, r)
         \/ ReadMax(s)
         \/ tx[s].pc = "claim" /\ ClaimedBy(s) = {} /\ tx[s].base + 1 \notin Versions /\ Claim(s)
         \/ BeginDelete(s)
         \/ \E r \in ToDelete(s) : DeleteRow(s, r)
         \/ \E r \in ToInsert(s) : Inserts(s, r)
         \/ Commit(s)
         \/ Active(s) /\ Abort(s)
<1>1. Deadlocked(s) => Active(s)
  <2>1. Deadlocked(s) => WaitsFor(s) # {}
    BY DEF Deadlocked
  <2>2. WaitsFor(s) # {} => tx[s].pc \in {"claim", "write"}
    BY DEF WaitsFor
  <2> QED BY <2>1, <2>2 DEF Active, Ended
<1>2. InsertRelease(s) => Active(s)
  BY DEF InsertRelease, Active, Ended
<1>3. \A r : InsertRow(s, r) => Active(s)
  BY DEF InsertRow, Active, Ended
<1> QED BY <1>1, <1>2, <1>3
        DEF Arrive, Proceed, Fail, InsertRelease, InsertRow, Inserts, DetectDeadlock

-----------------------------------------------------------------------------
(* Types.                                                                   *)

LEMMA NoTxType == \A l \in TxLabels : NoTx(l) \in Tx
  BY DEF NoTx, Tx

LEMMA ContentType == ASSUME draft \subseteq Rows PROVE Content(draft) \subseteq Items
  BY DEF Content, Rows, Items

LEMMA RowsOfType ==
  ASSUME NEW s \in Sessions, NEW items \in SUBSET Items
  PROVE  RowsOf(s, items) \subseteq Rows
  BY DEF RowsOf, Rows, Items, Authors

LEMMA MaskedType ==
  ASSUME draft \subseteq Rows, NEW k \in ItemKeys
  PROVE  Masked(k) \in Authors \cup {Mask}
<1>1. Kept(k) \subseteq Authors \cup {Mask}
  BY DEF Kept, Rows
<1>2. CASE Kept(k) = {}
  BY <1>2 DEF Masked
<1>3. CASE Kept(k) # {}
  BY <1>1, <1>3 DEF Masked
<1> QED BY <1>2, <1>3

\* The types hold initially and are kept by every step.
LEMMA TypeStep == ASSUME ReleasesTypeOK, [ReleasesNext]_releaseVars PROVE ReleasesTypeOK'
<1> USE DEF ReleasesTypeOK
<1>1. CASE UNCHANGED releaseVars
  BY <1>1 DEF releaseVars
<1>2. ASSUME NEW s \in Sessions, Arrive(s) \/ Proceed(s) \/ Fail(s)
      PROVE  ReleasesTypeOK'
  <2>0. tx[s] \in Tx
    OBVIOUS
  <2>1. CASE \E e \in Edits : StartReplace(s, e)
    <3>1. PICK e \in Edits : StartReplace(s, e)
      BY <2>1
    <3>2. \A k \in e.masked : k \in ItemKeys /\ Masked(k) \in Authors \cup {Mask}
      BY MaskedType, ReleasesAssumption
    <3> DEFINE new == {[key |-> k, val |-> s] : k \in e.fresh}
                      \cup {[key |-> k, val |-> Masked(k)] : k \in e.masked}
    <3>3. new \subseteq Items
      BY <3>2, ReleasesAssumption DEF Items, Authors
    <3>4. RowsOf(s, new) \in SUBSET Rows
      BY <3>3, RowsOfType
    <3> HIDE DEF new
    <3>5. tx' = [tx EXCEPT ![s].pc = "delete", ![s].items = RowsOf(s, new)]
      BY <3>1 DEF StartReplace, new
    <3>6. [tx[s] EXCEPT !.pc = "delete", !.items = RowsOf(s, new)] \in Tx
      BY <3>4, <2>0 DEF Tx, TxLabels
    <3> QED BY <3>1, <3>5, <3>6 DEF StartReplace
  <2>2. CASE StartPublish(s)
    BY <2>2, <2>0, ContentType DEF StartPublish, Tx, TxLabels
  <2>3. CASE \E r \in releases : StartRollback(s, r)
    <3>1. PICK r \in releases : StartRollback(s, r)
      BY <2>3
    <3>2. r.snap \in SUBSET Items /\ r.version \in Nat
      BY DEF Releases
    <3>3. RowsOf(s, r.snap) \in SUBSET Rows
      BY <3>2, RowsOfType
    <3> QED BY <3>1, <3>2, <3>3, <2>0 DEF StartRollback, Tx, TxLabels
  <2>4. CASE ReadMax(s)
    <3>1. Versions \subseteq Nat
      BY DEF Versions, Releases
    <3>2. PICK v \in Nat : tx' = [tx EXCEPT ![s].pc = "claim", ![s].base = v]
      BY <3>1, <2>4 DEF ReadMax
    <3>3. [tx[s] EXCEPT !.pc = "claim", !.base = v] \in Tx
      BY <2>0 DEF Tx, TxLabels
    <3> QED BY <3>2, <3>3, <2>4 DEF ReadMax
  <2>5. CASE Claim(s)
    <3> DEFINE l == IF tx[s].of = 0 THEN "write" ELSE "delete"
    <3>1. tx[s].base + 1 \in Nat /\ l \in TxLabels
      BY <2>0 DEF Tx, TxLabels
    <3>2. [tx[s] EXCEPT !.claim = tx[s].base + 1, !.pc = l] \in Tx
      BY <3>1, <2>0 DEF Tx
    <3> QED BY <3>2, <2>5 DEF Claim
  <2>6. CASE BeginDelete(s)
    <3>1. Finished \cup {Earlier} \in SUBSET Authors
      BY DEF Finished, Authors
    <3> QED BY <3>1, <2>6, <2>0 DEF BeginDelete, Tx, TxLabels
  <2>7. CASE \E r \in ToDelete(s) : DeleteRow(s, r)
    <3>1. PICK r \in ToDelete(s) : DeleteRow(s, r)
      BY <2>7
    <3>2. r \in Rows
      BY DEF ToDelete
    <3> QED BY <3>1, <3>2, <2>0 DEF DeleteRow, Tx
  <2>8. CASE \E r \in ToInsert(s) : Inserts(s, r)
    <3>1. PICK r \in ToInsert(s) : Inserts(s, r)
      BY <2>8
    <3>2. r \in Rows
      BY <2>0 DEF ToInsert, Tx
    <3> QED BY <3>1, <3>2, <2>0 DEF Inserts, Tx
  <2>9. CASE Commit(s)
    <3>1. [NoTx("done") EXCEPT !.before = tx[s].before] \in Tx
      BY <2>0 DEF NoTx, Tx, TxLabels, Ended
    <3>2. tx' \in [Sessions -> Tx]
      BY <3>1, <2>9 DEF Commit
    <3>3. [version |-> tx[s].claim, snap |-> tx[s].snap, of |-> tx[s].of] \in Releases
      BY <2>0 DEF Tx, Releases
    <3>4. releases' \subseteq Releases /\ current' \in Nat
      BY <3>3, <2>0, <2>9 DEF Commit, Tx
    <3>5. draft' \subseteq Rows
      BY <2>0, <2>9 DEF Commit, Tx
    <3> QED BY <3>2, <3>4, <3>5
  <2>10. CASE Abort(s)
    BY <2>10, NoTxType DEF Abort, TxLabels, Ended
  <2> QED BY <1>2, Steps, <2>1, <2>2, <2>3, <2>4, <2>5, <2>6, <2>7, <2>8, <2>9, <2>10
<1> QED BY <1>1, <1>2 DEF ReleasesNext

LEMMA TypeInit == ReleasesInit => ReleasesTypeOK
<1> SUFFICES ASSUME ReleasesInit PROVE ReleasesTypeOK
  OBVIOUS
<1>1. draft \subseteq Rows
  BY DEF ReleasesInit, Rows, Authors
<1>2. releases \subseteq Releases /\ current \in Nat
  BY <1>1, ContentType DEF ReleasesInit, Releases
<1>3. tx \in [Sessions -> Tx]
  BY NoTxType DEF ReleasesInit, TxLabels
<1> QED BY <1>1, <1>2, <1>3 DEF ReleasesTypeOK

\* ReleasesTypeOK is an invariant of every instance.
THEOREM ReleasesTypeCorrect == ReleasesSpec => []ReleasesTypeOK
  BY TypeInit, TypeStep, PTL DEF ReleasesSpec

-----------------------------------------------------------------------------
(* What the actions do to the transaction of their session.                 *)

Others(s) == \A t \in Sessions : t # s => tx'[t] = tx[t]

LEMMA StartReplaceEffect ==
  ASSUME ReleasesTypeOK, NEW s \in Sessions, NEW e \in Edits, StartReplace(s, e)
  PROVE  /\ tx[s].pc = "idle" /\ Others(s)
         /\ tx'[s].pc = "delete" /\ \A r \in tx'[s].items : r.by = s
         /\ tx'[s].snap = tx[s].snap /\ tx'[s].of = tx[s].of /\ tx'[s].base = tx[s].base
         /\ tx'[s].claim = tx[s].claim /\ tx'[s].seen = tx[s].seen
         /\ tx'[s].deleted = tx[s].deleted /\ tx'[s].inserted = tx[s].inserted
         /\ tx'[s].before = tx[s].before
         /\ UNCHANGED <<draft, releases, current>>
<1> DEFINE new == {[key |-> k, val |-> s] : k \in e.fresh}
                  \cup {[key |-> k, val |-> Masked(k)] : k \in e.masked}
<1>1. \A r \in RowsOf(s, new) : r.by = s
  BY DEF RowsOf
<1> HIDE DEF new
<1>2. tx' = [tx EXCEPT ![s].pc = "delete", ![s].items = RowsOf(s, new)]
  BY DEF StartReplace, new
<1>3. tx[s] \in Tx
  BY DEF ReleasesTypeOK
<1>4. tx'[s] = [tx[s] EXCEPT !.pc = "delete", !.items = RowsOf(s, new)] /\ Others(s)
  BY <1>2 DEF ReleasesTypeOK, Others
<1>5. /\ tx'[s].pc = "delete" /\ \A r \in tx'[s].items : r.by = s
      /\ tx'[s].snap = tx[s].snap /\ tx'[s].of = tx[s].of /\ tx'[s].base = tx[s].base
      /\ tx'[s].claim = tx[s].claim /\ tx'[s].seen = tx[s].seen
      /\ tx'[s].deleted = tx[s].deleted /\ tx'[s].inserted = tx[s].inserted
      /\ tx'[s].before = tx[s].before
  BY <1>1, <1>3, <1>4 DEF Tx
<1>6. tx[s].pc = "idle" /\ UNCHANGED <<draft, releases, current>>
  BY DEF StartReplace, MayArrive
<1> QED BY <1>1, <1>3, <1>4, <1>5, <1>6

LEMMA StartPublishEffect ==
  ASSUME ReleasesTypeOK, NEW s \in Sessions, StartPublish(s)
  PROVE  /\ tx[s].pc = "idle" /\ Others(s)
         /\ tx'[s].pc = "version" /\ tx'[s].snap = Content(draft)
         /\ tx'[s].items = tx[s].items /\ tx'[s].of = tx[s].of /\ tx'[s].base = tx[s].base
         /\ tx'[s].claim = tx[s].claim /\ tx'[s].seen = tx[s].seen
         /\ tx'[s].deleted = tx[s].deleted /\ tx'[s].inserted = tx[s].inserted
         /\ tx'[s].before = tx[s].before
         /\ UNCHANGED <<draft, releases, current>>
<1>1. tx[s] \in Tx
  BY DEF ReleasesTypeOK
<1>2. tx'[s] = [tx[s] EXCEPT !.pc = "version", !.snap = Content(draft)] /\ Others(s)
  BY DEF StartPublish, ReleasesTypeOK, Others
<1>3. /\ tx'[s].pc = "version" /\ tx'[s].snap = Content(draft)
      /\ tx'[s].items = tx[s].items /\ tx'[s].of = tx[s].of /\ tx'[s].base = tx[s].base
      /\ tx'[s].claim = tx[s].claim /\ tx'[s].seen = tx[s].seen
      /\ tx'[s].deleted = tx[s].deleted /\ tx'[s].inserted = tx[s].inserted
      /\ tx'[s].before = tx[s].before
  BY <1>1, <1>2 DEF Tx
<1>4. tx[s].pc = "idle" /\ UNCHANGED <<draft, releases, current>>
  BY DEF StartPublish, MayArrive
<1> QED BY <1>1, <1>2, <1>3, <1>4

LEMMA StartRollbackEffect ==
  ASSUME ReleasesTypeOK, NEW s \in Sessions, NEW r \in releases, StartRollback(s, r)
  PROVE  /\ tx[s].pc = "idle" /\ Others(s)
         /\ tx'[s].pc = "version" /\ tx'[s].snap = r.snap /\ tx'[s].of = r.version
         /\ \A q \in tx'[s].items : q.by = s
         /\ tx'[s].base = tx[s].base /\ tx'[s].claim = tx[s].claim
         /\ tx'[s].seen = tx[s].seen
         /\ tx'[s].deleted = tx[s].deleted /\ tx'[s].inserted = tx[s].inserted
         /\ tx'[s].before = tx[s].before
         /\ UNCHANGED <<draft, releases, current>>
<1>1. tx[s] \in Tx
  BY DEF ReleasesTypeOK
<1>2. \A q \in RowsOf(s, r.snap) : q.by = s
  BY DEF RowsOf
<1>3. /\ tx'[s] = [tx[s] EXCEPT !.pc = "version", !.snap = r.snap, !.of = r.version,
                               !.items = RowsOf(s, r.snap)]
      /\ Others(s)
  BY DEF StartRollback, ReleasesTypeOK, Others
<1>4. /\ tx'[s].pc = "version" /\ tx'[s].snap = r.snap /\ tx'[s].of = r.version
      /\ \A q \in tx'[s].items : q.by = s
      /\ tx'[s].base = tx[s].base /\ tx'[s].claim = tx[s].claim
      /\ tx'[s].seen = tx[s].seen
      /\ tx'[s].deleted = tx[s].deleted /\ tx'[s].inserted = tx[s].inserted
      /\ tx'[s].before = tx[s].before
  BY <1>1, <1>2, <1>3 DEF Tx
<1>5. tx[s].pc = "idle" /\ UNCHANGED <<draft, releases, current>>
  BY DEF StartRollback, MayArrive
<1> QED BY <1>1, <1>2, <1>3, <1>4, <1>5

LEMMA ReadMaxEffect ==
  ASSUME ReleasesTypeOK, NEW s \in Sessions, ReadMax(s)
  PROVE  /\ tx[s].pc = "version" /\ Others(s)
         /\ tx'[s].pc = "claim"
         /\ tx'[s].base \in Versions \cup {0} /\ \A w \in Versions : w <= tx'[s].base
         /\ tx'[s].items = tx[s].items /\ tx'[s].snap = tx[s].snap /\ tx'[s].of = tx[s].of
         /\ tx'[s].claim = tx[s].claim /\ tx'[s].seen = tx[s].seen
         /\ tx'[s].deleted = tx[s].deleted /\ tx'[s].inserted = tx[s].inserted
         /\ tx'[s].before = tx[s].before
         /\ UNCHANGED <<draft, releases, current>>
<1>1. tx[s] \in Tx
  BY DEF ReleasesTypeOK
<1>2. PICK v \in Versions \cup {0} :
         /\ \A w \in Versions : w <= v
         /\ tx' = [tx EXCEPT ![s].pc = "claim", ![s].base = v]
  BY DEF ReadMax
<1>3. tx'[s] = [tx[s] EXCEPT !.pc = "claim", !.base = v] /\ Others(s)
  BY <1>2 DEF ReleasesTypeOK, Others
<1>4. /\ tx'[s].pc = "claim" /\ tx'[s].base = v
      /\ tx'[s].items = tx[s].items /\ tx'[s].snap = tx[s].snap /\ tx'[s].of = tx[s].of
      /\ tx'[s].claim = tx[s].claim /\ tx'[s].seen = tx[s].seen
      /\ tx'[s].deleted = tx[s].deleted /\ tx'[s].inserted = tx[s].inserted
      /\ tx'[s].before = tx[s].before
  BY <1>1, <1>3 DEF Tx
<1>5. tx[s].pc = "version" /\ UNCHANGED <<draft, releases, current>>
  BY DEF ReadMax
<1> QED BY <1>1, <1>2, <1>3, <1>4, <1>5

LEMMA ClaimEffect ==
  ASSUME ReleasesTypeOK, NEW s \in Sessions, Claim(s)
  PROVE  /\ Others(s)
         /\ tx'[s].pc = IF tx[s].of = 0 THEN "write" ELSE "delete"
         /\ tx'[s].claim = tx[s].base + 1
         /\ tx'[s].items = tx[s].items /\ tx'[s].snap = tx[s].snap /\ tx'[s].of = tx[s].of
         /\ tx'[s].base = tx[s].base /\ tx'[s].seen = tx[s].seen
         /\ tx'[s].deleted = tx[s].deleted /\ tx'[s].inserted = tx[s].inserted
         /\ tx'[s].before = tx[s].before
         /\ UNCHANGED <<draft, releases, current>>
<1>1. tx[s] \in Tx
  BY DEF ReleasesTypeOK
<1> DEFINE l == IF tx[s].of = 0 THEN "write" ELSE "delete"
<1>2. tx'[s] = [tx[s] EXCEPT !.claim = tx[s].base + 1, !.pc = l] /\ Others(s)
  BY DEF Claim, ReleasesTypeOK, Others
<1> HIDE DEF l
<1>3. tx'[s].pc = l /\ tx'[s].claim = tx[s].base + 1
      /\ tx'[s].items = tx[s].items /\ tx'[s].snap = tx[s].snap /\ tx'[s].of = tx[s].of
      /\ tx'[s].base = tx[s].base /\ tx'[s].seen = tx[s].seen
      /\ tx'[s].deleted = tx[s].deleted /\ tx'[s].inserted = tx[s].inserted
      /\ tx'[s].before = tx[s].before
  BY <1>1, <1>2 DEF Tx
<1> QED BY <1>2, <1>3 DEF Claim, l

LEMMA BeginDeleteEffect ==
  ASSUME ReleasesTypeOK, NEW s \in Sessions, BeginDelete(s)
  PROVE  /\ tx[s].pc = "delete" /\ Others(s)
         /\ tx'[s].pc = "write" /\ tx'[s].seen = draft
         /\ tx'[s].before = Finished \cup {Earlier}
         /\ tx'[s].items = tx[s].items /\ tx'[s].snap = tx[s].snap /\ tx'[s].of = tx[s].of
         /\ tx'[s].base = tx[s].base /\ tx'[s].claim = tx[s].claim
         /\ tx'[s].deleted = tx[s].deleted /\ tx'[s].inserted = tx[s].inserted
         /\ UNCHANGED <<draft, releases, current>>
<1>1. tx[s] \in Tx
  BY DEF ReleasesTypeOK
<1>2. /\ tx'[s] = [tx[s] EXCEPT !.pc = "write", !.seen = draft,
                               !.before = Finished \cup {Earlier}]
      /\ Others(s)
  BY DEF BeginDelete, ReleasesTypeOK, Others
<1>3. /\ tx'[s].pc = "write" /\ tx'[s].seen = draft
      /\ tx'[s].before = Finished \cup {Earlier}
      /\ tx'[s].items = tx[s].items /\ tx'[s].snap = tx[s].snap /\ tx'[s].of = tx[s].of
      /\ tx'[s].base = tx[s].base /\ tx'[s].claim = tx[s].claim
      /\ tx'[s].deleted = tx[s].deleted /\ tx'[s].inserted = tx[s].inserted
  BY <1>1, <1>2 DEF Tx
<1>4. tx[s].pc = "delete" /\ UNCHANGED <<draft, releases, current>>
  BY DEF BeginDelete
<1> QED BY <1>1, <1>2, <1>3, <1>4

LEMMA DeleteRowEffect ==
  ASSUME ReleasesTypeOK, NEW s \in Sessions, NEW r \in ToDelete(s), DeleteRow(s, r)
  PROVE  /\ tx[s].pc = "write" /\ Others(s)
         /\ tx'[s].deleted = tx[s].deleted \cup {r}
         /\ tx'[s].pc = tx[s].pc /\ tx'[s].items = tx[s].items
         /\ tx'[s].snap = tx[s].snap /\ tx'[s].of = tx[s].of /\ tx'[s].base = tx[s].base
         /\ tx'[s].claim = tx[s].claim /\ tx'[s].seen = tx[s].seen
         /\ tx'[s].inserted = tx[s].inserted /\ tx'[s].before = tx[s].before
         /\ UNCHANGED <<draft, releases, current>>
<1>1. tx[s] \in Tx
  BY DEF ReleasesTypeOK
<1>2. tx'[s] = [tx[s] EXCEPT !.deleted = tx[s].deleted \cup {r}] /\ Others(s)
  BY DEF DeleteRow, ReleasesTypeOK, Others
<1>3. /\ tx'[s].deleted = tx[s].deleted \cup {r}
      /\ tx'[s].pc = tx[s].pc /\ tx'[s].items = tx[s].items
      /\ tx'[s].snap = tx[s].snap /\ tx'[s].of = tx[s].of /\ tx'[s].base = tx[s].base
      /\ tx'[s].claim = tx[s].claim /\ tx'[s].seen = tx[s].seen
      /\ tx'[s].inserted = tx[s].inserted /\ tx'[s].before = tx[s].before
  BY <1>1, <1>2 DEF Tx
<1>4. tx[s].pc = "write" /\ UNCHANGED <<draft, releases, current>>
  BY DEF DeleteRow
<1> QED BY <1>1, <1>2, <1>3, <1>4

LEMMA InsertRowEffect ==
  ASSUME ReleasesTypeOK, NEW s \in Sessions, NEW r \in ToInsert(s), Inserts(s, r)
  PROVE  /\ tx[s].pc = "write" /\ Others(s)
         /\ tx'[s].inserted = tx[s].inserted \cup {r}
         /\ tx'[s].pc = tx[s].pc /\ tx'[s].items = tx[s].items
         /\ tx'[s].snap = tx[s].snap /\ tx'[s].of = tx[s].of /\ tx'[s].base = tx[s].base
         /\ tx'[s].claim = tx[s].claim /\ tx'[s].seen = tx[s].seen
         /\ tx'[s].deleted = tx[s].deleted /\ tx'[s].before = tx[s].before
         /\ UNCHANGED <<draft, releases, current>>
<1>1. tx[s] \in Tx
  BY DEF ReleasesTypeOK
<1>2. tx'[s] = [tx[s] EXCEPT !.inserted = tx[s].inserted \cup {r}] /\ Others(s)
  BY DEF Inserts, ReleasesTypeOK, Others
<1>3. /\ tx'[s].inserted = tx[s].inserted \cup {r}
      /\ tx'[s].pc = tx[s].pc /\ tx'[s].items = tx[s].items
      /\ tx'[s].snap = tx[s].snap /\ tx'[s].of = tx[s].of /\ tx'[s].base = tx[s].base
      /\ tx'[s].claim = tx[s].claim /\ tx'[s].seen = tx[s].seen
      /\ tx'[s].deleted = tx[s].deleted /\ tx'[s].before = tx[s].before
  BY <1>1, <1>2 DEF Tx
<1>4. tx[s].pc = "write" /\ UNCHANGED <<draft, releases, current>>
  BY DEF Inserts
<1> QED BY <1>1, <1>2, <1>3, <1>4

LEMMA CommitEffect ==
  ASSUME ReleasesTypeOK, NEW s \in Sessions, Commit(s)
  PROVE  /\ tx[s].pc = "write" /\ Others(s)
         /\ tx'[s].pc = "done" /\ tx'[s].before = tx[s].before
         /\ tx'[s].items = {} /\ tx'[s].snap = {} /\ tx'[s].of = 0 /\ tx'[s].base = 0
         /\ tx'[s].claim = 0 /\ tx'[s].deleted = {} /\ tx'[s].inserted = {}
<1>1. tx'[s] = [NoTx("done") EXCEPT !.before = tx[s].before] /\ Others(s)
  BY DEF Commit, ReleasesTypeOK, Others
<1> QED BY <1>1 DEF Commit, NoTx

LEMMA AbortEffect ==
  ASSUME ReleasesTypeOK, NEW s \in Sessions, Abort(s)
  PROVE  /\ Others(s)
         /\ tx'[s].pc = "failed" /\ tx'[s].before = {}
         /\ tx'[s].items = {} /\ tx'[s].snap = {} /\ tx'[s].of = 0 /\ tx'[s].base = 0
         /\ tx'[s].claim = 0 /\ tx'[s].deleted = {} /\ tx'[s].inserted = {}
         /\ UNCHANGED <<draft, releases, current>>
<1>1. tx'[s] = NoTx("failed") /\ Others(s)
  BY DEF Abort, ReleasesTypeOK, Others
<1> QED BY <1>1 DEF Abort, NoTx

-----------------------------------------------------------------------------
(* Versions.                                                                *)

\* A step of s that commits no release keeps VersionsInv if s itself does.
LEMMA VersionsFrame ==
  ASSUME VersionsInv, NEW s \in Sessions, Others(s), UNCHANGED <<releases, current>>,
         tx'[s].claim # 0 =>
           /\ tx'[s].claim = current + 1 /\ tx'[s].pc \in {"delete", "write"}
           /\ \A t \in Sessions \ {s} : tx[t].claim = 0,
         tx'[s].pc = "claim" => tx'[s].base <= current,
         tx'[s].pc = "idle" => tx'[s].of = 0,
         tx'[s].of # 0 => \E r \in releases : r.version = tx'[s].of /\ r.snap = tx'[s].snap
  PROVE  VersionsInv'
<1>1. Versions' = Versions
  BY DEF Versions
<1>2. ASSUME NEW t \in Sessions
      PROVE  /\ tx'[t].pc = "claim" => tx'[t].base <= current
             /\ tx'[t].claim # 0 =>
                  tx'[t].claim = current + 1 /\ tx'[t].pc \in {"delete", "write"}
             /\ \A u \in Sessions : tx'[t].claim # 0 /\ tx'[u].claim # 0 => t = u
             /\ tx'[t].pc = "idle" => tx'[t].of = 0
             /\ tx'[t].of # 0 =>
                  \E r \in releases : r.version = tx'[t].of /\ r.snap = tx'[t].snap
  <2>1. CASE t = s
    BY <2>1 DEF VersionsInv, Others
  <2>2. CASE t # s
    BY <2>2 DEF VersionsInv, Others
  <2> QED BY <2>1, <2>2
<1> QED BY <1>1, <1>2 DEF VersionsInv

\* The release that a commit adds has the next version, which nobody else holds.
LEMMA VersionsCommit ==
  ASSUME ReleasesTypeOK, VersionsInv, NEW s \in Sessions, Commit(s), tx[s].claim # 0
  PROVE  VersionsInv'
<1> DEFINE new == [version |-> tx[s].claim, snap |-> tx[s].snap, of |-> tx[s].of]
<1>1. new.version = current + 1 /\ current \in Nat
  BY DEF VersionsInv, ReleasesTypeOK
<1>2. releases' = releases \cup {new} /\ current' = current + 1
  BY DEF Commit, VersionsInv
<1> HIDE DEF new
<1>3. Versions' = 1..current'
  <2>1. Versions' = Versions \cup {new.version}
    BY <1>2 DEF Versions
  <2> QED BY <2>1, <1>1, <1>2 DEF VersionsInv
<1>4. \A r \in releases : r.version \in 1..current
  BY DEF VersionsInv, Versions
<1>5. \A r, q \in releases' : r.version = q.version => r = q
  <2>1. \A r \in releases : r.version # new.version
    BY <1>1, <1>4
  <2> QED BY <2>1, <1>2 DEF VersionsInv
<1>6. /\ Others(s) /\ tx'[s].claim = 0 /\ tx'[s].pc = "done" /\ tx'[s].of = 0
  BY CommitEffect
<1>7. ASSUME NEW t \in Sessions
      PROVE  /\ tx'[t].pc = "claim" => tx'[t].base <= current'
             /\ tx'[t].claim = 0
             /\ tx'[t].pc = "idle" => tx'[t].of = 0
             /\ tx'[t].of # 0 =>
                  \E r \in releases' : r.version = tx'[t].of /\ r.snap = tx'[t].snap
  <2>1. CASE t = s
    BY <2>1, <1>6
  <2>2. CASE t # s
    <3>1. tx'[t] = tx[t]
      BY <2>2, <1>6 DEF Others
    <3>2. tx[t].base \in Nat
      BY DEF ReleasesTypeOK, Tx
    <3>3. tx[t].claim = 0
      BY <2>2 DEF VersionsInv
    <3>4. tx'[t].pc = "claim" => tx'[t].base <= current'
      BY <3>1, <3>2, <1>1, <1>2 DEF VersionsInv
    <3> QED BY <3>1, <3>3, <3>4, <1>2 DEF VersionsInv
  <2> QED BY <2>1, <2>2
<1> QED BY <1>3, <1>5, <1>7 DEF VersionsInv

LEMMA VersionsStep == ASSUME ReleasesTypeOK, VersionsInv, [ReleasesNext]_releaseVars PROVE VersionsInv'
<1>1. CASE UNCHANGED releaseVars
  BY <1>1 DEF releaseVars, VersionsInv, Versions
<1>2. ASSUME NEW s \in Sessions, Arrive(s) \/ Proceed(s) \/ Fail(s)
      PROVE  VersionsInv'
  <2>0. /\ tx[s].claim # 0 =>
             /\ tx[s].claim = current + 1 /\ tx[s].pc \in {"delete", "write"}
             /\ \A t \in Sessions \ {s} : tx[t].claim = 0
        /\ tx[s].pc = "claim" => tx[s].base <= current
        /\ tx[s].pc = "idle" => tx[s].of = 0
        /\ tx[s].of # 0 => \E r \in releases : r.version = tx[s].of /\ r.snap = tx[s].snap
    BY DEF VersionsInv
  <2>1. CASE \E e \in Edits : StartReplace(s, e)
    <3>1. PICK e \in Edits : StartReplace(s, e)
      BY <2>1
    <3> QED BY <3>1, <2>0, StartReplaceEffect, VersionsFrame
  <2>2. CASE StartPublish(s)
    BY <2>2, <2>0, StartPublishEffect, VersionsFrame
  <2>3. CASE \E r \in releases : StartRollback(s, r)
    <3>1. PICK r \in releases : StartRollback(s, r)
      BY <2>3
    <3> QED BY <3>1, <2>0, StartRollbackEffect, VersionsFrame
  <2>4. CASE ReadMax(s)
    <3>1. tx'[s].base <= current
      BY <2>4, ReadMaxEffect DEF VersionsInv, ReleasesTypeOK
    <3> QED BY <3>1, <2>4, <2>0, ReadMaxEffect, VersionsFrame
  <2>5. CASE tx[s].pc = "claim" /\ ClaimedBy(s) = {} /\ tx[s].base + 1 \notin Versions /\ Claim(s)
    <3>1. tx[s].base = current
      <4>1. tx[s].base \in Nat /\ current \in Nat
        BY DEF ReleasesTypeOK, Tx
      <4>2. tx[s].base <= current
        BY <2>5, <2>0
      <4> QED BY <4>1, <4>2, <2>5 DEF VersionsInv
    <3>2. \A t \in Sessions \ {s} : tx[t].claim = 0
      BY <3>1, <2>5 DEF ClaimedBy, VersionsInv
    <3> QED BY <3>1, <3>2, <2>5, <2>0, ClaimEffect, VersionsFrame
  <2>6. CASE BeginDelete(s)
    BY <2>6, <2>0, BeginDeleteEffect, VersionsFrame
  <2>7. CASE \E r \in ToDelete(s) : DeleteRow(s, r)
    <3>1. PICK r \in ToDelete(s) : DeleteRow(s, r)
      BY <2>7
    <3> QED BY <3>1, <2>0, DeleteRowEffect, VersionsFrame
  <2>8. CASE \E r \in ToInsert(s) : Inserts(s, r)
    <3>1. PICK r \in ToInsert(s) : Inserts(s, r)
      BY <2>8
    <3> QED BY <3>1, <2>0, InsertRowEffect, VersionsFrame
  <2>9. CASE Commit(s)
    <3>1. CASE tx[s].claim = 0
      <4>1. UNCHANGED <<releases, current>>
        BY <3>1, <2>9 DEF Commit
      <4> QED BY <4>1, <2>9, CommitEffect, VersionsFrame
    <3>2. CASE tx[s].claim # 0
      BY <3>2, <2>9, VersionsCommit
    <3> QED BY <3>1, <3>2
  <2>10. CASE Abort(s)
    BY <2>10, AbortEffect, VersionsFrame
  <2> QED BY <1>2, Steps, <2>1, <2>2, <2>3, <2>4, <2>5, <2>6, <2>7, <2>8, <2>9, <2>10
<1> QED BY <1>1, <1>2 DEF ReleasesNext

LEMMA VersionsInit == ReleasesInit => VersionsInv
<1> SUFFICES ASSUME ReleasesInit PROVE VersionsInv
  OBVIOUS
<1>1. \A s \in Sessions : tx[s] = NoTx("idle")
  BY DEF ReleasesInit
<1>2. \A s \in Sessions : tx[s].pc = "idle" /\ tx[s].claim = 0 /\ tx[s].of = 0
  BY <1>1 DEF NoTx
<1>3. (\A r, q \in releases : r.version = q.version => r = q) /\ Versions = 1..current
  <2>1. CASE releases = {} /\ current = 0
    BY <2>1 DEF Versions
  <2>2. CASE releases = {[version |-> 1, snap |-> Content(draft), of |-> 0]} /\ current = 1
    <3>1. Versions = {1}
      BY <2>2 DEF Versions
    <3> QED BY <2>2, <3>1
  <2> QED BY <2>1, <2>2 DEF ReleasesInit
<1> QED BY <1>2, <1>3 DEF VersionsInv

LEMMA VersionsAlways == ReleasesSpec => [](ReleasesTypeOK /\ VersionsInv)
<1>1. ReleasesInit => ReleasesTypeOK /\ VersionsInv
  BY TypeInit, VersionsInit
<1>2. ReleasesTypeOK /\ VersionsInv /\ [ReleasesNext]_releaseVars => (ReleasesTypeOK /\ VersionsInv)'
  BY TypeStep, VersionsStep
<1> QED BY <1>1, <1>2, PTL DEF ReleasesSpec

\* max(version) + 1 without a lock is safe: the current release is the newest,
\* and no version is given twice.
THEOREM CurrentIsTheLatest == ReleasesSpec => []CurrentIsLatest
<1>1. ReleasesTypeOK /\ VersionsInv => CurrentIsLatest
  <2> SUFFICES ASSUME ReleasesTypeOK, VersionsInv PROVE CurrentIsLatest
    OBVIOUS
  <2>1. \A r \in releases : r.version \in Versions
    BY DEF Versions
  <2>2. current \in Nat /\ Versions = 1..current
    BY DEF ReleasesTypeOK, VersionsInv
  <2> QED BY <2>1, <2>2 DEF CurrentIsLatest, VersionsInv
<1> QED BY <1>1, VersionsAlways, PTL

-----------------------------------------------------------------------------
(* Rows.                                                                    *)

\* RowsInv follows from what concerns the session s of the step.
LEMMA RowsFrame ==
  ASSUME RowsInv, NEW s \in Sessions, Others(s),
         UniqueKeys(draft'), \A r \in releases' : UniqueKeys(r.snap),
         InFlight(s)', \A t \in Sessions \ {s} : Apart(s, t)' /\ Apart(t, s)',
         \A t \in Sessions \ {s} : InFlight(t)'
  PROVE  RowsInv'
<1>1. ASSUME NEW t \in Sessions \ {s}, NEW u \in Sessions \ {s}, t # u
      PROVE  Apart(t, u)'
  BY <1>1 DEF RowsInv, Apart, Others
<1> QED BY <1>1 DEF RowsInv

\* A step of s that neither commits nor adds to what s has deleted or inserted.
LEMMA RowsQuiet ==
  ASSUME RowsInv, NEW s \in Sessions, Others(s), UNCHANGED <<draft, releases>>,
         UniqueKeys(tx'[s].snap),
         \/ tx'[s].deleted = {} /\ tx'[s].inserted = {}
         \/ /\ tx'[s].deleted = tx[s].deleted /\ tx'[s].inserted = tx[s].inserted
            /\ tx'[s].pc = "write"
  PROVE  RowsInv'
<1>1. InFlight(s)'
  BY DEF RowsInv, InFlight, UniqueKeys
<1>2. \A t \in Sessions \ {s} : Apart(s, t)' /\ Apart(t, s)'
  BY DEF RowsInv, Apart, Others
<1>3. \A t \in Sessions \ {s} : InFlight(t)'
  BY DEF RowsInv, InFlight, Others
<1>4. UniqueKeys(draft') /\ \A r \in releases' : UniqueKeys(r.snap)
  BY DEF RowsInv
<1> QED BY <1>1, <1>2, <1>3, <1>4, RowsFrame

\* A row the DELETE locks has a key that no other transaction has inserted.
LEMMA RowsDelete ==
  ASSUME ReleasesTypeOK, RowsInv, NEW s \in Sessions, NEW r \in ToDelete(s), DeleteRow(s, r)
  PROVE  RowsInv'
<1>1. /\ tx[s].pc = "write" /\ Others(s) /\ tx'[s].deleted = tx[s].deleted \cup {r}
      /\ tx'[s].pc = tx[s].pc /\ tx'[s].snap = tx[s].snap
      /\ tx'[s].inserted = tx[s].inserted /\ UNCHANGED <<draft, releases>>
  BY DeleteRowEffect
<1>2. r \in draft /\ \A t \in Sessions \ {s} : r \notin tx[t].deleted
  BY DEF ToDelete, DeleteRow, LockedBy
<1>3. InFlight(s)'
  BY <1>1, <1>2 DEF RowsInv, InFlight, UniqueKeys
<1>4. ASSUME NEW t \in Sessions \ {s} PROVE Apart(s, t)' /\ Apart(t, s)' /\ InFlight(t)'
  <2>1. tx'[t] = tx[t]
    BY <1>1 DEF Others
  <2>2. \A q \in tx[t].inserted : q.key # r.key
    BY <1>2 DEF RowsInv, InFlight
  <2>3. Apart(s, t)' /\ Apart(t, s)'
    BY <2>1, <2>2, <1>1, <1>2 DEF RowsInv, Apart
  <2> QED BY <2>1, <2>3, <1>1 DEF RowsInv, InFlight
<1>5. UniqueKeys(draft') /\ \A q \in releases' : UniqueKeys(q.snap)
  BY <1>1 DEF RowsInv
<1> QED BY <1>1, <1>3, <1>4, <1>5, RowsFrame

\* A row is inserted once nobody holds its key.
LEMMA RowsInsert ==
  ASSUME ReleasesTypeOK, RowsInv, NEW s \in Sessions, NEW r \in ToInsert(s), Inserts(s, r)
  PROVE  RowsInv'
<1>1. /\ tx[s].pc = "write" /\ Others(s) /\ tx'[s].inserted = tx[s].inserted \cup {r}
      /\ tx'[s].pc = tx[s].pc /\ tx'[s].snap = tx[s].snap
      /\ tx'[s].deleted = tx[s].deleted /\ UNCHANGED <<draft, releases>>
  BY InsertRowEffect
<1>2. \A t \in Sessions \ {s} : \A q \in tx[t].inserted \cup tx[t].deleted : q.key # r.key
  BY DEF Inserts, KeyHeldBy, SameKey
<1>3. \A q \in (draft \ tx[s].deleted) \cup tx[s].inserted : q.key # r.key
  BY DEF Inserts, SameKey
<1>4. InFlight(s)'
  BY <1>1, <1>3 DEF RowsInv, InFlight, UniqueKeys
<1>5. ASSUME NEW t \in Sessions \ {s} PROVE Apart(s, t)' /\ Apart(t, s)' /\ InFlight(t)'
  <2>1. tx'[t] = tx[t]
    BY <1>1 DEF Others
  <2>2. Apart(s, t)' /\ Apart(t, s)'
    <3>1. Apart(s, t) /\ Apart(t, s)
      BY DEF RowsInv
    <3>2. \A q \in tx[s].deleted : q \in draft
      BY DEF RowsInv, InFlight
    <3> QED BY <3>1, <3>2, <2>1, <1>1, <1>2 DEF Apart
  <2> QED BY <2>1, <2>2, <1>1 DEF RowsInv, InFlight
<1>6. UniqueKeys(draft') /\ \A q \in releases' : UniqueKeys(q.snap)
  BY <1>1 DEF RowsInv
<1> QED BY <1>1, <1>4, <1>5, <1>6, RowsFrame

\* The rows a commit adds share no key with those that stay, nor with those
\* other transactions are about to add.
LEMMA RowsCommit ==
  ASSUME ReleasesTypeOK, RowsInv, NEW s \in Sessions, Commit(s)
  PROVE  RowsInv'
<1>1. /\ Others(s) /\ tx'[s].pc = "done" /\ tx'[s].snap = {}
      /\ tx'[s].deleted = {} /\ tx'[s].inserted = {}
  BY CommitEffect
<1>2. draft' = (draft \ tx[s].deleted) \cup tx[s].inserted
  BY DEF Commit
<1>3. InFlight(s)
  BY DEF RowsInv
<1>4. UniqueKeys(draft')
  BY <1>2, <1>3 DEF RowsInv, InFlight, UniqueKeys
<1>5. \A r \in releases' : UniqueKeys(r.snap)
  <2>1. \A r \in releases' : r \in releases \/ r.snap = tx[s].snap
    BY DEF Commit
  <2> QED BY <2>1, <1>3 DEF RowsInv, InFlight
<1>6. InFlight(s)'
  BY <1>1 DEF InFlight, UniqueKeys
<1>7. ASSUME NEW t \in Sessions \ {s} PROVE Apart(s, t)' /\ Apart(t, s)' /\ InFlight(t)'
  <2>1. tx'[t] = tx[t]
    BY <1>1 DEF Others
  <2>2. InFlight(t) /\ Apart(s, t) /\ Apart(t, s)
    BY DEF RowsInv
  <2>3. Apart(s, t)' /\ Apart(t, s)'
    BY <1>1, <2>1 DEF Apart
  <2>4. tx[t].deleted \subseteq draft'
    BY <2>2, <1>2 DEF InFlight, Apart
  <2>5. \A r \in tx[t].inserted : \A q \in draft' \ tx[t].deleted : r.key # q.key
    BY <2>2, <1>2 DEF InFlight, Apart
  <2> QED BY <2>1, <2>2, <2>3, <2>4, <2>5 DEF InFlight
<1> QED BY <1>1, <1>4, <1>5, <1>6, <1>7, RowsFrame

LEMMA RowsStep == ASSUME ReleasesTypeOK, RowsInv, [ReleasesNext]_releaseVars PROVE RowsInv'
<1>1. CASE UNCHANGED releaseVars
  BY <1>1 DEF releaseVars, RowsInv, InFlight, Apart
<1>2. ASSUME NEW s \in Sessions, Arrive(s) \/ Proceed(s) \/ Fail(s)
      PROVE  RowsInv'
  <2>0. /\ UniqueKeys(tx[s].snap)
        /\ tx[s].pc # "write" => tx[s].deleted = {} /\ tx[s].inserted = {}
    BY DEF RowsInv, InFlight
  <2>1. CASE \E e \in Edits : StartReplace(s, e)
    <3>1. PICK e \in Edits : StartReplace(s, e)
      BY <2>1
    <3> QED BY <3>1, <2>0, StartReplaceEffect, RowsQuiet
  <2>2. CASE StartPublish(s)
    <3>1. UniqueKeys(Content(draft))
      BY DEF RowsInv, UniqueKeys, Content
    <3> QED BY <3>1, <2>2, <2>0, StartPublishEffect, RowsQuiet
  <2>3. CASE \E r \in releases : StartRollback(s, r)
    <3>1. PICK r \in releases : StartRollback(s, r)
      BY <2>3
    <3>2. UniqueKeys(r.snap)
      BY DEF RowsInv
    <3> QED BY <3>1, <3>2, <2>0, StartRollbackEffect, RowsQuiet
  <2>4. CASE ReadMax(s)
    BY <2>4, <2>0, ReadMaxEffect, RowsQuiet
  <2>5. CASE tx[s].pc = "claim" /\ Claim(s)
    BY <2>5, <2>0, ClaimEffect, RowsQuiet
  <2>6. CASE BeginDelete(s)
    BY <2>6, <2>0, BeginDeleteEffect, RowsQuiet
  <2>7. CASE \E r \in ToDelete(s) : DeleteRow(s, r)
    BY <2>7, RowsDelete
  <2>8. CASE \E r \in ToInsert(s) : Inserts(s, r)
    BY <2>8, RowsInsert
  <2>9. CASE Commit(s)
    BY <2>9, RowsCommit
  <2>10. CASE Abort(s)
    <3>1. UniqueKeys({})
      BY DEF UniqueKeys
    <3> QED BY <3>1, <2>10, AbortEffect, RowsQuiet
  <2> QED BY <1>2, Steps, <2>1, <2>2, <2>3, <2>4, <2>5, <2>6, <2>7, <2>8, <2>9, <2>10
<1> QED BY <1>1, <1>2 DEF ReleasesNext

LEMMA RowsInit == ReleasesInit => RowsInv
<1> SUFFICES ASSUME ReleasesInit PROVE RowsInv
  OBVIOUS
<1>1. \A s \in Sessions : tx[s] = NoTx("idle")
  BY DEF ReleasesInit
<1>2. \A s \in Sessions :
        tx[s].pc = "idle" /\ tx[s].snap = {} /\ tx[s].deleted = {} /\ tx[s].inserted = {}
  BY <1>1 DEF NoTx
<1>3. \A s \in Sessions : InFlight(s) /\ \A t \in Sessions \ {s} : Apart(s, t)
  BY <1>2 DEF InFlight, Apart, UniqueKeys
<1>4. UniqueKeys(draft)
  BY DEF ReleasesInit, UniqueKeys
<1>5. UniqueKeys(Content(draft))
  BY <1>4 DEF UniqueKeys, Content
<1>6. \A r \in releases : UniqueKeys(r.snap)
  BY <1>5 DEF ReleasesInit
<1> QED BY <1>3, <1>4, <1>6 DEF RowsInv

LEMMA RowsAlways == ReleasesSpec => [](ReleasesTypeOK /\ RowsInv)
<1>1. ReleasesInit => ReleasesTypeOK /\ RowsInv
  BY TypeInit, RowsInit
<1>2. ReleasesTypeOK /\ RowsInv /\ [ReleasesNext]_releaseVars => (ReleasesTypeOK /\ RowsInv)'
  BY TypeStep, RowsStep
<1> QED BY <1>1, <1>2, PTL DEF ReleasesSpec

\* No interleaving of replacements and rollbacks leaves a key twice in the draft
\* or in a release.
THEOREM OneItemForEveryKey == ReleasesSpec => []OneItemPerKey
<1>1. RowsInv => OneItemPerKey
  BY DEF RowsInv, OneItemPerKey
<1> QED BY <1>1, RowsAlways, PTL

-----------------------------------------------------------------------------
(* History.                                                                 *)

\* A step of s that does not commit concerns the history of s alone.
LEMMA HistoryFrame ==
  ASSUME HistoryInv, NEW s \in Sessions, Others(s), UNCHANGED draft,
         tx[s].pc # "done", HistoryOf(s)'
  PROVE  HistoryInv'
<1>1. Finished \subseteq Finished'
  BY DEF Finished, Others
<1>2. ASSUME NEW t \in Sessions, t # s PROVE HistoryOf(t)'
  <2>1. tx'[t] = tx[t] /\ HistoryOf(t)
    BY <1>2 DEF Others, HistoryInv
  <2> QED BY <2>1, <1>1 DEF HistoryOf
<1> QED BY <1>2 DEF HistoryInv

\* A step of s before its DELETE, or within it.
LEMMA HistoryQuiet ==
  ASSUME HistoryInv, NEW s \in Sessions, Others(s), UNCHANGED draft,
         tx[s].pc # "done", tx'[s].pc # "done", tx'[s].before = tx[s].before,
         \A r \in tx'[s].items \cup tx'[s].inserted : r.by = s,
         tx'[s].pc = "write" =>
           tx[s].before = {} \/ (tx[s].pc = "write" /\ tx'[s].seen = tx[s].seen),
         tx'[s].pc # "write" => tx[s].before = {}
  PROVE  HistoryInv'
<1>1. Finished' = Finished
  BY DEF Finished, Others
<1>2. HistoryOf(s)'
  BY <1>1 DEF HistoryInv, HistoryOf
<1> QED BY <1>2, HistoryFrame

\* A commit removes every row its DELETE saw, hence all that was left of the
\* requests before it; and it brings rows of its own only.
LEMMA HistoryCommit ==
  ASSUME ReleasesTypeOK, HistoryInv, NEW s \in Sessions, Commit(s)
  PROVE  HistoryInv'
<1>1. /\ tx[s].pc = "write" /\ Others(s) /\ tx'[s].pc = "done"
      /\ tx'[s].before = tx[s].before /\ tx'[s].items = {} /\ tx'[s].inserted = {}
  BY CommitEffect
<1>2. draft' = (draft \ tx[s].deleted) \cup tx[s].inserted /\ ToDelete(s) = {}
  BY DEF Commit
<1>3. Finished' = Finished \cup {s}
  BY <1>1 DEF Finished, Others
<1>4. HistoryOf(s)
  BY DEF HistoryInv
<1>5. \A r \in draft' : r \in draft \/ r.by = s
  BY <1>2, <1>4 DEF HistoryOf
<1>6. \A r \in draft' : r.by \notin tx[s].before
  <2>1. \A r \in draft \ tx[s].deleted : r \notin tx[s].seen
    BY <1>2 DEF ToDelete
  <2>2. \A r \in draft \ tx[s].deleted : r.by \notin tx[s].before
    BY <2>1, <1>1, <1>4 DEF HistoryOf
  <2> QED BY <2>2, <1>2, <1>4 DEF HistoryOf
<1>7. HistoryOf(s)'
  BY <1>1, <1>3, <1>4, <1>6 DEF HistoryOf
<1>8. ASSUME NEW t \in Sessions, t # s PROVE HistoryOf(t)'
  <2>1. tx'[t] = tx[t] /\ HistoryOf(t)
    BY <1>1, <1>8 DEF Others, HistoryInv
  <2>2. s \notin tx[t].before
    <3>1. s \notin Finished /\ s # Earlier
      BY <1>1 DEF Finished, Sessions, Earlier
    <3> QED BY <3>1, <2>1 DEF HistoryOf
  <2> QED BY <2>1, <2>2, <1>3, <1>5 DEF HistoryOf
<1> QED BY <1>7, <1>8 DEF HistoryInv

LEMMA HistoryStep == ASSUME ReleasesTypeOK, HistoryInv, [ReleasesNext]_releaseVars PROVE HistoryInv'
<1>1. CASE UNCHANGED releaseVars
  BY <1>1 DEF releaseVars, HistoryInv, HistoryOf, Finished
<1>2. ASSUME NEW s \in Sessions, Arrive(s) \/ Proceed(s) \/ Fail(s)
      PROVE  HistoryInv'
  <2>0. /\ \A r \in tx[s].items \cup tx[s].inserted : r.by = s
        /\ tx[s].pc \notin {"write", "done"} => tx[s].before = {}
    BY DEF HistoryInv, HistoryOf
  <2>1. CASE \E e \in Edits : StartReplace(s, e)
    <3>1. PICK e \in Edits : StartReplace(s, e)
      BY <2>1
    <3> QED BY <3>1, <2>0, StartReplaceEffect, HistoryQuiet
  <2>2. CASE StartPublish(s)
    BY <2>2, <2>0, StartPublishEffect, HistoryQuiet
  <2>3. CASE \E r \in releases : StartRollback(s, r)
    <3>1. PICK r \in releases : StartRollback(s, r)
      BY <2>3
    <3> QED BY <3>1, <2>0, StartRollbackEffect, HistoryQuiet
  <2>4. CASE ReadMax(s)
    BY <2>4, <2>0, ReadMaxEffect, HistoryQuiet
  <2>5. CASE tx[s].pc = "claim" /\ Claim(s)
    BY <2>5, <2>0, ClaimEffect, HistoryQuiet
  <2>6. CASE BeginDelete(s)
    <3>1. /\ tx[s].pc = "delete" /\ Others(s) /\ tx'[s].pc = "write"
          /\ tx'[s].seen = draft /\ tx'[s].before = Finished \cup {Earlier}
          /\ tx'[s].items = tx[s].items /\ tx'[s].inserted = tx[s].inserted
          /\ UNCHANGED draft
      BY <2>6, BeginDeleteEffect
    <3>2. Finished' = Finished /\ s \notin Finished
      BY <3>1 DEF Finished, Others
    <3>3. s # Earlier
      BY DEF Sessions, Earlier
    <3>4. HistoryOf(s)'
      BY <3>1, <3>2, <3>3, <2>0 DEF HistoryOf
    <3> QED BY <3>1, <3>4, HistoryFrame
  <2>7. CASE \E r \in ToDelete(s) : DeleteRow(s, r)
    <3>1. PICK r \in ToDelete(s) : DeleteRow(s, r)
      BY <2>7
    <3> QED BY <3>1, <2>0, DeleteRowEffect, HistoryQuiet
  <2>8. CASE \E r \in ToInsert(s) : Inserts(s, r)
    <3>1. PICK r \in ToInsert(s) : Inserts(s, r)
      BY <2>8
    <3>2. r.by = s
      BY <2>0 DEF ToInsert
    <3> QED BY <3>1, <3>2, <2>0, InsertRowEffect, HistoryQuiet
  <2>9. CASE Commit(s)
    BY <2>9, HistoryCommit
  <2>10. CASE Active(s) /\ Abort(s)
    <3>1. tx[s].pc # "done"
      BY <2>10 DEF Active, Ended
    <3>2. HistoryOf(s)'
      BY <2>10, AbortEffect DEF HistoryOf
    <3> QED BY <3>1, <3>2, <2>10, AbortEffect, HistoryFrame
  <2> QED BY <1>2, Steps, <2>1, <2>2, <2>3, <2>4, <2>5, <2>6, <2>7, <2>8, <2>9, <2>10
<1> QED BY <1>1, <1>2 DEF ReleasesNext

LEMMA HistoryInit == ReleasesInit => HistoryInv
<1> SUFFICES ASSUME ReleasesInit PROVE HistoryInv
  OBVIOUS
<1>1. \A s \in Sessions : tx[s] = NoTx("idle")
  BY DEF ReleasesInit
<1>2. \A s \in Sessions :
        tx[s].pc = "idle" /\ tx[s].before = {} /\ tx[s].items = {} /\ tx[s].inserted = {}
  BY <1>1 DEF NoTx
<1> QED BY <1>2 DEF HistoryInv, HistoryOf

\* A replacement or a rollback leaves nothing of the requests that were done
\* before its DELETE: only requests that overlap are merged.
THEOREM OnlyOverlappingRequestsMerge == ReleasesSpec => []OnlyOverlappingMerge
<1>1. ReleasesInit => ReleasesTypeOK /\ HistoryInv
  BY TypeInit, HistoryInit
<1>2. ReleasesTypeOK /\ HistoryInv /\ [ReleasesNext]_releaseVars => (ReleasesTypeOK /\ HistoryInv)'
  BY TypeStep, HistoryStep
<1>3. HistoryInv => OnlyOverlappingMerge
  BY DEF HistoryInv, HistoryOf, OnlyOverlappingMerge, Finished
<1> QED BY <1>1, <1>2, <1>3, PTL DEF ReleasesSpec

-----------------------------------------------------------------------------
(* Refinement.                                                              *)

LogEntries == [snap : SUBSET Items, of : Nat]

PublishedIsALog ==
  /\ Published \in Seq(LogEntries) /\ Len(Published) = current
  /\ \A v \in 1..current :
       /\ ReleaseOf(v) \in releases /\ ReleaseOf(v).version = v
       /\ Published[v] = [snap |-> ReleaseOf(v).snap, of |-> ReleaseOf(v).of]

LEMMA PublishedType == ReleasesTypeOK /\ VersionsInv => PublishedIsALog
<1> SUFFICES ASSUME ReleasesTypeOK, VersionsInv PROVE PublishedIsALog
  OBVIOUS
<1>1. ASSUME NEW v \in 1..current
      PROVE  ReleaseOf(v) \in releases /\ ReleaseOf(v).version = v
  <2>1. \E r \in releases : r.version = v
    BY DEF VersionsInv, Versions
  <2> QED BY <2>1 DEF ReleaseOf
<1>2. \A v \in 1..current : [snap |-> ReleaseOf(v).snap, of |-> ReleaseOf(v).of] \in LogEntries
  BY <1>1 DEF ReleasesTypeOK, Releases, LogEntries
<1>3. Published \in [1..current -> LogEntries] /\ current \in Nat
  BY <1>2 DEF Published, ReleasesTypeOK
<1>4. Published \in Seq(LogEntries) /\ Len(Published) = current
  BY <1>3
<1>5. \A v \in 1..current : Published[v] = [snap |-> ReleaseOf(v).snap, of |-> ReleaseOf(v).of]
  BY DEF Published
<1> QED BY <1>1, <1>4, <1>5 DEF PublishedIsALog

\* A release is the one that has its version.
LEMMA ReleaseIs ==
  ASSUME VersionsInv, NEW r \in releases
  PROVE  ReleaseOf(r.version) = r
  BY DEF VersionsInv, ReleaseOf

LEMMA LogInit == ReleasesInit => Log!Init
<1> SUFFICES ASSUME ReleasesInit PROVE Log!Init
  OBVIOUS
<1>1. ReleasesTypeOK /\ VersionsInv /\ RowsInv
  BY TypeInit, VersionsInit, RowsInit
<1>2. CASE releases = {} /\ current = 0
  <2>1. Published = <<>>
    BY <1>2 DEF Published
  <2> QED BY <2>1 DEF Log!Init
<1>3. CASE releases = {[version |-> 1, snap |-> Content(draft), of |-> 0]} /\ current = 1
  <2>1. PICK r \in releases : r = [version |-> 1, snap |-> Content(draft), of |-> 0]
    BY <1>3
  <2>2. ReleaseOf(1) = r
    BY <2>1, <1>1, ReleaseIs
  <2>3. Published[1] = [snap |-> Content(draft), of |-> 0] /\ Len(Published) = 1
    BY <2>1, <2>2, <1>1, <1>3, PublishedType DEF PublishedIsALog
  <2>4. Published = <<[snap |-> Content(draft), of |-> 0]>>
    BY <2>3, <1>1, <1>3, PublishedType DEF PublishedIsALog
  <2>5. Content(draft) \in Snapshots
    BY <1>1, ContentType, <2>1 DEF Snapshots, ReleasesTypeOK, RowsInv
  <2> QED BY <2>4, <2>5 DEF Log!Init
<1> QED BY <1>2, <1>3 DEF ReleasesInit

\* A step that adds no release leaves the log as it is.
LEMMA LogStutters == ASSUME UNCHANGED <<releases, current>> PROVE UNCHANGED Published
  BY DEF Published, ReleaseOf

\* The commit of a release appends it.
LEMMA LogGrows ==
  ASSUME ReleasesTypeOK, VersionsInv, ReleasesTypeOK', VersionsInv', NEW s \in Sessions,
         Commit(s), tx[s].claim # 0
  PROVE  Published' = Append(Published, [snap |-> tx[s].snap, of |-> tx[s].of])
<1> DEFINE new == [version |-> tx[s].claim, snap |-> tx[s].snap, of |-> tx[s].of]
           entry == [snap |-> tx[s].snap, of |-> tx[s].of]
<1>1. /\ releases' = releases \cup {new} /\ current' = current + 1
      /\ new.version = current + 1 /\ current \in Nat
  BY DEF Commit, VersionsInv, ReleasesTypeOK
<1>2. entry \in LogEntries
  BY DEF ReleasesTypeOK, Tx, LogEntries
<1>3. PublishedIsALog /\ PublishedIsALog'
  <2>1. (ReleasesTypeOK /\ VersionsInv => PublishedIsALog)'
    BY PublishedType, PTL
  <2> QED BY <2>1, PublishedType
<1>4. ASSUME NEW r \in releases', NEW v, v = r.version PROVE ReleaseOf(v)' = r
  BY <1>4 DEF VersionsInv, ReleaseOf
<1>5. \A v \in 1..current : ReleaseOf(v)' = ReleaseOf(v)
  BY <1>1, <1>3, <1>4 DEF PublishedIsALog
<1>6. Published'[current + 1] = entry
  <2>1. PICK n \in Nat : n = current + 1
    BY <1>1
  <2>2. ReleaseOf(n)' = new
    BY <2>1, <1>1, <1>4
  <2>3. n \in 1..current'
    BY <2>1, <1>1
  <2>4. Published'[n] = [snap |-> new.snap, of |-> new.of]
    BY <2>2, <2>3, <1>3 DEF PublishedIsALog
  <2> QED BY <2>1, <2>4
<1>7. \A v \in 1..current : Published'[v] = Published[v]
  <2>1. \A v \in 1..current : v \in 1..current'
    BY <1>1
  <2> QED BY <2>1, <1>3, <1>5 DEF PublishedIsALog
<1> HIDE DEF entry
<1>8. /\ Append(Published, entry) \in Seq(LogEntries)
      /\ Len(Append(Published, entry)) = current + 1
      /\ \A v \in 1..current : Append(Published, entry)[v] = Published[v]
      /\ Append(Published, entry)[current + 1] = entry
  BY <1>2, <1>3, AppendProperties DEF PublishedIsALog
<1>9. \A v \in 1..(current + 1) : Published'[v] = Append(Published, entry)[v]
  BY <1>1, <1>6, <1>7, <1>8
<1>10. Published' = Append(Published, entry)
  BY <1>1, <1>3, <1>8, <1>9, SeqEqual DEF PublishedIsALog
<1> QED BY <1>10 DEF entry

LEMMA LogStep ==
  ASSUME ReleasesTypeOK, VersionsInv, RowsInv, ReleasesTypeOK', VersionsInv', [ReleasesNext]_releaseVars
  PROVE  [Log!Next]_Published
<1>1. CASE UNCHANGED <<releases, current>>
  BY <1>1, LogStutters
<1>2. ASSUME NEW s \in Sessions, Commit(s), tx[s].claim # 0
      PROVE  Log!Next
  <2>1. Published' = Append(Published, [snap |-> tx[s].snap, of |-> tx[s].of])
    BY <1>2, LogGrows
  <2>2. CASE tx[s].of = 0
    <3>1. tx[s].snap \in Snapshots
      BY DEF ReleasesTypeOK, Tx, Snapshots, RowsInv, InFlight
    <3> QED BY <2>1, <2>2, <3>1 DEF Log!Next, Log!Publish
  <2>3. CASE tx[s].of # 0
    <3>1. PICK r \in releases : r.version = tx[s].of /\ r.snap = tx[s].snap
      BY <2>3 DEF VersionsInv
    <3>2. r.version \in 1..current
      BY DEF VersionsInv, Versions
    <3>3. Published[r.version].snap = r.snap /\ r.version \in DOMAIN Published
      BY <3>1, <3>2, PublishedType, ReleaseIs DEF Published, PublishedIsALog
    <3> QED BY <2>1, <3>1, <3>3 DEF Log!Next, Log!Rollback
  <2> QED BY <2>2, <2>3
<1>3. ASSUME NEW s \in Sessions, Arrive(s) \/ Proceed(s) \/ Fail(s)
      PROVE  UNCHANGED <<releases, current>> \/ (Commit(s) /\ tx[s].claim # 0)
  <2>1. \A e \in Edits : StartReplace(s, e) => UNCHANGED <<releases, current>>
    BY DEF StartReplace
  <2>2. \A r \in releases : StartRollback(s, r) => UNCHANGED <<releases, current>>
    BY DEF StartRollback
  <2>3. \A r \in ToDelete(s) : DeleteRow(s, r) => UNCHANGED <<releases, current>>
    BY DEF DeleteRow
  <2>4. \A r \in ToInsert(s) : Inserts(s, r) => UNCHANGED <<releases, current>>
    BY DEF Inserts
  <2>5. StartPublish(s) \/ ReadMax(s) \/ Claim(s) \/ BeginDelete(s) \/ Abort(s)
          => UNCHANGED <<releases, current>>
    BY DEF StartPublish, ReadMax, Claim, BeginDelete, Abort
  <2>6. Commit(s) => UNCHANGED <<releases, current>> \/ tx[s].claim # 0
    BY DEF Commit
  <2> QED BY <1>3, Steps, <2>1, <2>2, <2>3, <2>4, <2>5, <2>6
<1>4. UNCHANGED releaseVars => UNCHANGED <<releases, current>>
  BY DEF releaseVars
<1> QED BY <1>1, <1>2, <1>3, <1>4 DEF ReleasesNext

\* The releases of a namespace implement ReleaseLog, whatever the requests do.
THEOREM ReleasesAreALog == ReleasesSpec => KeepsLog
<1> DEFINE I == ReleasesTypeOK /\ VersionsInv /\ RowsInv
<1>1. ReleasesSpec => []I
  BY VersionsAlways, RowsAlways, PTL
<1>2. I /\ I' /\ [ReleasesNext]_releaseVars => [Log!Next]_Published
  BY LogStep
<1> QED BY <1>1, <1>2, LogInit, PTL DEF ReleasesSpec, KeepsLog, Log!Spec

-----------------------------------------------------------------------------
(* Waiting.  The model lets a DELETE or a flush take its rows in any order;  *)
(* here every transaction has an order of its own and asks for the next row  *)
(* only, as a statement does.                                                *)

\* The rows the statement of s has yet to delete, or to insert.
RowsLeft(s) ==
  IF tx[s].pc # "write" THEN {} ELSE IF ToDelete(s) # {} THEN ToDelete(s) ELSE ToInsert(s)

NoRow == CHOOSE r : r \notin Rows

\* What everybody asks for next.
NextRows ==
  {next \in [Sessions -> Rows \cup {NoRow}] :
     \A s \in Sessions : RowsLeft(s) # {} => next[s] \in RowsLeft(s)}

\* The transactions that s waits for if its next row is r.
HeldUp(s, r) ==
  IF tx[s].pc = "claim" THEN ClaimedBy(s)
  ELSE IF RowsLeft(s) = {} THEN {}
  ELSE IF ToDelete(s) # {} THEN LockedBy(s, r)
  ELSE KeyHeldBy(s, r)

\* The guards of ReadMax, InsertRelease, BeginDelete, DeleteRow, InsertRow and
\* Commit.
Ready(s, r) ==
  \/ tx[s].pc = "version" /\ \E v \in Versions \cup {0} : \A w \in Versions : w <= v
  \/ tx[s].pc = "claim" /\ ClaimedBy(s) = {}
  \/ tx[s].pc = "delete"
  \/ tx[s].pc = "write" /\ r \in ToDelete(s) /\ LockedBy(s, r) = {}
  \/ tx[s].pc = "write" /\ ToDelete(s) = {} /\ r \in ToInsert(s) /\ KeyHeldBy(s, r) = {}
  \/ tx[s].pc = "write" /\ ToDelete(s) = {} /\ ToInsert(s) = {}

\* Whatever rows the requests ask for next: nobody waits for a request that has
\* ended, and of requests that wait for one another only, one can go on or is in a
\* circle, which PostgreSQL breaks.  No combination of versions, rows and keys
\* stops them all.
NoRequestStuck ==
  \A next \in NextRows :
    LET W == [s \in Sessions |-> HeldUp(s, next[s])] IN
    /\ \A s \in Sessions : \A t \in W[s] : Active(t)
    /\ \A S \in SUBSET {s \in Sessions : Active(s)} :
         S # {} /\ (\A s \in S : W[s] \subseteq S) => \E s \in S : Ready(s, next[s]) \/ OnCircle(W, s)

\* Somebody who holds a version, a row or a key has not ended.
LEMMA HoldersAreActive ==
  ASSUME ReleasesTypeOK, VersionsInv, RowsInv, NEW s \in Sessions, NEW r
  PROVE  HeldUp(s, r) \subseteq {t \in Sessions : Active(t)}
<1>1. ASSUME NEW t \in Sessions, t \in ClaimedBy(s) PROVE Active(t)
  <2>1. tx[s].base \in Nat
    BY DEF ReleasesTypeOK, Tx
  <2>2. tx[t].claim # 0
    BY <1>1, <2>1 DEF ClaimedBy
  <2>3. QED
    BY <2>2 DEF VersionsInv, Active, Ended
<1>2. ASSUME NEW t \in Sessions, tx[t].pc # "write"
      PROVE  t \notin LockedBy(s, r) /\ t \notin KeyHeldBy(s, r)
  <2>1. tx[t].deleted = {} /\ tx[t].inserted = {}
    BY <1>2 DEF RowsInv, InFlight
  <2>2. QED
    BY <2>1 DEF LockedBy, KeyHeldBy, SameKey
<1>3. \A t \in Sessions : tx[t].pc = "write" => Active(t)
  BY DEF Active, Ended
<1>4. QED
  BY <1>1, <1>2, <1>3 DEF HeldUp, ClaimedBy, LockedBy, KeyHeldBy

\* Somebody who waits for nobody has a statement that can be executed.
LEMMA WhoWaitsForNobody ==
  ASSUME ReleasesTypeOK, VersionsInv, NEW s \in Sessions, Active(s), NEW r,
         RowsLeft(s) # {} => r \in RowsLeft(s), HeldUp(s, r) = {}
  PROVE  Ready(s, r)
<1>1. tx[s].pc \in {"version", "claim", "delete", "write"}
  BY DEF ReleasesTypeOK, Tx, TxLabels, Active, Ended
<1>2. \E v \in Versions \cup {0} : \A w \in Versions : w <= v
  <2>1. current \in Nat /\ Versions = 1..current
    BY DEF ReleasesTypeOK, VersionsInv
  <2>2. current \in Versions \cup {0} /\ \A w \in Versions : w <= current
    BY <2>1
  <2>3. QED
    BY <2>2
<1>3. CASE tx[s].pc = "write"
  BY <1>3 DEF HeldUp, RowsLeft, Ready
<1>4. CASE tx[s].pc # "write"
  BY <1>1, <1>2, <1>4 DEF HeldUp, Ready
<1>5. QED
  BY <1>3, <1>4

\* No deadlock of the config center is one that PostgreSQL does not see: the
\* safety half of EveryRequestEnds, for any number of requests and any edits.
THEOREM NoRequestIsStuck == ReleasesSpec => []NoRequestStuck
<1>1. ReleasesTypeOK /\ VersionsInv /\ RowsInv => NoRequestStuck
  <2> SUFFICES ASSUME ReleasesTypeOK, VersionsInv, RowsInv, NEW next \in NextRows PROVE
        LET W == [s \in Sessions |-> HeldUp(s, next[s])] IN
        /\ \A s \in Sessions : \A t \in W[s] : Active(t)
        /\ \A S \in SUBSET {s \in Sessions : Active(s)} :
             S # {} /\ (\A s \in S : W[s] \subseteq S) => \E s \in S : Ready(s, next[s]) \/ OnCircle(W, s)
    BY DEF NoRequestStuck
  <2> DEFINE W == [s \in Sessions |-> HeldUp(s, next[s])]
  <2>1. \A s \in Sessions : W[s] \subseteq {t \in Sessions : Active(t)}
    BY HoldersAreActive
  <2>2. ASSUME NEW S \in SUBSET {s \in Sessions : Active(s)}, S # {}, \A s \in S : W[s] \subseteq S
        PROVE  \E s \in S : Ready(s, next[s]) \/ OnCircle(W, s)
    <3>1. IsFiniteSet(S) /\ S \subseteq DOMAIN W
      <4>1. IsFiniteSet(Sessions)
        BY ReleasesAssumption, FS_Interval DEF Sessions
      <4>2. QED
        BY <4>1, FS_Subset
    <3>2. \A s \in S : W[s] = {} => Ready(s, next[s])
      BY WhoWaitsForNobody DEF NextRows
    <3>3. \E s \in S : W[s] = {} \/ OnCircle(W, s)
      <4> HIDE DEF W
      <4>1. QED
        BY <2>2, <3>1, SomebodyMoves
    <3>4. QED
      BY <3>2, <3>3
  <2>3. QED
    BY <2>1, <2>2
<1>2. QED
  BY <1>1, VersionsAlways, RowsAlways, PTL
=============================================================================
