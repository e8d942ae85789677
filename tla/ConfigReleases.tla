--------------------------- MODULE ConfigReleases ---------------------------
(***************************************************************************)
(* The config center: requests that replace the draft of one namespace,    *)
(* publish it as a release or roll back to an earlier release, each in a   *)
(* transaction of its own under READ COMMITTED.                            *)
(*                                                                         *)
(* A session is one request.  Reads see committed rows; rows deleted and   *)
(* inserted by a transaction are visible to the unique indexes and to the  *)
(* row locks of the others until it ends.  An item is a key and the        *)
(* request that wrote its value; items are secrets, because those are the  *)
(* ones update_draft_items may copy from the rows it has read.             *)
(***************************************************************************)
EXTENDS Integers, FiniteSets

CONSTANTS
  ItemKeys,        \* keys of config items
  Edits,       \* drafts clients send: keys with a new value, keys with a masked one
  MaxRequests  \* bound on the requests of the run

ASSUME ReleasesAssumption ==
  /\ MaxRequests \in Nat
  /\ \A e \in Edits : e.fresh \subseteq ItemKeys /\ e.masked \subseteq ItemKeys

Sessions == 1..MaxRequests   \* the requests, in the order of their arrival
Earlier  == 0                \* author of what earlier requests left behind
Mask     == -1               \* MASKED_SECRET, sent for a secret a client has not seen

Authors == Sessions \cup {Earlier}
Items   == [key : ItemKeys, val : Authors \cup {Mask}]
Rows    == [key : ItemKeys, val : Authors \cup {Mask}, by : Authors]

UniqueKeys(rows) == \A r, q \in rows : r.key = q.key => r = q

Snapshots == {c \in SUBSET Items : UniqueKeys(c)}

VARIABLES
  draft,     \* committed rows of config_item
  releases,  \* committed rows of config_release
  current,   \* version of current_release_id, 0 if NULL
  tx         \* the transaction of every session

releaseVars == <<draft, releases, current, tx>>

\* pc, the items to insert, the content and the target of the release, the
\* max(version) read, the version inserted; rows the DELETE saw, rows deleted,
\* rows inserted; history: who had committed when the DELETE began.
NoTx(l) ==
  [pc |-> l, items |-> {}, snap |-> {}, of |-> 0, base |-> 0, claim |-> 0,
   seen |-> {}, deleted |-> {}, inserted |-> {}, before |-> {}]

Ended == {"done", "failed"}
Active(s) == tx[s].pc \notin {"idle"} \cup Ended

Content(rows) == {[key |-> r.key, val |-> r.val] : r \in rows}
RowsOf(s, items) == {[key |-> i.key, val |-> i.val, by |-> s] : i \in items}

\* A namespace somebody has edited, and released or not.
ReleasesInit ==
  /\ \E K \in {{}, ItemKeys} :
       draft = {[key |-> k, val |-> Earlier, by |-> Earlier] : k \in K}
  /\ \/ releases = {} /\ current = 0
     \/ /\ releases = {[version |-> 1, snap |-> Content(draft), of |-> 0]}
        /\ current = 1
  /\ tx = [s \in Sessions |-> NoTx("idle")]

-----------------------------------------------------------------------------
(* Requests arrive.                                                         *)

\* Sessions are numbered as they come.
MayArrive(s) ==
  /\ tx[s].pc = "idle"
  /\ \A t \in Sessions : t < s => tx[t].pc # "idle"

\* A masked value keeps the ciphertext that was read; without one the mask
\* itself is encrypted.
Kept(k) == {r.val : r \in {q \in draft : q.key = k}}
Masked(k) == IF Kept(k) = {} THEN Mask ELSE CHOOSE v \in Kept(k) : TRUE

\* update_draft_items: the SELECT and the new items.
StartReplace(s, e) ==
  /\ MayArrive(s)
  /\ tx' = [tx EXCEPT
       ![s].pc = "delete",
       ![s].items = RowsOf(s, {[key |-> k, val |-> s] : k \in e.fresh}
                              \cup {[key |-> k, val |-> Masked(k)] : k \in e.masked})]
  /\ UNCHANGED <<draft, releases, current>>

\* publish_release: the SELECT of the draft.  An item that does not validate
\* ends the request, as Fail does.
StartPublish(s) ==
  /\ MayArrive(s)
  /\ tx' = [tx EXCEPT ![s].pc = "version", ![s].snap = Content(draft)]
  /\ UNCHANGED <<draft, releases, current>>

\* Mutant of StartRollback: the release repeats the draft, not the target.
StartRollbackDraft(s, r) ==
  /\ MayArrive(s)
  /\ tx' = [tx EXCEPT
       ![s].pc = "version", ![s].snap = Content(draft), ![s].of = r.version,
       ![s].items = RowsOf(s, r.snap)]
  /\ UNCHANGED <<draft, releases, current>>

\* rollback_release: the SELECT of the target.
StartRollback(s, r) ==
  /\ MayArrive(s)
  /\ tx' = [tx EXCEPT
       ![s].pc = "version", ![s].snap = r.snap, ![s].of = r.version,
       ![s].items = RowsOf(s, r.snap)]
  /\ UNCHANGED <<draft, releases, current>>

\* A failed statement, a validation error or a crash: nothing is kept.
Abort(s) ==
  /\ tx' = [tx EXCEPT ![s] = NoTx("failed")]
  /\ UNCHANGED <<draft, releases, current>>

Fail(s) == Active(s) /\ Abort(s)

-----------------------------------------------------------------------------
(* The release.                                                             *)

Versions == {r.version : r \in releases}

\* select(func.max(ConfigRelease.version)), 0 if there is none.
ReadMax(s) ==
  /\ tx[s].pc = "version"
  /\ \E v \in Versions \cup {0} :
       /\ \A w \in Versions : w <= v
       /\ tx' = [tx EXCEPT ![s].pc = "claim", ![s].base = v]
  /\ UNCHANGED <<draft, releases, current>>

\* Sessions whose uncommitted release blocks the index entry that s inserts.
ClaimedBy(s) == {t \in Sessions \ {s} : tx[t].claim = tx[s].base + 1}

Claim(s) ==
  /\ tx' = [tx EXCEPT
       ![s].claim = tx[s].base + 1,
       ![s].pc = IF tx[s].of = 0 THEN "write" ELSE "delete"]
  /\ UNCHANGED <<draft, releases, current>>

\* Mutant of InsertRelease: uq_release_namespace_version is missing.
InsertReleaseUnchecked(s) ==
  /\ tx[s].pc = "claim"
  /\ Claim(s)

\* Mutant of InsertRelease: a version that is taken is tried again.
InsertReleaseAgain(s) ==
  /\ tx[s].pc = "claim"
  /\ ClaimedBy(s) = {}
  /\ tx[s].base + 1 \notin Versions
  /\ Claim(s)

\* flush of the new release: it waits for the transaction that holds the same
\* version, and fails if that one has committed.
InsertRelease(s) ==
  /\ tx[s].pc = "claim"
  /\ ClaimedBy(s) = {}
  /\ IF tx[s].base + 1 \in Versions THEN Abort(s) ELSE Claim(s)

-----------------------------------------------------------------------------
(* The draft.                                                               *)

Finished == {s \in Sessions : tx[s].pc = "done"}

\* DELETE FROM config_item: the snapshot of the statement.
BeginDelete(s) ==
  /\ tx[s].pc = "delete"
  /\ tx' = [tx EXCEPT ![s].pc = "write", ![s].seen = draft,
                      ![s].before = Finished \cup {Earlier}]
  /\ UNCHANGED <<draft, releases, current>>

\* Rows the DELETE has yet to visit: one that a concurrent transaction has
\* deleted for good is skipped.
ToDelete(s) == (tx[s].seen \cap draft) \ tx[s].deleted
ToInsert(s) == tx[s].items \ tx[s].inserted

LockedBy(s, r) == {t \in Sessions \ {s} : r \in tx[t].deleted}

\* Mutant of DeleteRow: rows that are locked are skipped.
DeleteRowSkipLocked(s, r) ==
  /\ tx[s].pc = "write"
  /\ r \in ToDelete(s)
  /\ tx' = IF LockedBy(s, r) = {}
           THEN [tx EXCEPT ![s].deleted = @ \cup {r}]
           ELSE [tx EXCEPT ![s].seen = @ \ {r}]
  /\ UNCHANGED <<draft, releases, current>>

\* DELETE, row by row: it waits for the transaction that has locked the row.
DeleteRow(s, r) ==
  /\ tx[s].pc = "write"
  /\ r \in ToDelete(s)
  /\ LockedBy(s, r) = {}
  /\ tx' = [tx EXCEPT ![s].deleted = @ \cup {r}]
  /\ UNCHANGED <<draft, releases, current>>

SameKey(r, rows) == {q \in rows : q.key = r.key}

\* Sessions that the index entry of r waits for: they have inserted the key, or
\* deleted the row that holds it.
KeyHeldBy(s, r) ==
  {t \in Sessions \ {s} : SameKey(r, tx[t].inserted \cup tx[t].deleted) # {}}

\* The flush of the commit inserts the new items (the session does not flush
\* before): each waits for its key, and fails if the key is there.
InsertRow(s, r) ==
  /\ tx[s].pc = "write" /\ ToDelete(s) = {}
  /\ r \in ToInsert(s)
  /\ KeyHeldBy(s, r) = {}
  /\ IF SameKey(r, (draft \ tx[s].deleted) \cup tx[s].inserted) # {}
     THEN Abort(s)
     ELSE /\ tx' = [tx EXCEPT ![s].inserted = @ \cup {r}]
          /\ UNCHANGED <<draft, releases, current>>

\* commit: the draft, the release and the pointer of the namespace together.
Commit(s) ==
  /\ tx[s].pc = "write" /\ ToDelete(s) = {} /\ ToInsert(s) = {}
  /\ draft' = (draft \ tx[s].deleted) \cup tx[s].inserted
  /\ IF tx[s].claim = 0
     THEN UNCHANGED <<releases, current>>
     ELSE /\ releases' = releases \cup
               {[version |-> tx[s].claim, snap |-> tx[s].snap, of |-> tx[s].of]}
          /\ current' = tx[s].claim
  /\ tx' = [tx EXCEPT ![s] = [NoTx("done") EXCEPT !.before = tx[s].before]]

-----------------------------------------------------------------------------
(* Deadlocks, which PostgreSQL detects: one of the transactions is aborted.  *)

\* Whom s waits for; nobody if it can go on with some row.
WaitsFor(s) ==
  CASE tx[s].pc = "claim" -> ClaimedBy(s)
    [] tx[s].pc = "write" /\ ToDelete(s) # {} ->
         IF \E r \in ToDelete(s) : LockedBy(s, r) = {} THEN {}
         ELSE UNION {LockedBy(s, r) : r \in ToDelete(s)}
    [] tx[s].pc = "write" /\ ToDelete(s) = {} /\ ToInsert(s) # {} ->
         IF \E r \in ToInsert(s) : KeyHeldBy(s, r) = {} THEN {}
         ELSE UNION {KeyHeldBy(s, r) : r \in ToInsert(s)}
    [] OTHER -> {}

Deadlocked(s) ==
  \E C \in SUBSET Sessions :
    /\ s \in C
    /\ \A t \in C : WaitsFor(t) \cap C # {} /\ \E u \in C : t \in WaitsFor(u)

DetectDeadlock(s) == Deadlocked(s) /\ Abort(s)

-----------------------------------------------------------------------------

Arrive(s) ==
  \/ \E e \in Edits : StartReplace(s, e)
  \/ StartPublish(s)
  \/ \E r \in releases : StartRollback(s, r)

Proceed(s) ==
  \/ ReadMax(s)
  \/ InsertRelease(s)
  \/ BeginDelete(s)
  \/ \E r \in ToDelete(s) : DeleteRow(s, r)
  \/ \E r \in ToInsert(s) : InsertRow(s, r)
  \/ Commit(s)
  \/ DetectDeadlock(s)

ReleasesNext == \E s \in Sessions : Arrive(s) \/ Proceed(s) \/ Fail(s)

ReleasesSpec == ReleasesInit /\ [][ReleasesNext]_releaseVars

\* A request that has arrived goes on when its statement can.
ReleasesFairSpec == ReleasesSpec /\ \A s \in Sessions : WF_releaseVars(Proceed(s))

-----------------------------------------------------------------------------
(* Properties.                                                              *)

TxLabels == {"idle", "version", "claim", "delete", "write"} \cup Ended

Releases == [version : Nat, snap : SUBSET Items, of : Nat]

Tx ==
  [pc : TxLabels, items : SUBSET Rows, snap : SUBSET Items, of : Nat, base : Nat,
   claim : Nat, seen : SUBSET Rows, deleted : SUBSET Rows, inserted : SUBSET Rows,
   before : SUBSET Authors]

\* Types of every variable.
ReleasesTypeOK ==
  /\ draft \subseteq Rows
  /\ releases \subseteq Releases
  /\ current \in Nat
  /\ tx \in [Sessions -> Tx]

\* However replacements and rollbacks interleave, wait and abort, no key is
\* twice in the draft, nor in a release, which a rollback must be able to insert.
OneItemPerKey ==
  /\ UniqueKeys(draft)
  /\ \A r \in releases : UniqueKeys(r.snap)

\* max(version) + 1 is computed without a lock, and yet the current release is
\* the newest one and no version is given twice.
CurrentIsLatest ==
  /\ \A r, q \in releases : r.version = q.version => r = q
  /\ \A r \in releases : r.version <= current
  /\ releases # {} => current \in Versions

\* What a replacement or a rollback promises ("Replace all draft items"): once it
\* is done, nothing of a request that was done before its DELETE is in the draft.
\* Only requests that overlap can be merged.
OnlyOverlappingMerge ==
  \A s \in Finished : \A r \in draft : r.by \notin tx[s].before

\* The release with version v, and the releases up to the current one.
ReleaseOf(v) == CHOOSE r \in releases : r.version = v
Published == [v \in 1..current |-> [snap |-> ReleaseOf(v).snap, of |-> ReleaseOf(v).of]]

\* The releases are a log that only grows: see ReleaseLog.
Log == INSTANCE ReleaseLog WITH log <- Published

KeepsLog == Log!Spec

\* No request waits for ever for another one: locks are released, and deadlocks
\* are broken.
EveryRequestEnds == \A s \in Sessions : Active(s) ~> ~Active(s)

-----------------------------------------------------------------------------
(* The inductive invariants behind them.                                    *)

\* Versions are 1..current, each given once; the one transaction that holds a
\* version holds the next; a rollback has the content of its target.
VersionsInv ==
  /\ \A r, q \in releases : r.version = q.version => r = q
  /\ Versions = 1..current
  /\ \A s \in Sessions :
       /\ tx[s].pc = "claim" => tx[s].base <= current
       /\ tx[s].claim # 0 => tx[s].claim = current + 1 /\ tx[s].pc \in {"delete", "write"}
       /\ \A t \in Sessions : tx[s].claim # 0 /\ tx[t].claim # 0 => s = t
       /\ tx[s].pc = "idle" => tx[s].of = 0
       /\ tx[s].of # 0 =>
            \E r \in releases : r.version = tx[s].of /\ r.snap = tx[s].snap

\* Rows in flight: what a transaction has deleted is still committed, and what
\* it has inserted meets no row with the same key.
InFlight(s) ==
  /\ UniqueKeys(tx[s].snap) /\ UniqueKeys(tx[s].inserted)
  /\ tx[s].deleted \subseteq draft
  /\ \A r \in tx[s].inserted : \A q \in draft \ tx[s].deleted : r.key # q.key
  /\ tx[s].pc # "write" => tx[s].deleted = {} /\ tx[s].inserted = {}

\* Two transactions have touched neither the same row nor the same new key.
Apart(s, t) ==
  /\ tx[s].deleted \cap tx[t].deleted = {}
  /\ \A r \in tx[s].inserted : \A q \in tx[t].inserted \cup tx[t].deleted :
       r.key # q.key

RowsInv ==
  /\ UniqueKeys(draft)
  /\ \A r \in releases : UniqueKeys(r.snap)
  /\ \A s \in Sessions : InFlight(s) /\ \A t \in Sessions \ {s} : Apart(s, t)

\* The DELETE has seen all that is left of those who were done before it.
HistoryOf(s) ==
  /\ tx[s].before \subseteq Finished \cup {Earlier} /\ s \notin tx[s].before
  /\ \A r \in tx[s].items \cup tx[s].inserted : r.by = s
  /\ tx[s].pc \notin {"write", "done"} => tx[s].before = {}
  /\ tx[s].pc = "write" =>
       \A r \in draft : r.by \in tx[s].before => r \in tx[s].seen
  /\ tx[s].pc = "done" => \A r \in draft : r.by \notin tx[s].before

HistoryInv == \A s \in Sessions : HistoryOf(s)
=============================================================================
