----------------------------- MODULE ReleaseLog -----------------------------
(***************************************************************************)
(* What the release history of a namespace promises, without transactions: *)
(* releases are numbered from 1 without gaps, none is ever changed, the    *)
(* last one is current, and a rollback is a new release with the content   *)
(* of the one it names.                                                    *)
(***************************************************************************)
EXTENDS Sequences, Naturals

CONSTANT Snapshots  \* contents a draft can have

VARIABLE log        \* the releases; the last one is current

Init == log \in {<<>>} \cup {<<[snap |-> c, of |-> 0]>> : c \in Snapshots}

Publish(c) == log' = Append(log, [snap |-> c, of |-> 0])

Rollback(v) == log' = Append(log, [snap |-> log[v].snap, of |-> v])

Next ==
  \/ \E c \in Snapshots : Publish(c)
  \/ \E v \in DOMAIN log : Rollback(v)

Spec == Init /\ [][Next]_log
=============================================================================
