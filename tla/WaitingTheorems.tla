--------------------------- MODULE WaitingTheorems ---------------------------
(***************************************************************************)
(* Graphs of transactions that wait for each other: when nobody in a       *)
(* finite group can go on, some of them wait in a circle, which is what    *)
(* PostgreSQL looks for and breaks.                                        *)
(***************************************************************************)
EXTENDS FiniteSetTheorems, WellFoundedInduction, TLAPS

\* s is on a circle of W, which tells for everybody whom they wait for.
OnCircle(W, s) ==
  \E C \in SUBSET DOMAIN W :
    /\ s \in C
    /\ \A t \in C : W[t] \cap C # {} /\ \E u \in C : t \in W[u]

\* Nobody of C can go on before somebody else of C.
Blocked(W, C) == C # {} /\ \A s \in C : W[s] \cap C # {}

\* A smallest blocked part of a finite group.
LEMMA SmallestBlocked ==
  ASSUME NEW S, IsFiniteSet(S), NEW W, Blocked(W, S)
  PROVE  \E C \in SUBSET S : Blocked(W, C) /\ \A D \in SUBSET C : Blocked(W, D) => D = C
<1> DEFINE T == {C \in SUBSET S : Blocked(W, C)}
<1> DEFINE F == FiniteSubsetsOf(S)
<1> DEFINE R == StrictSubsetOrdering(S)
<1>1. IsWellFoundedOn(R, F)
  BY FS_StrictSubsetOrderingWellFounded
<1>2. T \subseteq F
  BY FS_Subset DEF FiniteSubsetsOf
<1>3. T # {}
  OBVIOUS
<1>4. PICK C \in T : \A D \in T : <<D, C>> \notin R
  <2> HIDE DEF T, F, R
  <2>1. QED
    BY <1>1, <1>2, <1>3, WFMin
<1>5. ASSUME NEW D \in SUBSET C, Blocked(W, D), D # C PROVE FALSE
  <2>1. <<D, C>> \in R
    BY <1>5 DEF StrictSubsetOrdering
  <2>2. QED
    BY <1>4, <1>5, <2>1
<1>6. QED
  BY <1>4, <1>5

\* In it everybody is waited for too: without one nobody waits for, the rest would
\* still be blocked.
LEMMA BlockedHasCircle ==
  ASSUME NEW S, IsFiniteSet(S), NEW W, S \subseteq DOMAIN W, Blocked(W, S)
  PROVE  \E s \in S : OnCircle(W, s)
<1>1. PICK C \in SUBSET S :
        Blocked(W, C) /\ \A D \in SUBSET C : Blocked(W, D) => D = C
  BY SmallestBlocked
<1>2. ASSUME NEW t \in C PROVE \E u \in C : t \in W[u]
  <2>1. SUFFICES ASSUME \A u \in C : t \notin W[u] PROVE FALSE
    OBVIOUS
  <2>2. \A u \in C : W[u] \cap (C \ {t}) # {}
    BY <1>1, <2>1 DEF Blocked
  <2>3. Blocked(W, C \ {t})
    BY <1>2, <2>2 DEF Blocked
  <2>4. QED
    BY <1>1, <1>2, <2>3
<1>3. PICK s \in C : TRUE
  BY <1>1 DEF Blocked
<1>4. C \in SUBSET DOMAIN W /\ \A t \in C : W[t] \cap C # {}
  BY <1>1 DEF Blocked
<1>5. QED
  BY <1>2, <1>3, <1>4 DEF OnCircle

\* Of a group that waits for none but its own, one waits for nobody or is on a
\* circle.
LEMMA SomebodyMoves ==
  ASSUME NEW S, IsFiniteSet(S), S # {}, NEW W, S \subseteq DOMAIN W,
         \A s \in S : W[s] \subseteq S
  PROVE  \E s \in S : W[s] = {} \/ OnCircle(W, s)
<1>1. SUFFICES ASSUME \A s \in S : W[s] # {} PROVE \E s \in S : OnCircle(W, s)
  OBVIOUS
<1>2. Blocked(W, S)
  BY <1>1 DEF Blocked
<1>3. QED
  BY <1>2, BlockedHasCircle
=============================================================================
