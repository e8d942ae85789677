------------------------------ MODULE RateLimit -----------------------------
(***************************************************************************)
(* The rate limit of an API key: a counter in Redis for each minute of the *)
(* wall clock.  A request names its key by the clock, has INCR count it    *)
(* some time later, and the first of a key bounds its life by EXPIRE.  A   *)
(* second is a tick.  A request that Redis does not answer is let through. *)
(***************************************************************************)
EXTENDS Integers, FiniteSets

CONSTANTS
  Apis,       \* requests under way at the same time
  Minute,     \* 60 ticks in the code
  Limit,      \* EVAL_RATE_LIMIT_PER_MINUTE
  MaxClock,   \* bound on the clock
  MaxErrors   \* bound on the errors of Redis in a minute

ASSUME RateLimitAssumption ==
  /\ IsFiniteSet(Apis)
  /\ Minute \in Nat \ {0} /\ Limit \in Nat \ {0} /\ MaxClock \in Nat /\ MaxErrors \in Nat

VARIABLES
  clock,      \* seconds
  counter,    \* counter[m]: the value of the key of minute m, 0 if there is none
  ttl,        \* ttl[m]: when the key goes away, Never if it has no TTL
  checking,   \* checking[p]: where check_rate_limit of request p is, and its key
  passed,     \* history: passed[m]: requests that INCR let through in minute m of the clock
  late,       \* history: late[m]: those of them that counted on the key of an earlier minute
  failures    \* history: failures[m]: requests let through because Redis failed

rateVars == <<clock, counter, ttl, checking, passed, late, failures>>

Minutes == 0..(MaxClock \div Minute)
Never == -1
Unchecked == [pc |-> "idle", key |-> 0]

RateInit ==
  /\ clock \in 0..(Minute - 1)
  /\ counter = [m \in Minutes |-> 0]
  /\ ttl = [m \in Minutes |-> Never]
  /\ checking = [p \in Apis |-> Unchecked]
  /\ passed = [m \in Minutes |-> 0]
  /\ late = [m \in Minutes |-> {}]
  /\ failures = [m \in Minutes |-> 0]

\* Keys whose time is over go away.
Tick ==
  /\ clock < MaxClock
  /\ clock' = clock + 1
  /\ counter' = [m \in Minutes |-> IF ttl[m] = clock + 1 THEN 0 ELSE counter[m]]
  /\ ttl' = [m \in Minutes |-> IF ttl[m] = clock + 1 THEN Never ELSE ttl[m]]
  /\ UNCHANGED <<checking, passed, late, failures>>

_rate_key == clock \div Minute

\* check_rate_limit up to the await: the key is that of the minute it begins in.
ReadClock(p) ==
  /\ checking[p].pc = "idle"
  /\ checking' = [checking EXCEPT ![p] = [pc |-> "incr", key |-> _rate_key]]
  /\ UNCHANGED <<clock, counter, ttl, passed, late, failures>>

\* enforce_rate_limit lets the request through; otherwise it answers 429.
Admits(current) == current <= Limit

\* The INCR, maybe of a later minute; the first of a key goes on to EXPIRE.
\* More than one request above the limit shows nothing new.
Incr(p) ==
  LET k == checking[p].key
      current == counter[k] + 1
  IN
  /\ checking[p].pc = "incr"
  /\ counter[k] <= Limit
  /\ counter' = [counter EXCEPT ![k] = current]
  /\ checking' = [checking EXCEPT ![p] =
       IF current = 1 THEN [pc |-> "expire", key |-> k] ELSE Unchecked]
  /\ passed' = [passed EXCEPT ![_rate_key] = IF Admits(current) THEN @ + 1 ELSE @]
  /\ late' = [late EXCEPT ![_rate_key] =
       IF Admits(current) /\ k # _rate_key THEN @ \cup {p} ELSE @]
  /\ UNCHANGED <<clock, ttl, failures>>

\* "Fail-open": the INCR raises, whether or not Redis has executed it, or there
\* is no pool to ask.
IncrFails(p) ==
  LET k == checking[p].key IN
  /\ checking[p].pc = "incr"
  /\ failures[_rate_key] < MaxErrors
  /\ \/ counter' = counter
     \/ counter[k] <= Limit /\ counter' = [counter EXCEPT ![k] = @ + 1]
  /\ failures' = [failures EXCEPT ![_rate_key] = @ + 1]
  /\ checking' = [checking EXCEPT ![p] = Unchecked]
  /\ UNCHANGED <<clock, ttl, passed, late>>

\* Mutant of Expire: the key does not outlive its minute.
ExpireEarly(p) ==
  LET k == checking[p].key IN
  /\ checking[p].pc = "expire"
  /\ ttl' = [ttl EXCEPT ![k] = IF counter[k] = 0 THEN Never ELSE clock + Minute - 1]
  /\ checking' = [checking EXCEPT ![p] = Unchecked]
  /\ UNCHANGED <<clock, counter, passed, late, failures>>

\* The EXPIRE, which does nothing to a key that is gone.
Expire(p) ==
  LET k == checking[p].key IN
  /\ checking[p].pc = "expire"
  /\ ttl' = [ttl EXCEPT ![k] = IF counter[k] = 0 THEN Never ELSE clock + Minute]
  /\ checking' = [checking EXCEPT ![p] = Unchecked]
  /\ UNCHANGED <<clock, counter, passed, late, failures>>

\* Redis fails at the EXPIRE, which lets the request through as well, or the
\* process ends before the INCR or the EXPIRE: the key keeps no TTL.
GiveUp(p) ==
  /\ checking[p].pc # "idle"
  /\ checking' = [checking EXCEPT ![p] = Unchecked]
  /\ UNCHANGED <<clock, counter, ttl, passed, late, failures>>

RateNext ==
  Tick \/ \E p \in Apis : ReadClock(p) \/ Incr(p) \/ IncrFails(p) \/ Expire(p) \/ GiveUp(p)

RateSpec == RateInit /\ [][RateNext]_rateVars

-----------------------------------------------------------------------------
(* Properties.                                                              *)

\* At most Limit requests pass in a minute of the clock, whenever its key was
\* first counted, expired or left without TTL, and beyond them each request
\* under way at the turn of the minute at most once: INCR has counted it on the
\* key of an earlier minute.  Whatever passes because Redis fails is on top of
\* that; the counter bounds it in no way.
LimitPerMinute == \A m \in Minutes : passed[m] <= Limit + Cardinality(late[m])
=============================================================================
