---------------------------- MODULE RefreshTokens ---------------------------
(***************************************************************************)
(* Accounts and their refresh tokens: registration, login, rotation and    *)
(* logout as overlapping requests.                                         *)
(*                                                                         *)
(* An account stores the hash of one refresh token.  A request reads the   *)
(* account without a lock; its flush locks the row until the commit.  A    *)
(* token is its number: a hash stands for the token it was computed from.  *)
(***************************************************************************)
EXTENDS Integers, FiniteSets

CONSTANTS
  Emails,     \* addresses people register with
  Clients,    \* requests that run at the same time
  MaxCalls    \* bound on the requests of a run; a request numbers its token

ASSUME TokensAssumption == IsFiniteSet(Clients) /\ MaxCalls \in Nat

VARIABLES
  accounts,   \* rows of user: [id, email, refresh_token_hash]
  tokens,     \* refresh tokens handed out: [n, id, from]; from: the one presented
  call,       \* the requests
  calls,      \* requests so far
  logouts,    \* history: [n, killed], killed: the tokens there were at its commit
  met         \* history: pairs of requests that ran at the same time

tokenVars == <<accounts, tokens, call, calls, logouts, met>>

NoToken == 0

NoCall == [pc |-> "idle", kind |-> "none", n |-> 0, email |-> "", id |-> 0, from |-> NoToken]

InFlight == {c \in Clients : call[c].pc # "idle"}

TokensInit ==
  /\ accounts = {} /\ tokens = {}
  /\ call = [c \in Clients |-> NoCall]
  /\ calls = 0
  /\ logouts = {} /\ met = {}

Call(c, k) ==
  /\ call[c].pc = "idle"
  /\ calls < MaxCalls
  /\ calls' = calls + 1
  /\ call' = [call EXCEPT ![c] = [k EXCEPT !.n = calls + 1, !.pc = "flush"]]
  /\ met' = met \cup {{calls + 1, call[d].n} : d \in InFlight}
  /\ UNCHANGED <<accounts, tokens, logouts>>

\* register_user: the SELECT for the address.
Register(c, e) ==
  /\ \A a \in accounts : a.email # e
  /\ Call(c, [NoCall EXCEPT !.kind = "register", !.email = e])

\* login_user with the right password; any other login changes nothing.
Login(c, a) == Call(c, [NoCall EXCEPT !.kind = "login", !.id = a.id])

\* Mutant of Refresh: the hash is not compared.
RefreshUnchecked(c, a, t) ==
  /\ t.id = a.id
  /\ Call(c, [NoCall EXCEPT !.kind = "refresh", !.id = a.id, !.from = t.n])

\* refresh_tokens: "Token has been revoked" unless it is the one stored.
Refresh(c, a, t) ==
  /\ t.id = a.id
  /\ a.refresh_token_hash = t.n
  /\ Call(c, [NoCall EXCEPT !.kind = "refresh", !.id = a.id, !.from = t.n])

\* get_current_user takes any access token that has not expired, of a session
\* that has ended as well: whoever was handed a token may log out.
Logout(c, a) ==
  /\ \E t \in tokens : t.id = a.id
  /\ Call(c, [NoCall EXCEPT !.kind = "logout", !.id = a.id])

-----------------------------------------------------------------------------

RowHolders(c) == {d \in Clients \ {c} : call[d].pc = "commit" /\ call[d].id = call[c].id}
EmailHolders(c) == {d \in Clients \ {c} : call[d].pc = "commit" /\ call[d].email = call[c].email}

Answer(c) == call' = [call EXCEPT ![c] = NoCall]

\* The UPDATE waits for the row.
Flush(c) ==
  /\ call[c].pc = "flush" /\ call[c].kind # "register"
  /\ RowHolders(c) = {}
  /\ call' = [call EXCEPT ![c].pc = "commit"]
  /\ UNCHANGED <<accounts, tokens, calls, logouts, met>>

\* The INSERT waits for the same address and fails if it was committed.
Insert(c) ==
  /\ call[c].pc = "flush" /\ call[c].kind = "register"
  /\ EmailHolders(c) = {}
  /\ IF \E a \in accounts : a.email = call[c].email THEN Answer(c)
     ELSE call' = [call EXCEPT ![c].pc = "commit"]
  /\ UNCHANGED <<accounts, tokens, calls, logouts, met>>

Committed(c, kinds) == call[c].pc = "commit" /\ call[c].kind \in kinds

CommitRegister(c) ==
  /\ Committed(c, {"register"})
  /\ accounts' = accounts \cup
       {[id |-> call[c].n, email |-> call[c].email, refresh_token_hash |-> NoToken]}
  /\ Answer(c)
  /\ UNCHANGED <<tokens, calls, logouts, met>>

StoreHash(id, n) ==
  {IF a.id = id THEN [a EXCEPT !.refresh_token_hash = n] ELSE a : a \in accounts}

\* Mutant of CommitTokens: a refresh does not rotate.
CommitTokensKeeps(c) ==
  /\ Committed(c, {"login", "refresh"})
  /\ accounts' = IF call[c].kind = "login" THEN StoreHash(call[c].id, call[c].n) ELSE accounts
  /\ tokens' = tokens \cup {[n |-> call[c].n, id |-> call[c].id, from |-> call[c].from]}
  /\ Answer(c)
  /\ UNCHANGED <<calls, logouts, met>>

\* The new hash replaces whatever is stored by now.
CommitTokens(c) ==
  /\ Committed(c, {"login", "refresh"})
  /\ accounts' = StoreHash(call[c].id, call[c].n)
  /\ tokens' = tokens \cup {[n |-> call[c].n, id |-> call[c].id, from |-> call[c].from]}
  /\ Answer(c)
  /\ UNCHANGED <<calls, logouts, met>>

CommitLogout(c) ==
  /\ Committed(c, {"logout"})
  /\ accounts' = StoreHash(call[c].id, NoToken)
  /\ logouts' = logouts \cup
       {[n |-> call[c].n, killed |-> {t.n : t \in {u \in tokens : u.id = call[c].id}}]}
  /\ Answer(c)
  /\ UNCHANGED <<tokens, calls, met>>

\* An error or a crash rolls back.
FailCall(c) ==
  /\ call[c].pc # "idle"
  /\ Answer(c)
  /\ UNCHANGED <<accounts, tokens, calls, logouts, met>>

CallStep(c) ==
  \/ \E e \in Emails : Register(c, e)
  \/ \E a \in accounts :
       Login(c, a) \/ Logout(c, a) \/ \E t \in tokens : Refresh(c, a, t)
  \/ Flush(c) \/ Insert(c)
  \/ CommitRegister(c) \/ CommitTokens(c) \/ CommitLogout(c)
  \/ FailCall(c)

TokensNext == \E c \in Clients : CallStep(c)

TokensSpec == TokensInit /\ [][TokensNext]_tokenVars

-----------------------------------------------------------------------------
(* Properties.                                                              *)

\* Rows and tokens; an address and an id belong to one account, and what an
\* account stores was handed out for it.
TokensTypeOK ==
  /\ \A a, b \in accounts : (a.id = b.id \/ a.email = b.email) => a = b
  /\ \A a \in accounts :
       a.refresh_token_hash # NoToken =>
         \E t \in tokens : t.n = a.refresh_token_hash /\ t.id = a.id
  /\ \A t \in tokens : t.n \in 1..calls /\ t.from \in 0..calls
  /\ \A c \in Clients : call[c].pc \in {"idle", "flush", "commit"} /\ call[c].n \in 0..calls
  /\ calls \in Nat

\* "Old refresh token is invalidated (rotation)": one token is exchanged for two
\* only by requests that ran at the same time.
RotationNeedsOverlap ==
  \A t, u \in tokens : (t.from = u.from /\ t.from # NoToken) => (t = u \/ {t.n, u.n} \in met)

\* "Revoke refresh token": a session that was there when its user logged out goes
\* on only through a refresh that ran at the same time as the logout.
LogoutHolds ==
  \A t \in tokens, l \in logouts :
    (t.from \in l.killed /\ t.n \notin l.killed) => {t.n, l.n} \in met
=============================================================================
