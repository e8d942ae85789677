------------------------ MODULE RulesetDeliveryProofs ------------------------
(***************************************************************************)
(* Theorems about RulesetDelivery for any number of clients, requests,     *)
(* queries, versions, faults and unbumped changes.                         *)
(***************************************************************************)
EXTENDS RulesetDelivery, TLAPS

-----------------------------------------------------------------------------
(* Types.                                                                   *)

LEMMA Basics ==
  /\ 1 \in Queries /\ NumQueries \in Queries
  /\ 0 \in Versions /\ None \notin Versions
  /\ Queries \subseteq Nat /\ Versions \subseteq Nat
  /\ \A q \in Queries : q # NumQueries => q + 1 \in Queries
  /\ \A v \in Versions : v < MaxVersion => v + 1 \in Versions
BY DeliveryAssumption DEF Queries, Versions, None

LEMMA NoPayloadType == NoPayload \in Payload
BY DEF NoPayload, Payload, Stamps

LEMMA IdleTypes ==
  /\ IdleTx \in Transaction
  /\ \A c \in Clients : IdleHandler(c) \in Request
BY Basics, NoPayloadType DEF IdleTx, IdleHandler, Transaction, Request, TxStates, HandlerStates

LEMMA TypeInit == ASSUME Init PROVE TypeOK
<1>1. PICK c \in Clients : handler = [h \in Handlers |-> IdleHandler(c)]
  BY DEF Init
<1>2. handler \in [Handlers -> Request]
  BY <1>1, IdleTypes
<1>3. sdk \in [Clients -> RulesetCache]
  BY Basics, NoPayloadType DEF Init, RulesetCache
<1>4. /\ version \in Versions /\ content \in Stamps /\ history \in [Versions -> Stamps]
      /\ redis \in Payload /\ tx \in Transaction /\ tx.pc = "idle"
  BY Basics, NoPayloadType, IdleTypes DEF Init, Stamps, IdleTx
<1>5. /\ waiting \in [Clients -> Handlers \cup {NoHandler}] /\ stream \in [Clients -> BOOLEAN]
      /\ inbox \in [Clients -> Seq(Versions)] /\ silent \in 0..MaxSilent /\ faults \in 0..MaxFaults
  BY DeliveryAssumption DEF Init
<1>6. QED
  BY <1>2, <1>3, <1>4, <1>5 DEF TypeOK

\* One lemma for the counter every failing step takes from.
LEMMA FaultType == ASSUME faults \in 0..MaxFaults, Fault PROVE faults' \in 0..MaxFaults
BY DeliveryAssumption DEF Fault

\* StartFetch is shared by the poller and the stream thread.
LEMMA StartFetchType ==
  ASSUME TypeOK, NEW c \in Clients, StartFetch(c)
  PROVE  waiting' \in [Clients -> Handlers \cup {NoHandler}] /\ handler' \in [Handlers -> Request]
<1>1. PICK h \in Handlers :
        /\ waiting' = [waiting EXCEPT ![c] = h]
        /\ handler' = [handler EXCEPT ![h] = [IdleHandler(c) EXCEPT
                         !.pc = "auth", !.inm = sdk[c].etag]]
  BY DEF StartFetch
<1>2. IdleHandler(c) \in Request
  BY IdleTypes
<1>3. sdk[c].etag \in Versions \cup {None}
  BY DEF TypeOK, RulesetCache
<1>4. [IdleHandler(c) EXCEPT !.pc = "auth", !.inm = sdk[c].etag] \in Request
  BY <1>2, <1>3 DEF Request, HandlerStates
<1>5. QED
  BY <1>1, <1>4 DEF TypeOK

LEMMA WriteType == ASSUME TypeOK, Write PROVE TypeOK'
<1>1. ASSUME NEW S \in SUBSET Queries, NEW again \in BOOLEAN, Bump(S, again) PROVE TypeOK'
  <2>1. tx' \in Transaction
    BY <1>1, Basics DEF TypeOK, Bump, Transaction, TxStates
  <2>2. QED
    BY <1>1, <2>1 DEF TypeOK, Bump, database
<1>2. CASE DeleteCached
  <2>1. tx' \in Transaction /\ version' < MaxVersion
    BY <1>2 DEF TypeOK, DeleteCached, Transaction, TxStates, database
  <2>2. redis' \in Payload /\ faults' \in 0..MaxFaults
    BY <1>2, FaultType, NoPayloadType DEF TypeOK, DeleteCached
  <2>3. QED
    BY <1>2, <2>1, <2>2 DEF TypeOK, DeleteCached, database
<1>3. CASE Publish
  <2>1. tx' \in Transaction /\ version' < MaxVersion
    BY <1>3 DEF TypeOK, Publish, Transaction, TxStates, database
  <2>2. tx.msg \in Versions
    BY DEF TypeOK, Transaction
  <2>3. inbox' \in [Clients -> Seq(Versions)]
    <3>1. \A c \in Clients : Append(inbox[c], tx.msg) \in Seq(Versions)
      BY <2>2 DEF TypeOK
    <3>2. QED
      BY <1>3, <3>1 DEF TypeOK, Publish
  <2>4. QED
    BY <1>3, <2>1, <2>3, FaultType DEF TypeOK, Publish, database
<1>4. CASE InvalidateAgain
  <2>1. tx' \in Transaction /\ version' < MaxVersion
    BY <1>4, Basics DEF TypeOK, InvalidateAgain, Transaction, TxStates, database
  <2>2. QED
    BY <1>4, <2>1 DEF TypeOK, InvalidateAgain, database
<1>5. CASE Commit
  <2>1. version' \in Versions
    BY <1>5, Basics DEF TypeOK, Commit
  <2>2. content' \in Stamps
    BY <1>5 DEF TypeOK, Commit, Stamps
  <2>3. history' \in [Versions -> Stamps]
    BY <1>5, <2>2 DEF TypeOK, Commit
  <2>4. tx' \in Transaction /\ tx'.pc = "idle"
    BY <1>5, IdleTypes DEF Commit, IdleTx
  <2>5. QED
    BY <1>5, <2>1, <2>2, <2>3, <2>4 DEF TypeOK, Commit
<1>6. CASE Rollback
  <2>1. tx' \in Transaction /\ tx'.pc = "idle" /\ faults' \in 0..MaxFaults
    BY <1>6, IdleTypes, FaultType DEF Rollback, IdleTx, TypeOK
  <2>2. QED
    BY <1>6, <2>1 DEF TypeOK, Rollback, database
<1>7. QED
  BY <1>1, <1>2, <1>3, <1>4, <1>5, <1>6 DEF Write

LEMMA ServeType == ASSUME TypeOK, NEW h \in Handlers, Serve(h) PROVE TypeOK'
<1>0. handler[h] \in Request
  BY DEF TypeOK
<1>1. CASE Authenticate(h)
  <2>1. handler' \in [Handlers -> Request]
    BY <1>0, <1>1 DEF TypeOK, Authenticate, Request, HandlerStates
  <2>2. QED
    BY <1>1, <2>1 DEF TypeOK, Authenticate, database
<1>2. CASE LookupCache(h)
  <2> DEFINE hit == [handler[h] EXCEPT !.pc = "reply", !.body = redis]
             miss == [handler[h] EXCEPT !.pc = "load"]
  <2>1. hit \in Request /\ miss \in Request
    BY <1>0 DEF TypeOK, Request, HandlerStates
  <2>2. handler' \in [Handlers -> Request]
    <3>1. handler' = [handler EXCEPT ![h] = hit] \/ handler' = [handler EXCEPT ![h] = miss]
      BY <1>2 DEF LookupCache
    <3> HIDE DEF hit, miss
    <3>2. QED
      BY <2>1, <3>1 DEF TypeOK
  <2>3. faults' \in 0..MaxFaults
    BY <1>2, FaultType DEF TypeOK, LookupCache
  <2>4. QED
    BY <1>2, <2>2, <2>3 DEF TypeOK, LookupCache, database
<1>3. CASE LoadQuery(h)
  <2> DEFINE q == handler[h].next
             b == [handler[h].body EXCEPT !.content[q] = content[q],
                     !.label = IF q = NumQueries THEN handler[h].ver ELSE @]
  <2>1. q \in Queries /\ content[q] \in Nat
    BY <1>0 DEF Request, TypeOK, Stamps
  <2>2. handler[h].body \in Payload /\ handler[h].ver \in Versions
    BY <1>0 DEF Request
  <2>3. b \in Payload
    BY <2>1, <2>2 DEF Payload, Stamps
  <2>4. handler' \in [Handlers -> Request]
    <3>1. handler' = [handler EXCEPT ![h] = [@ EXCEPT
                        !.body = b,
                        !.next = IF q = NumQueries THEN 1 ELSE q + 1,
                        !.pc = IF q = NumQueries THEN "store" ELSE "load"]]
      BY <1>0, <1>3, <2>2 DEF TypeOK, LoadQuery, Request, Payload
    <3>2. handler'[h] \in Request
      BY <1>0, <2>1, <2>3, <3>1, Basics DEF TypeOK, Request, HandlerStates
    <3>3. QED
      BY <3>1, <3>2 DEF TypeOK
  <2>5. QED
    BY <1>3, <2>4 DEF TypeOK, LoadQuery, database
<1>4. CASE StoreCache(h)
  <2>1. handler' \in [Handlers -> Request]
    BY <1>0, <1>4 DEF TypeOK, StoreCache, Request, HandlerStates
  <2>2. redis' \in Payload
    BY <1>0, <1>4 DEF TypeOK, StoreCache, Request
  <2>3. QED
    BY <1>4, <2>1, <2>2, FaultType DEF TypeOK, StoreCache, database
<1>5. CASE Respond(h)
  <2>1. handler[h].client \in Clients
    BY <1>0 DEF Request
  <2>2. handler' \in [Handlers -> Request]
    BY <1>5, <2>1, IdleTypes DEF TypeOK, Respond
  <2>3. [payload |-> handler[h].body, etag |-> handler[h].ver] \in RulesetCache
    BY <1>0 DEF Request, RulesetCache
  <2>4. sdk' \in [Clients -> RulesetCache]
    BY <1>5, <2>1, <2>3 DEF TypeOK, Respond
  <2>5. waiting' \in [Clients -> Handlers \cup {NoHandler}]
    BY <1>5, <2>1 DEF TypeOK, Respond
  <2>6. QED
    BY <1>5, <2>2, <2>4, <2>5 DEF TypeOK, Respond, database
<1>6. QED
  BY <1>1, <1>2, <1>3, <1>4, <1>5 DEF Serve

LEMMA ClientType ==
  ASSUME TypeOK, NEW c \in Clients,
         Poll(c) \/ FetchFails(c) \/ Connect(c) \/ Disconnect(c) \/ Listen(c)
  PROVE  TypeOK'
<1>0. inbox[c] # <<>> => Tail(inbox[c]) \in Seq(Versions)
  BY DEF TypeOK
<1>1. CASE Poll(c)
  BY <1>1, StartFetchType DEF TypeOK, Poll, database
<1>2. CASE FetchFails(c)
  <2>1. handler' \in [Handlers -> Request]
    BY <1>2, IdleTypes DEF TypeOK, FetchFails
  <2>2. QED
    BY <1>2, <2>1, FaultType DEF TypeOK, FetchFails, database
<1>3. CASE Connect(c)
  BY <1>3 DEF TypeOK, Connect, database
<1>4. CASE Disconnect(c)
  BY <1>4, FaultType DEF TypeOK, Disconnect, database
<1>5. CASE StreamSkip(c)
  BY <1>0, <1>5 DEF TypeOK, StreamSkip, database
<1>6. CASE StreamFetch(c)
  BY <1>0, <1>6, StartFetchType DEF TypeOK, StreamFetch, database
<1>7. CASE StreamLockTimeout(c)
  BY <1>0, <1>7 DEF TypeOK, StreamLockTimeout, database
<1>8. QED
  BY <1>1, <1>2, <1>3, <1>4, <1>5, <1>6, <1>7 DEF Listen

LEMMA TypeNext == ASSUME TypeOK, [Next]_vars PROVE TypeOK'
<1>1. CASE ArchiveWithoutBump
  <2>1. content' \in Stamps /\ silent' \in 0..MaxSilent
    BY <1>1, Basics, DeliveryAssumption DEF TypeOK, ArchiveWithoutBump, Stamps
  <2>2. QED
    BY <1>1, <2>1 DEF TypeOK, ArchiveWithoutBump
<1>2. CASE CacheExpires
  BY <1>2, NoPayloadType DEF TypeOK, CacheExpires, database
<1>3. CASE UNCHANGED vars
  BY <1>3 DEF TypeOK, vars
<1>4. QED
  BY <1>1, <1>2, <1>3, WriteType, ServeType, ClientType DEF Next

\* Every variable keeps its type in every reachable state.
THEOREM TypeCorrect == Spec => []TypeOK
<1>1. Init => TypeOK
  BY TypeInit
<1>2. TypeOK /\ [Next]_vars => TypeOK'
  BY TypeNext
<1>3. QED
  BY <1>1, <1>2, PTL DEF Spec

-----------------------------------------------------------------------------
(* Labels.  The committed state only grows, so whatever was at least as new *)
(* as version v stays so.                                                   *)

Grows ==
  /\ version <= version'
  /\ \A v \in Versions : v <= version => history'[v] = history[v]
  /\ \A q \in Queries : content'[q] >= content[q]

LEMMA CommittedGrows ==
  ASSUME TypeOK, HistoryInv, [Next]_vars
  PROVE  Grows /\ HistoryInv'
<1>0. version \in Nat /\ version \in Versions
  BY Basics DEF TypeOK
<1>1. CASE Commit
  <2>1. version' = version + 1 /\ version' \in Versions
    BY <1>1, TypeNext DEF Commit, TypeOK
  <2>2. \A q \in Queries : content[q] \in Nat /\ content'[q] \in Nat /\ content'[q] >= content[q]
    BY <1>1 DEF Commit, TypeOK, Stamps
  <2>3. \A v \in Versions : history'[v] = IF v = version + 1 THEN content' ELSE history[v]
    BY <1>1 DEF Commit, TypeOK
  <2>4. \A v \in Versions, q \in Queries : history[v][q] \in Nat
    BY DEF TypeOK, Stamps
  <2>5. \A v \in Versions : v <= version => history'[v] = history[v]
    BY <1>0, <2>3, Basics
  <2>6. Grows
    BY <1>0, <2>1, <2>2, <2>5 DEF Grows
  <2>7. \A v \in Versions : v <= version => AtLeast(content', history[v])
    BY <2>2, <2>4 DEF HistoryInv, AtLeast
  <2>8. \A v \in Versions : v <= version' => AtLeast(content', history'[v])
    <3> SUFFICES ASSUME NEW v \in Versions, v <= version' PROVE AtLeast(content', history'[v])
      OBVIOUS
    <3>1. CASE v = version + 1
      BY <2>2, <2>3, <3>1 DEF AtLeast
    <3>2. CASE v <= version
      BY <2>5, <2>7, <3>2
    <3>3. QED
      BY <1>0, <2>1, <3>1, <3>2, Basics
  <2>9. ASSUME NEW u \in Versions, NEW v \in Versions, u <= v, v <= version'
        PROVE  AtLeast(history'[v], history'[u])
    <3>1. CASE v = version + 1
      BY <1>0, <2>1, <2>3, <2>8, <2>9, <3>1, Basics
    <3>2. CASE v <= version
      <4>1. u <= version
        BY <1>0, <2>9, <3>2, Basics
      <4>2. QED
        BY <2>5, <2>9, <3>2, <4>1 DEF HistoryInv
    <3>3. QED
      BY <1>0, <2>1, <2>9, <3>1, <3>2, Basics
  <2>10. QED
    BY <2>6, <2>8, <2>9 DEF HistoryInv
<1>2. CASE ArchiveWithoutBump
  <2>1. \A q \in Queries : content[q] \in Nat /\ content'[q] \in Nat /\ content'[q] >= content[q]
    BY <1>2, Basics DEF ArchiveWithoutBump, TypeOK, Stamps
  <2>2. version' = version /\ history' = history
    BY <1>2 DEF ArchiveWithoutBump
  <2>3. \A v \in Versions, q \in Queries : history[v][q] \in Nat
    BY DEF TypeOK, Stamps
  <2>4. QED
    BY <1>0, <2>1, <2>2, <2>3 DEF Grows, HistoryInv, AtLeast
<1>3. CASE UNCHANGED database
  <2>1. \A q \in Queries : content[q] \in Nat
    BY DEF TypeOK, Stamps
  <2>2. QED
    BY <1>0, <1>3, <2>1 DEF database, Grows, HistoryInv, AtLeast
<1>4. Commit \/ ArchiveWithoutBump \/ UNCHANGED database
  <2>1. CASE Write
    BY <2>1 DEF Write, Bump, DeleteCached, Publish, InvalidateAgain, Rollback
  <2>2. CASE \E h \in Handlers : Serve(h)
    BY <2>2 DEF Serve, Authenticate, LookupCache, LoadQuery, StoreCache, Respond
  <2>3. CASE \E c \in Clients : Poll(c) \/ FetchFails(c) \/ Connect(c) \/ Disconnect(c) \/ Listen(c)
    BY <2>3 DEF Poll, FetchFails, Connect, Disconnect, Listen, StreamSkip, StreamFetch,
                StreamLockTimeout
  <2>4. CASE CacheExpires \/ UNCHANGED vars
    BY <2>4 DEF CacheExpires, vars, database
  <2>5. QED
    BY <2>1, <2>2, <2>3, <2>4 DEF Next
<1>5. QED
  BY <1>1, <1>2, <1>3, <1>4

\* The parts of RequestInv and LabelFresh as operators of the values they speak
\* about, so that they can be carried over a step.
FreshAs(p, ver, hist) ==
  p.label # None => p.label <= ver /\ AtLeast(p.content, hist[p.label])

RequestAs(r, ver, hist) ==
  /\ r.pc \notin {"idle", "auth"} => r.ver <= ver
  /\ r.pc \in {"auth", "lookup"} => r.next = 1
  /\ r.pc = "load" => \A q \in 1..(r.next - 1) : r.body.content[q] >= hist[r.ver][q]
  /\ r.pc = "store" => r.body.label = r.ver
  /\ r.pc \in {"store", "reply"} => FreshAs(r.body, ver, hist)

LEMMA FreshKept ==
  ASSUME TypeOK, Grows, NEW p \in Payload, FreshAs(p, version, history), version' \in Versions
  PROVE  FreshAs(p, version', history')
<1>1. CASE p.label = None
  BY <1>1 DEF FreshAs
<1>2. CASE p.label # None
  <2>1. p.label \in Versions /\ p.label <= version
    BY <1>2 DEF FreshAs, Payload
  <2>2. history'[p.label] = history[p.label] /\ p.label <= version'
    BY <2>1, Basics DEF Grows, TypeOK
  <2>3. QED
    BY <1>2, <2>2 DEF FreshAs
<1>3. QED
  BY <1>1, <1>2

LEMMA RequestKept ==
  ASSUME TypeOK, Grows, NEW r \in Request, RequestAs(r, version, history), version' \in Versions
  PROVE  RequestAs(r, version', history')
<1>1. r.ver \in Versions /\ r.body \in Payload
  BY DEF Request
<1>2. r.pc \notin {"idle", "auth"} => history'[r.ver] = history[r.ver] /\ r.ver <= version'
  <2> SUFFICES ASSUME r.pc \notin {"idle", "auth"}
               PROVE  history'[r.ver] = history[r.ver] /\ r.ver <= version'
    OBVIOUS
  <2>1. r.ver <= version
    BY DEF RequestAs
  <2>2. /\ version \in Nat /\ version' \in Nat /\ r.ver \in Nat /\ version <= version'
    BY <1>1, Basics DEF Grows, TypeOK
  <2>3. QED
    BY <1>1, <2>1, <2>2 DEF Grows
<1>3. r.pc \in {"store", "reply"} => FreshAs(r.body, version', history')
  BY <1>1, FreshKept DEF RequestAs
<1>4. r.pc = "load" => r.pc \notin {"idle", "auth"}
  OBVIOUS
<1>5. r.pc = "load" => \A q \in 1..(r.next - 1) : r.body.content[q] >= history'[r.ver][q]
  BY <1>2, <1>4 DEF RequestAs
<1>6. QED
  BY <1>2, <1>3, <1>5 DEF RequestAs

\* What Redis, the clients and the requests hold after a step is fresh with
\* respect to the database before the step.
Held(cache, clients, requests) ==
  /\ FreshAs(cache, version, history)
  /\ \A c \in Clients : FreshAs(clients[c].payload, version, history)
  /\ \A h \in Handlers : RequestAs(requests[h], version, history)

LEMMA HeldNow == LabelInv <=> HistoryInv /\ Held(redis, sdk, handler)
BY DEF LabelInv, LabelsFresh, LabelFresh, RequestInv, Held, FreshAs, RequestAs

LEMMA HeldNext ==
  LabelInv' <=> /\ HistoryInv'
                /\ FreshAs(redis', version', history')
                /\ \A c \in Clients : FreshAs(sdk'[c].payload, version', history')
                /\ \A h \in Handlers : RequestAs(handler'[h], version', history')
BY DEF LabelInv, LabelsFresh, LabelFresh, RequestInv, FreshAs, RequestAs

LEMMA NotStarted ==
  ASSUME NEW c \in Clients, NEW i
  PROVE  /\ RequestAs(IdleHandler(c), version, history)
         /\ RequestAs([IdleHandler(c) EXCEPT !.pc = "auth", !.inm = i], version, history)
BY DEF RequestAs, IdleHandler

\* One request moves on and nothing else does.
LEMMA HandlerHeld ==
  ASSUME TypeOK, Held(redis, sdk, handler), NEW h \in Handlers, NEW r,
         RequestAs(r, version, history)
  PROVE  Held(redis, sdk, [handler EXCEPT ![h] = r])
BY DEF TypeOK, Held

LEMMA ServeHeld ==
  ASSUME TypeOK, LabelInv, NEW h \in Handlers, Serve(h)
  PROVE  Held(redis', sdk', handler')
<1>0. Held(redis, sdk, handler) /\ HistoryInv
  BY HeldNow
<1>1. handler[h] \in Request /\ RequestAs(handler[h], version, history)
  BY <1>0 DEF TypeOK, Held
<1>2. CASE Authenticate(h)
  <2> DEFINE r == [handler[h] EXCEPT !.ver = version,
                     !.pc = IF handler[h].inm = version THEN "notModified" ELSE "lookup"]
  <2>1. handler' = [handler EXCEPT ![h] = r] /\ redis' = redis /\ sdk' = sdk
    BY <1>2 DEF Authenticate, TypeOK
  <2>2. /\ r.ver = version /\ r.pc \in {"lookup", "notModified"}
        /\ r.next = handler[h].next /\ handler[h].pc = "auth"
    BY <1>1, <1>2 DEF Request, Authenticate
  <2> HIDE DEF r
  <2>3. RequestAs(r, version, history)
    BY <1>1, <2>2, Basics DEF RequestAs, TypeOK
  <2>4. QED
    BY <1>0, <2>1, <2>3, HandlerHeld
<1>3. CASE LookupCache(h)
  <2> DEFINE hit == [handler[h] EXCEPT !.pc = "reply", !.body = redis]
             miss == [handler[h] EXCEPT !.pc = "load"]
  <2>1. /\ handler' = [handler EXCEPT ![h] = hit] \/ handler' = [handler EXCEPT ![h] = miss]
        /\ redis' = redis /\ sdk' = sdk /\ handler[h].pc = "lookup"
    BY <1>3 DEF LookupCache, TypeOK
  <2>2. /\ hit.pc = "reply" /\ hit.body = redis /\ hit.ver = handler[h].ver
        /\ miss.pc = "load" /\ miss.ver = handler[h].ver /\ miss.next = handler[h].next
    BY <1>1 DEF Request
  <2> HIDE DEF hit, miss
  <2>3. RequestAs(hit, version, history)
    BY <1>0, <1>1, <2>1, <2>2 DEF RequestAs, Held
  <2>4. RequestAs(miss, version, history)
    BY <1>1, <2>1, <2>2 DEF RequestAs
  <2>5. QED
    BY <1>0, <2>1, <2>3, <2>4, HandlerHeld
<1>4. CASE LoadQuery(h)
  <2> DEFINE q == handler[h].next
             last == q = NumQueries
             b == [handler[h].body EXCEPT !.content[q] = content[q],
                     !.label = IF last THEN handler[h].ver ELSE @]
             r == [handler[h] EXCEPT !.body = b,
                     !.next = IF last THEN 1 ELSE q + 1,
                     !.pc = IF last THEN "store" ELSE "load"]
  <2>1. handler' = [handler EXCEPT ![h] = r] /\ redis' = redis /\ sdk' = sdk /\ handler[h].pc = "load"
    <3>1. handler[h].body \in Payload
      BY <1>1 DEF Request
    <3>2. handler' = [handler EXCEPT ![h] = [@ EXCEPT
                        !.body = b,
                        !.next = IF q = NumQueries THEN 1 ELSE q + 1,
                        !.pc = IF q = NumQueries THEN "store" ELSE "load"]]
      BY <1>1, <1>4, <3>1 DEF TypeOK, LoadQuery, Request, Payload
    <3>3. handler[h].pc = "load" /\ redis' = redis /\ sdk' = sdk
      BY <1>4 DEF LoadQuery
    <3>4. QED
      BY <3>2, <3>3
  <2>2. q \in Queries /\ handler[h].body \in Payload /\ handler[h].ver \in Versions
    BY <1>1 DEF Request
  <2>3. b.label = IF last THEN handler[h].ver ELSE handler[h].body.label
    BY <2>2 DEF Payload
  <2>4. \A i \in Queries : b.content[i] = IF i = q THEN content[q] ELSE handler[h].body.content[i]
    BY <2>2 DEF Payload, Stamps
  <2>5. /\ r.body = b /\ r.ver = handler[h].ver
        /\ r.next = IF last THEN 1 ELSE q + 1
        /\ r.pc = IF last THEN "store" ELSE "load"
    BY <1>1 DEF Request
  <2>6. handler[h].ver <= version
    BY <1>1, <2>1 DEF RequestAs
  <2>7. content[q] >= history[handler[h].ver][q]
    BY <1>0, <2>2, <2>6 DEF HistoryInv, AtLeast
  <2> HIDE DEF b, r
  <2>8. \A i \in 1..q : b.content[i] >= history[handler[h].ver][i]
    <3>1. \A i \in 1..q : i \in Queries /\ (i # q => i \in 1..(q - 1))
      BY <2>2, DeliveryAssumption DEF Queries
    <3>2. \A i \in 1..(q - 1) : handler[h].body.content[i] >= history[handler[h].ver][i]
      BY <1>1, <2>1 DEF RequestAs
    <3>3. QED
      BY <2>4, <2>7, <3>1, <3>2
  <2>9. CASE last
    <3>1. q = NumQueries /\ r.pc = "store" /\ r.ver = handler[h].ver /\ b.label = handler[h].ver
      BY <2>3, <2>5, <2>9
    <3>2. AtLeast(b.content, history[b.label])
      BY <2>8, <3>1 DEF AtLeast, Queries
    <3>3. RequestAs(r, version, history)
      BY <2>5, <2>6, <3>1, <3>2 DEF RequestAs, FreshAs
    <3>4. QED
      BY <1>0, <2>1, <3>3, HandlerHeld
  <2>10. CASE ~last
    <3>1. r.pc = "load" /\ r.next = q + 1 /\ r.next - 1 = q
      <4>1. r.pc = "load" /\ r.next = q + 1
        BY <2>5, <2>10
      <4>2. q \in Nat
        BY <2>2, Basics
      <4>3. QED
        BY <4>1, <4>2
    <3>2. RequestAs(r, version, history)
      BY <2>5, <2>6, <2>8, <3>1 DEF RequestAs
    <3>3. QED
      BY <1>0, <2>1, <3>2, HandlerHeld
  <2>11. QED
    BY <2>9, <2>10
<1>5. CASE StoreCache(h)
  <2> DEFINE r == [handler[h] EXCEPT !.pc = "reply"]
  <2>1. /\ handler' = [handler EXCEPT ![h] = r] /\ sdk' = sdk /\ handler[h].pc = "store"
        /\ redis' = redis \/ redis' = handler[h].body
    BY <1>5 DEF StoreCache, TypeOK
  <2>2. r.pc = "reply" /\ r.body = handler[h].body /\ r.ver = handler[h].ver
    BY <1>1 DEF Request
  <2> HIDE DEF r
  <2>3. RequestAs(r, version, history) /\ FreshAs(handler[h].body, version, history)
    BY <1>1, <2>1, <2>2 DEF RequestAs
  <2>4. Held(redis, sdk, handler')
    BY <1>0, <2>1, <2>3, HandlerHeld
  <2>5. QED
    BY <2>1, <2>3, <2>4 DEF Held
<1>6. CASE Respond(h)
  <2> DEFINE c == handler[h].client
  <2>1. c \in Clients
    BY <1>1 DEF Request
  <2>2. handler' = [handler EXCEPT ![h] = IdleHandler(c)] /\ redis' = redis
    BY <1>6 DEF Respond
  <2>3. Held(redis, sdk, handler')
    BY <1>0, <2>1, <2>2, NotStarted, HandlerHeld
  <2>4. \A d \in Clients : FreshAs(sdk'[d].payload, version, history)
    <3>1. CASE handler[h].pc = "reply"
      <4>1. FreshAs(handler[h].body, version, history)
        BY <1>1, <3>1 DEF RequestAs
      <4>2. \A d \in Clients : sdk'[d].payload \in {sdk[d].payload, handler[h].body}
        <5>1. sdk' = sdk \/ sdk' = [sdk EXCEPT ![c] = [payload |-> handler[h].body,
                                                      etag |-> handler[h].ver]]
          BY <1>6 DEF Respond
        <5>2. QED
          BY <2>1, <5>1 DEF TypeOK
      <4>3. QED
        BY <1>0, <4>1, <4>2 DEF Held
    <3>2. CASE handler[h].pc # "reply"
      BY <1>0, <1>6, <3>2 DEF Respond, Held
    <3>3. QED
      BY <3>1, <3>2
  <2>5. QED
    BY <2>2, <2>3, <2>4 DEF Held
<1>7. QED
  BY <1>2, <1>3, <1>4, <1>5, <1>6 DEF Serve

LEMMA NextHeld ==
  ASSUME TypeOK, LabelInv, [Next]_vars
  PROVE  Held(redis', sdk', handler')
<1>0. Held(redis, sdk, handler)
  BY HeldNow
<1>1. FreshAs(NoPayload, version, history)
  BY DEF FreshAs, NoPayload
<1>2. CASE UNCHANGED <<redis, sdk, handler>>
  BY <1>0, <1>2
<1>3. CASE redis' = NoPayload /\ UNCHANGED <<sdk, handler>>
  BY <1>0, <1>1, <1>3 DEF Held
<1>4. ASSUME NEW c \in Clients, StartFetch(c), UNCHANGED <<redis, sdk>>
      PROVE  Held(redis', sdk', handler')
  <2>1. PICK h \in Handlers :
          handler' = [handler EXCEPT ![h] = [IdleHandler(c) EXCEPT
                        !.pc = "auth", !.inm = sdk[c].etag]]
    BY <1>4 DEF StartFetch
  <2> DEFINE r == [IdleHandler(c) EXCEPT !.pc = "auth", !.inm = sdk[c].etag]
  <2>2. RequestAs(r, version, history)
    BY NotStarted
  <2> HIDE DEF r
  <2>3. Held(redis, sdk, [handler EXCEPT ![h] = r])
    BY <1>0, <2>2, HandlerHeld
  <2>4. handler' = [handler EXCEPT ![h] = r]
    BY <2>1 DEF r
  <2>5. QED
    BY <1>4, <2>3, <2>4
<1>5. ASSUME NEW c \in Clients, FetchFails(c) PROVE Held(redis', sdk', handler')
  <2>1. waiting[c] \in Handlers
    BY <1>5 DEF FetchFails, TypeOK
  <2>2. QED
    BY <1>0, <1>5, <2>1, NotStarted, HandlerHeld DEF FetchFails
<1>6. CASE Write \/ ArchiveWithoutBump \/ CacheExpires \/ UNCHANGED vars
  <2>1. UNCHANGED <<sdk, handler>> /\ redis' \in {redis, NoPayload}
    BY <1>6 DEF Write, Bump, DeleteCached, Publish, InvalidateAgain, Commit, Rollback,
                ArchiveWithoutBump, CacheExpires, vars
  <2>2. QED
    BY <1>2, <1>3, <2>1
<1>7. ASSUME NEW c \in Clients,
             Poll(c) \/ FetchFails(c) \/ Connect(c) \/ Disconnect(c) \/ Listen(c)
      PROVE  Held(redis', sdk', handler')
  <2>1. CASE FetchFails(c)
    BY <1>5, <2>1
  <2>2. CASE Poll(c) \/ StreamFetch(c)
    BY <1>4, <2>2 DEF Poll, StreamFetch
  <2>3. CASE Connect(c) \/ Disconnect(c) \/ StreamSkip(c) \/ StreamLockTimeout(c)
    BY <1>2, <2>3 DEF Connect, Disconnect, StreamSkip, StreamLockTimeout
  <2>4. QED
    BY <1>7, <2>1, <2>2, <2>3 DEF Listen
<1>8. QED
  BY <1>6, <1>7, ServeHeld DEF Next

LEMMA LabelNext == ASSUME TypeOK, LabelInv, [Next]_vars PROVE LabelInv'
<1>1. TypeOK' /\ version' \in Versions
  <2>1. TypeOK'
    BY TypeNext
  <2>2. QED
    BY <2>1 DEF TypeOK
<1>2. Grows /\ HistoryInv'
  BY CommittedGrows DEF LabelInv
<1>3. Held(redis', sdk', handler')
  BY NextHeld
<1>4. redis' \in Payload /\ \A c \in Clients : sdk'[c].payload \in Payload
  BY <1>1 DEF TypeOK, RulesetCache
<1>5. \A h \in Handlers : handler'[h] \in Request
  BY <1>1 DEF TypeOK
<1>6. FreshAs(redis', version', history')
  BY <1>1, <1>2, <1>3, <1>4, FreshKept DEF Held
<1>7. \A c \in Clients : FreshAs(sdk'[c].payload, version', history')
  BY <1>1, <1>2, <1>3, <1>4, FreshKept DEF Held
<1>8. \A h \in Handlers : RequestAs(handler'[h], version', history')
  BY <1>1, <1>2, <1>3, <1>5, RequestKept DEF Held
<1>9. QED
  BY <1>2, <1>6, <1>7, <1>8, HeldNext

LEMMA LabelInit == ASSUME Init PROVE LabelInv
<1>1. HistoryInv
  BY DEF Init, HistoryInv, AtLeast
<1>2. FreshAs(redis, version, history) /\ \A c \in Clients : FreshAs(sdk[c].payload, version, history)
  BY DEF Init, FreshAs, NoPayload
<1>3. \A h \in Handlers : RequestAs(handler[h], version, history)
  BY NotStarted DEF Init
<1>4. QED
  BY <1>1, <1>2, <1>3, HeldNow DEF Held

THEOREM LabelInvariant == Spec => []LabelInv
<1>1. Init => LabelInv
  BY LabelInit
<1>2. TypeOK /\ LabelInv /\ [Next]_vars => LabelInv'
  BY LabelNext
<1>3. QED
  BY <1>1, <1>2, TypeCorrect, PTL DEF Spec

\* Whatever the interleaving of edits, cache fills and fetches, and with Redis
\* or without, no payload is older than the version it is labelled with.
THEOREM LabelsAreFresh == Spec => []LabelsFresh
<1>1. LabelInv => LabelsFresh
  BY DEF LabelInv
<1>2. QED
  BY <1>1, LabelInvariant, PTL

\* An event that _on_stream_update drops as a duplicate tells the client nothing.
THEOREM SkippingIsSafe == Spec => []SkipLosesNothing
<1>1. TypeOK /\ LabelInv => SkipLosesNothing
  <2> SUFFICES ASSUME TypeOK, LabelInv, NEW c \in Clients, inbox[c] # <<>>,
                      AlreadyHas(c, Head(inbox[c])), Head(inbox[c]) <= version
               PROVE  AtLeast(sdk[c].payload.content, history[Head(inbox[c])])
    BY DEF SkipLosesNothing
  <2> DEFINE p == sdk[c].payload
             v == Head(inbox[c])
  <2>1. p \in Payload /\ v \in Versions
    BY DEF TypeOK, RulesetCache
  <2>2. p.label \in Versions \cup {None} /\ p.label >= v
    BY <2>1 DEF Payload, AlreadyHas
  <2>3. p.label # None /\ p.label \in Versions
    <3>1. v \in Nat
      BY <2>1, Basics
    <3>2. ~(None >= v)
      BY <3>1 DEF None
    <3>3. QED
      BY <2>2, <3>2
  <2>4. p.label <= version /\ AtLeast(p.content, history[p.label])
    BY <2>3 DEF LabelInv, LabelsFresh, LabelFresh
  <2>5. AtLeast(history[p.label], history[v])
    BY <2>1, <2>2, <2>3, <2>4, Basics DEF LabelInv, HistoryInv
  <2>6. \A q \in Queries : /\ p.content[q] \in Nat /\ history[p.label][q] \in Nat
                           /\ history[v][q] \in Nat
    BY <2>1, <2>3 DEF TypeOK, Payload, Stamps
  <2>7. QED
    BY <2>4, <2>5, <2>6 DEF AtLeast
<1>2. QED
  BY <1>1, TypeCorrect, LabelInvariant, PTL

-----------------------------------------------------------------------------
(* Without Redis the ETag a client holds is the label of its payload.       *)

LEMMA OwnRowsNext ==
  ASSUME ~RedisEnabled, TypeOK, LabelInv, OwnRowsInv, [Next]_vars
  PROVE  OwnRowsInv'
<1>1. ASSUME NEW h \in Handlers, Serve(h) PROVE OwnRowsInv'
  <2>0. handler[h] \in Request /\ handler[h].client \in Clients
    BY DEF TypeOK, Request
  <2>1. CASE Authenticate(h) \/ LookupCache(h) \/ LoadQuery(h)
    <3>1. sdk' = sdk /\ handler'[h].pc # "reply"
      BY <1>1, <2>0, <2>1 DEF Authenticate, LookupCache, LoadQuery, UsesCache, TypeOK, Request
    <3>2. \A g \in Handlers : g # h => handler'[g] = handler[g]
      BY <1>1, <2>1 DEF Authenticate, LookupCache, LoadQuery, TypeOK
    <3>3. QED
      BY <3>1, <3>2 DEF OwnRowsInv
  <2>2. CASE StoreCache(h)
    <3> DEFINE r == [handler[h] EXCEPT !.pc = "reply"]
    <3>1. sdk' = sdk /\ handler[h].pc = "store" /\ handler' = [handler EXCEPT ![h] = r]
      BY <2>2 DEF StoreCache, TypeOK
    <3>2. r.body = handler[h].body /\ r.ver = handler[h].ver
      BY <2>0 DEF Request
    <3>3. handler[h].body.label = handler[h].ver
      BY <1>1, <3>1 DEF LabelInv, RequestInv
    <3> HIDE DEF r
    <3>4. QED
      BY <3>1, <3>2, <3>3 DEF OwnRowsInv, TypeOK
  <2>3. CASE Respond(h)
    <3> DEFINE c == handler[h].client
               held == [payload |-> handler[h].body, etag |-> handler[h].ver]
    <3>1. handler' = [handler EXCEPT ![h] = IdleHandler(c)]
      BY <2>3 DEF Respond
    <3>2. sdk' = sdk \/ (handler[h].pc = "reply" /\ sdk' = [sdk EXCEPT ![c] = held])
      BY <2>3 DEF Respond
    <3>3. handler[h].pc = "reply" => held.etag = held.payload.label
      BY <1>1 DEF OwnRowsInv
    <3>4. IdleHandler(c).pc = "idle"
      BY DEF IdleHandler
    <3> HIDE DEF c, held
    <3>5. \A d \in Clients : sdk'[d].etag = sdk'[d].payload.label
      BY <3>2, <3>3 DEF OwnRowsInv, TypeOK
    <3>6. QED
      BY <3>1, <3>4, <3>5 DEF OwnRowsInv, TypeOK
  <2>4. QED
    BY <1>1, <2>1, <2>2, <2>3 DEF Serve
<1>2. CASE UNCHANGED <<handler, sdk>>
  BY <1>2 DEF OwnRowsInv
<1>3. ASSUME NEW c \in Clients, StartFetch(c), sdk' = sdk PROVE OwnRowsInv'
  <2>1. PICK h \in Handlers :
          handler' = [handler EXCEPT ![h] = [IdleHandler(c) EXCEPT
                        !.pc = "auth", !.inm = sdk[c].etag]]
    BY <1>3 DEF StartFetch
  <2>2. handler'[h].pc = "auth"
    BY <2>1 DEF TypeOK, IdleHandler
  <2>3. \A g \in Handlers : g # h => handler'[g] = handler[g]
    BY <2>1 DEF TypeOK
  <2>4. QED
    BY <1>3, <2>2, <2>3 DEF OwnRowsInv
<1>4. ASSUME NEW c \in Clients, FetchFails(c) PROVE OwnRowsInv'
  <2>1. /\ sdk' = sdk
        /\ handler' = handler \/ handler' = [handler EXCEPT ![waiting[c]] = IdleHandler(c)]
    BY <1>4 DEF FetchFails
  <2>2. \A g \in Handlers : handler'[g] = handler[g] \/ handler'[g] = IdleHandler(c)
    BY <2>1 DEF TypeOK
  <2>3. IdleHandler(c).pc = "idle"
    BY DEF IdleHandler
  <2>4. QED
    BY <2>1, <2>2, <2>3 DEF OwnRowsInv
<1>5. QED
  <2>1. CASE Write \/ ArchiveWithoutBump \/ CacheExpires \/ UNCHANGED vars
    BY <1>2, <2>1 DEF Write, Bump, DeleteCached, Publish, InvalidateAgain, Commit, Rollback,
                      ArchiveWithoutBump, CacheExpires, vars
  <2>2. ASSUME NEW c \in Clients,
               Poll(c) \/ FetchFails(c) \/ Connect(c) \/ Disconnect(c) \/ Listen(c)
        PROVE  OwnRowsInv'
    <3>1. CASE Poll(c) \/ StreamFetch(c)
      BY <1>3, <3>1 DEF Poll, StreamFetch
    <3>2. CASE Connect(c) \/ Disconnect(c) \/ StreamSkip(c) \/ StreamLockTimeout(c)
      BY <1>2, <3>2 DEF Connect, Disconnect, StreamSkip, StreamLockTimeout
    <3>3. QED
      BY <1>4, <2>2, <3>1, <3>2 DEF Listen
  <2>3. QED
    BY <1>1, <2>1, <2>2 DEF Next

LEMMA OwnRowsInit == ASSUME Init PROVE OwnRowsInv
BY DEF Init, OwnRowsInv, IdleHandler, NoPayload

LEMMA OwnRowsInvariant == ~RedisEnabled => (Spec => []OwnRowsInv)
<1> SUFFICES ASSUME ~RedisEnabled PROVE Spec => []OwnRowsInv
  OBVIOUS
<1>1. Init => OwnRowsInv
  BY OwnRowsInit
<1>2. TypeOK /\ LabelInv /\ OwnRowsInv /\ [Next]_vars => OwnRowsInv'
  BY OwnRowsNext
<1>3. QED
  BY <1>1, <1>2, TypeCorrect, LabelInvariant, PTL DEF Spec

\* Without Redis a client that holds ETag v holds rows at least as new as
\* version v, so a 304 never leaves it behind the version the server compared.
THEOREM EtagsAreFresh == ~RedisEnabled => (Spec => []EtagFresh)
<1> SUFFICES ASSUME ~RedisEnabled PROVE Spec => []EtagFresh
  OBVIOUS
<1>1. Spec => []OwnRowsInv
  BY OwnRowsInvariant
<1>2. LabelInv /\ OwnRowsInv => EtagFresh
  BY DEF LabelInv, LabelsFresh, LabelFresh, OwnRowsInv, EtagFresh
<1>3. QED
  BY <1>1, <1>2, LabelInvariant, PTL

-----------------------------------------------------------------------------
(* Rows that are held somewhere are committed, so a payload that is not     *)
(* older than the current version is the committed ruleset.                 *)

LEMMA AtLeastGrows ==
  ASSUME TypeOK, TypeOK', Grows, NEW d \in Stamps, AtLeast(content, d)
  PROVE  AtLeast(content', d)
BY DEF TypeOK, Stamps, Grows, AtLeast

\* Redis, bodies and caches hold what requests have read, which is committed.
CommittedAs(cache, requests, clients) ==
  /\ AtLeast(content, cache.content)
  /\ \A h \in Handlers : AtLeast(content, requests[h].body.content)
  /\ \A c \in Clients : AtLeast(content, clients[c].payload.content)

LEMMA ServeCommitted ==
  ASSUME TypeOK, CommittedInv, NEW h \in Handlers, Serve(h)
  PROVE  CommittedAs(redis', handler', sdk')
<1>0. handler[h] \in Request /\ handler[h].body \in Payload /\ handler[h].next \in Queries
  BY DEF TypeOK, Request
<1>1. CommittedAs(redis, handler, sdk)
  BY DEF CommittedInv, CommittedAs
<1>2. CASE Authenticate(h) \/ LookupCache(h) \/ StoreCache(h)
  <2>1. /\ sdk' = sdk
        /\ handler'[h].body \in {handler[h].body, redis}
        /\ redis' \in {handler[h].body, redis}
    BY <1>0, <1>2 DEF Authenticate, LookupCache, StoreCache, TypeOK, Request
  <2>2. \A g \in Handlers : g # h => handler'[g] = handler[g]
    BY <1>2 DEF Authenticate, LookupCache, StoreCache, TypeOK
  <2>3. QED
    BY <1>1, <2>1, <2>2 DEF CommittedAs
<1>3. CASE LoadQuery(h)
  <2> DEFINE q == handler[h].next
  <2>1. sdk' = sdk /\ redis' = redis
    BY <1>3 DEF LoadQuery
  <2>2. \A g \in Handlers : g # h => handler'[g] = handler[g]
    BY <1>3 DEF LoadQuery, TypeOK
  <2>3. \A i \in Queries : handler'[h].body.content[i] =
                             IF i = q THEN content[q] ELSE handler[h].body.content[i]
    BY <1>0, <1>3 DEF LoadQuery, TypeOK, Request, Payload, Stamps
  <2>4. \A i \in Queries : content[i] \in Nat
    BY DEF TypeOK, Stamps
  <2>5. AtLeast(content, handler'[h].body.content)
    BY <1>0, <1>1, <2>3, <2>4 DEF AtLeast, CommittedAs
  <2>6. QED
    BY <1>1, <2>1, <2>2, <2>5 DEF CommittedAs
<1>4. CASE Respond(h)
  <2> DEFINE c == handler[h].client
             held == [payload |-> handler[h].body, etag |-> handler[h].ver]
  <2>1. /\ handler' = [handler EXCEPT ![h] = IdleHandler(c)]
        /\ redis' = redis
        /\ sdk' = sdk \/ sdk' = [sdk EXCEPT ![c] = held]
    BY <1>4 DEF Respond
  <2>2. held.payload = handler[h].body
    OBVIOUS
  <2>3. AtLeast(content, IdleHandler(c).body.content)
    BY DEF IdleHandler, NoPayload, AtLeast, TypeOK, Stamps
  <2> HIDE DEF c, held
  <2>4. \A g \in Handlers : AtLeast(content, handler'[g].body.content)
    BY <1>1, <2>1, <2>3 DEF TypeOK, CommittedAs
  <2>5. \A d \in Clients : sdk'[d].payload \in {sdk[d].payload, handler[h].body}
    BY <2>1, <2>2 DEF TypeOK
  <2>6. QED
    BY <1>1, <2>1, <2>4, <2>5 DEF CommittedAs
<1>5. QED
  BY <1>2, <1>3, <1>4 DEF Serve

\* A step that serves no request reads nothing.
LEMMA NothingRead ==
  ASSUME TypeOK, CommittedInv, sdk' = sdk, redis' \in {redis, NoPayload},
         \A h \in Handlers : handler'[h].body \in {handler[h].body, NoPayload}
  PROVE  CommittedAs(redis', handler', sdk')
<1>1. AtLeast(content, NoPayload.content)
  BY DEF NoPayload, AtLeast, TypeOK, Stamps
<1>2. QED
  BY <1>1 DEF CommittedInv, CommittedAs

LEMMA CommittedNext ==
  ASSUME TypeOK, LabelInv, CommittedInv, [Next]_vars
  PROVE  CommittedInv'
<1>0. TypeOK' /\ Grows
  BY TypeNext, CommittedGrows DEF LabelInv
<1>1. ASSUME CommittedAs(redis', handler', sdk') PROVE CommittedInv'
  <2>1. /\ redis'.content \in Stamps
        /\ \A h \in Handlers : handler'[h].body.content \in Stamps
        /\ \A c \in Clients : sdk'[c].payload.content \in Stamps
    BY <1>0 DEF TypeOK, Request, RulesetCache, Payload
  <2>2. /\ AtLeast(content', redis'.content)
        /\ \A h \in Handlers : AtLeast(content', handler'[h].body.content)
        /\ \A c \in Clients : AtLeast(content', sdk'[c].payload.content)
    BY <1>0, <1>1, <2>1, AtLeastGrows DEF CommittedAs
  <2>3. QED
    BY <2>2 DEF CommittedInv, AtLeast
<1>2. CASE Write \/ ArchiveWithoutBump \/ CacheExpires \/ UNCHANGED vars
  <2>1. sdk' = sdk /\ redis' \in {redis, NoPayload} /\ handler' = handler
    BY <1>2 DEF Write, Bump, DeleteCached, Publish, InvalidateAgain, Commit, Rollback,
                ArchiveWithoutBump, CacheExpires, vars
  <2>2. QED
    BY <1>1, <2>1, NothingRead
<1>3. ASSUME NEW h \in Handlers, Serve(h) PROVE CommittedInv'
  BY <1>1, <1>3, ServeCommitted
<1>4. ASSUME NEW c \in Clients, StartFetch(c), sdk' = sdk, redis' = redis PROVE CommittedInv'
  <2>1. PICK h \in Handlers :
          handler' = [handler EXCEPT ![h] = [IdleHandler(c) EXCEPT
                        !.pc = "auth", !.inm = sdk[c].etag]]
    BY <1>4 DEF StartFetch
  <2>2. [IdleHandler(c) EXCEPT !.pc = "auth", !.inm = sdk[c].etag].body = NoPayload
    BY DEF IdleHandler
  <2>3. \A g \in Handlers : handler'[g].body \in {handler[g].body, NoPayload}
    BY <2>1, <2>2 DEF TypeOK
  <2>4. QED
    BY <1>1, <1>4, <2>3, NothingRead
<1>5. ASSUME NEW c \in Clients, FetchFails(c) PROVE CommittedInv'
  <2>1. /\ sdk' = sdk /\ redis' = redis
        /\ handler' = handler \/ handler' = [handler EXCEPT ![waiting[c]] = IdleHandler(c)]
    BY <1>5 DEF FetchFails
  <2>2. IdleHandler(c).body = NoPayload
    BY DEF IdleHandler
  <2>3. \A g \in Handlers : handler'[g].body \in {handler[g].body, NoPayload}
    BY <2>1, <2>2 DEF TypeOK
  <2>4. QED
    BY <1>1, <2>1, <2>3, NothingRead
<1>6. ASSUME NEW c \in Clients, Poll(c) \/ Connect(c) \/ Disconnect(c) \/ Listen(c)
      PROVE  CommittedInv'
  <2>1. CASE Poll(c) \/ StreamFetch(c)
    BY <1>4, <2>1 DEF Poll, StreamFetch
  <2>2. CASE Connect(c) \/ Disconnect(c) \/ StreamSkip(c) \/ StreamLockTimeout(c)
    <3>1. sdk' = sdk /\ redis' = redis /\ handler' = handler
      BY <2>2 DEF Connect, Disconnect, StreamSkip, StreamLockTimeout
    <3>2. QED
      BY <1>1, <3>1, NothingRead
  <2>3. QED
    BY <1>6, <2>1, <2>2 DEF Listen
<1>7. QED
  BY <1>2, <1>3, <1>5, <1>6 DEF Next

LEMMA CommittedInit == ASSUME Init PROVE CommittedInv
<1>1. \A c \in Clients : IdleHandler(c).body = NoPayload
  BY DEF IdleHandler
<1>2. AtLeast(content, NoPayload.content)
  BY DEF Init, NoPayload, AtLeast
<1>3. QED
  BY <1>1, <1>2 DEF Init, CommittedInv

LEMMA CommittedInvariant == Spec => []CommittedInv
<1>1. Init => CommittedInv
  BY CommittedInit
<1>2. TypeOK /\ LabelInv /\ CommittedInv /\ [Next]_vars => CommittedInv'
  BY CommittedNext
<1>3. QED
  BY <1>1, <1>2, TypeCorrect, LabelInvariant, PTL DEF Spec

\* As long as nothing is archived silently, the rows change with the version.
LEMMA BumpedRows == Spec => [](silent = 0 => content = history[version])
<1> DEFINE Bumped == silent = 0 => content = history[version]
<1>1. Init => Bumped
  <2>1. 0 \in Versions
    BY DeliveryAssumption DEF Versions
  <2>2. QED
    BY <2>1 DEF Init
<1>2. TypeOK /\ TypeOK' /\ Bumped /\ [Next]_vars => Bumped'
  <2> SUFFICES ASSUME TypeOK, TypeOK', Bumped, [Next]_vars PROVE Bumped'
    OBVIOUS
  <2>1. CASE Commit
    BY <2>1, Basics DEF Commit, TypeOK
  <2>2. CASE ArchiveWithoutBump
    BY <2>2, DeliveryAssumption DEF ArchiveWithoutBump, TypeOK
  <2>3. CASE UNCHANGED <<database, silent>>
    BY <2>3 DEF database
  <2>4. Commit \/ ArchiveWithoutBump \/ UNCHANGED <<database, silent>>
    <3>1. CASE Write
      BY <3>1 DEF Write, Bump, DeleteCached, Publish, InvalidateAgain, Rollback
    <3>2. CASE \E h \in Handlers : Serve(h)
      BY <3>2 DEF Serve, Authenticate, LookupCache, LoadQuery, StoreCache, Respond
    <3>3. CASE \E c \in Clients : Poll(c) \/ FetchFails(c) \/ Connect(c) \/ Disconnect(c) \/ Listen(c)
      BY <3>3 DEF Poll, FetchFails, Connect, Disconnect, Listen, StreamSkip, StreamFetch,
                  StreamLockTimeout
    <3>4. CASE CacheExpires \/ UNCHANGED vars
      BY <3>4 DEF CacheExpires, vars, database
    <3>5. QED
      BY <3>1, <3>2, <3>3, <3>4 DEF Next
  <2>5. QED
    BY <2>1, <2>2, <2>3, <2>4
<1>3. QED
  BY <1>1, <1>2, TypeCorrect, PTL DEF Spec

\* With Redis or without, after any interleaving of edits, rollbacks, cache fills
\* and lost answers: a payload with the current version is the committed ruleset,
\* if no flag was archived from the health page.
THEOREM CurrentVersionIsCurrent == Spec => []UpToDate
<1>1. /\ TypeOK /\ LabelInv /\ CommittedInv /\ (silent = 0 => content = history[version])
      => UpToDate
  <2> SUFFICES ASSUME TypeOK, LabelInv, CommittedInv, content = history[version],
                      NEW c \in Clients, sdk[c].payload.label = version
               PROVE  sdk[c].payload.content = content
    BY DEF UpToDate
  <2> DEFINE rows == sdk[c].payload.content
  <2>1. rows \in Stamps /\ content \in Stamps
    BY DEF TypeOK, RulesetCache, Payload
  <2>2. version # None
    BY Basics DEF TypeOK, None
  <2>3. AtLeast(rows, content)
    BY <2>2 DEF LabelInv, LabelsFresh, LabelFresh
  <2>4. AtLeast(content, rows)
    BY DEF CommittedInv
  <2> HIDE DEF rows
  <2>5. \A q \in Queries : rows[q] = content[q]
    BY <2>1, <2>3, <2>4 DEF AtLeast, Stamps
  <2>6. rows = content
    BY <2>1, <2>5 DEF Stamps
  <2>7. QED
    BY <2>6 DEF rows
<1>2. QED
  BY <1>1, TypeCorrect, LabelInvariant, CommittedInvariant, BumpedRows, PTL

\* Without Redis the same holds of the ETag, so the 304 that answers a client
\* with the current version tells it the truth (the run redis_etag shows that
\* with Redis it need not).
THEOREM NotModifiedIsTrue ==
  ~RedisEnabled =>
    (Spec => [](silent = 0 => \A c \in Clients :
                  sdk[c].etag = version => sdk[c].payload.content = content))
<1> SUFFICES ASSUME ~RedisEnabled
             PROVE  Spec => [](silent = 0 => \A c \in Clients :
                      sdk[c].etag = version => sdk[c].payload.content = content)
  OBVIOUS
<1>1. Spec => []OwnRowsInv
  BY OwnRowsInvariant
<1>2. OwnRowsInv /\ UpToDate =>
        (silent = 0 => \A c \in Clients :
           sdk[c].etag = version => sdk[c].payload.content = content)
  BY DEF OwnRowsInv, UpToDate
<1>3. QED
  BY <1>1, <1>2, CurrentVersionIsCurrent, PTL

-----------------------------------------------------------------------------
(* Without Redis a client's cache never goes backwards.                     *)

\* The request a client waits for, as an operator of what may change.
Waits(c, waits, requests, cache) ==
  waits[c] # NoHandler =>
    /\ requests[waits[c]].client = c
    /\ Ahead(requests[waits[c]], cache[c].payload)

LEMMA ServeWaits ==
  ASSUME ~RedisEnabled, TypeOK, LabelInv, LockInv, NEW h \in Handlers, Serve(h),
         NEW c \in Clients
  PROVE  Waits(c, waiting', handler', sdk')
<1>0. /\ handler[h] \in Request /\ handler[h].body \in Payload /\ handler[h].next \in Queries
      /\ handler[h].client \in Clients /\ waiting[c] \in Handlers \cup {NoHandler}
  BY DEF TypeOK, Request
<1>1. Waits(c, waiting, handler, sdk) /\ AtLeast(content, sdk[c].payload.content)
  BY DEF LockInv, CommittedInv, Waits
<1>2. CASE Respond(h)
  <2> DEFINE b == handler[h].client
             held == [payload |-> handler[h].body, etag |-> handler[h].ver]
  <2>1. /\ handler' = [handler EXCEPT ![h] = IdleHandler(b)]
        /\ \/ /\ waiting[b] = h /\ waiting' = [waiting EXCEPT ![b] = NoHandler]
              /\ sdk' = sdk \/ sdk' = [sdk EXCEPT ![b] = held]
           \/ waiting[b] # h /\ waiting' = waiting /\ sdk' = sdk
    BY <1>2 DEF Respond
  <2> HIDE DEF held
  <2>2. CASE waiting[c] = h
    <3>1. c = b
      BY <1>1, <2>2, DeliveryAssumption DEF Waits
    <3>2. waiting'[c] = NoHandler
      BY <2>1, <2>2, <3>1 DEF TypeOK
    <3>3. QED
      BY <3>2 DEF Waits
  <2>3. CASE waiting[c] # h
    <3>1. waiting'[c] = waiting[c] /\ sdk'[c] = sdk[c]
      BY <2>1, <2>3 DEF TypeOK
    <3>2. waiting[c] # NoHandler => handler'[waiting[c]] = handler[waiting[c]]
      BY <1>0, <2>1, <2>3 DEF TypeOK
    <3>3. QED
      BY <1>1, <3>1, <3>2 DEF Waits
  <2>4. QED
    BY <2>2, <2>3
<1>3. CASE ~Respond(h)
  <2>1. waiting' = waiting /\ sdk' = sdk
    BY <1>3 DEF Serve, Authenticate, LookupCache, LoadQuery, StoreCache
  <2>2. \A g \in Handlers : g # h => handler'[g] = handler[g]
    BY <1>3 DEF Serve, Authenticate, LookupCache, LoadQuery, StoreCache, TypeOK
  <2>3. handler'[h].client = handler[h].client
    BY <1>0, <1>3 DEF Serve, Authenticate, LookupCache, LoadQuery, StoreCache, TypeOK, Request
  <2>4. ASSUME waiting[c] = h PROVE Ahead(handler'[h], sdk[c].payload)
    <3> DEFINE p == sdk[c].payload
    <3>0. Ahead(handler[h], p)
      BY <1>1, <2>4, DeliveryAssumption DEF Waits
    <3>1. CASE Authenticate(h)
      <4>1. handler'[h].pc \in {"lookup", "notModified"}
        BY <1>0, <3>1 DEF Authenticate, TypeOK
      <4>2. QED
        BY <4>1 DEF Ahead
    <3>2. CASE LookupCache(h)
      <4>1. handler'[h].pc = "load" /\ handler'[h].next = handler[h].next
        BY <1>0, <3>2 DEF LookupCache, UsesCache, TypeOK, Request
      <4>2. handler[h].next = 1
        BY <3>2 DEF LookupCache, LabelInv, RequestInv
      <4>3. QED
        BY <4>1, <4>2 DEF Ahead
    <3>3. CASE LoadQuery(h)
      <4> DEFINE q == handler[h].next
      <4>1. /\ handler'[h].next = IF q = NumQueries THEN 1 ELSE q + 1
            /\ handler'[h].pc = IF q = NumQueries THEN "store" ELSE "load"
            /\ handler[h].pc = "load"
        BY <1>0, <3>3 DEF LoadQuery, TypeOK, Request
      <4>2. \A i \in Queries : handler'[h].body.content[i] =
                                 IF i = q THEN content[q] ELSE handler[h].body.content[i]
        BY <1>0, <3>3 DEF LoadQuery, TypeOK, Request, Payload, Stamps
      <4>3. content[q] >= p.content[q]
        BY <1>0, <1>1 DEF AtLeast
      <4>4. \A i \in 1..(q - 1) : handler[h].body.content[i] >= p.content[i]
        BY <3>0, <4>1 DEF Ahead
      <4>5. \A i \in 1..q : i \in Queries /\ (i # q => i \in 1..(q - 1))
        BY <1>0, DeliveryAssumption DEF Queries
      <4>6. \A i \in 1..q : handler'[h].body.content[i] >= p.content[i]
        BY <4>2, <4>3, <4>4, <4>5
      <4>7. CASE q = NumQueries
        <5>1. handler'[h].pc = "store" /\ AtLeast(handler'[h].body.content, p.content)
          BY <4>1, <4>6, <4>7 DEF AtLeast, Queries
        <5>2. QED
          BY <5>1 DEF Ahead
      <4>8. CASE q # NumQueries
        <5>1. q \in Nat
          BY <1>0, Basics
        <5>2. handler'[h].pc = "load" /\ handler'[h].next = q + 1
          BY <4>1, <4>8
        <5>3. handler'[h].next - 1 = q
          BY <5>1, <5>2
        <5>4. QED
          BY <4>6, <5>2, <5>3 DEF Ahead
      <4>9. QED
        BY <4>7, <4>8
    <3>4. CASE StoreCache(h)
      <4>1. handler[h].pc = "store" /\ handler'[h].pc = "reply" /\ handler'[h].body = handler[h].body
        BY <1>0, <3>4 DEF StoreCache, TypeOK, Request
      <4>2. QED
        BY <3>0, <4>1 DEF Ahead
    <3>5. QED
      BY <1>3, <3>1, <3>2, <3>3, <3>4 DEF Serve
  <2>5. QED
    BY <1>0, <1>1, <2>1, <2>2, <2>3, <2>4 DEF Waits
<1>4. QED
  BY <1>2, <1>3

LEMMA StartFetchWaits ==
  ASSUME TypeOK, LockInv, NEW b \in Clients, StartFetch(b), sdk' = sdk, NEW c \in Clients
  PROVE  Waits(c, waiting', handler', sdk')
<1>0. Waits(c, waiting, handler, sdk) /\ waiting[c] \in Handlers \cup {NoHandler}
  BY DEF LockInv, Waits, TypeOK
<1>1. PICK h \in Handlers :
        /\ handler[h].pc = "idle"
        /\ waiting' = [waiting EXCEPT ![b] = h]
        /\ handler' = [handler EXCEPT ![h] = [IdleHandler(b) EXCEPT
                         !.pc = "auth", !.inm = sdk[b].etag]]
  BY DEF StartFetch
<1>2. CASE c = b
  <2>1. waiting'[c] = h /\ handler'[h].client = b /\ handler'[h].pc = "auth"
    BY <1>1, <1>2 DEF TypeOK, IdleHandler
  <2>2. QED
    BY <1>2, <2>1 DEF Waits, Ahead
<1>3. CASE c # b
  <2>1. waiting'[c] = waiting[c]
    BY <1>1, <1>3 DEF TypeOK
  <2>2. waiting[c] # NoHandler => waiting[c] # h
    BY <1>0, <1>1 DEF Waits, Ahead
  <2>3. waiting[c] # NoHandler => handler'[waiting[c]] = handler[waiting[c]]
    BY <1>0, <1>1, <2>2 DEF TypeOK
  <2>4. QED
    BY <1>0, <2>1, <2>3 DEF Waits
<1>4. QED
  BY <1>2, <1>3

LEMMA FetchFailsWaits ==
  ASSUME TypeOK, LockInv, NEW b \in Clients, FetchFails(b), NEW c \in Clients
  PROVE  Waits(c, waiting', handler', sdk')
<1>0. /\ Waits(c, waiting, handler, sdk) /\ Waits(b, waiting, handler, sdk)
      /\ waiting[c] \in Handlers \cup {NoHandler}
  BY DEF LockInv, Waits, TypeOK
<1>1. /\ sdk' = sdk /\ waiting[b] # NoHandler /\ waiting' = [waiting EXCEPT ![b] = NoHandler]
      /\ handler' = handler \/ handler' = [handler EXCEPT ![waiting[b]] = IdleHandler(b)]
  BY DEF FetchFails
<1>2. CASE c = b
  <2>1. waiting'[c] = NoHandler
    BY <1>1, <1>2 DEF TypeOK
  <2>2. QED
    BY <2>1 DEF Waits
<1>3. CASE c # b
  <2>1. waiting'[c] = waiting[c]
    BY <1>1, <1>3 DEF TypeOK
  <2>2. waiting[c] # NoHandler => waiting[c] # waiting[b]
    BY <1>0, <1>1, <1>3 DEF Waits
  <2>3. waiting[c] # NoHandler => handler'[waiting[c]] = handler[waiting[c]]
    BY <1>0, <1>1, <2>2 DEF TypeOK
  <2>4. QED
    BY <1>0, <1>1, <2>1, <2>3 DEF Waits
<1>4. QED
  BY <1>2, <1>3

LEMMA LockNext ==
  ASSUME ~RedisEnabled, TypeOK, LabelInv, LockInv, [Next]_vars
  PROVE  LockInv'
<1>1. CommittedInv'
  BY CommittedNext DEF LockInv
<1>2. ASSUME \A c \in Clients : Waits(c, waiting', handler', sdk') PROVE LockInv'
  BY <1>1, <1>2 DEF LockInv, Waits, Ahead, AtLeast
<1>3. ASSUME NEW h \in Handlers, Serve(h) PROVE LockInv'
  BY <1>2, <1>3, ServeWaits
<1>4. CASE UNCHANGED <<handler, sdk, waiting>>
  BY <1>2, <1>4 DEF LockInv, Waits
<1>5. ASSUME NEW b \in Clients, StartFetch(b), sdk' = sdk PROVE LockInv'
  BY <1>2, <1>5, StartFetchWaits
<1>6. ASSUME NEW b \in Clients, FetchFails(b) PROVE LockInv'
  BY <1>2, <1>6, FetchFailsWaits
<1>7. CASE Write \/ ArchiveWithoutBump \/ CacheExpires \/ UNCHANGED vars
  BY <1>4, <1>7 DEF Write, Bump, DeleteCached, Publish, InvalidateAgain, Commit, Rollback,
                    ArchiveWithoutBump, CacheExpires, vars
<1>8. ASSUME NEW c \in Clients,
             Poll(c) \/ FetchFails(c) \/ Connect(c) \/ Disconnect(c) \/ Listen(c)
      PROVE  LockInv'
  <2>1. CASE Poll(c) \/ StreamFetch(c)
    BY <1>5, <2>1 DEF Poll, StreamFetch
  <2>2. CASE Connect(c) \/ Disconnect(c) \/ StreamSkip(c) \/ StreamLockTimeout(c)
    BY <1>4, <2>2 DEF Connect, Disconnect, StreamSkip, StreamLockTimeout
  <2>3. QED
    BY <1>6, <1>8, <2>1, <2>2 DEF Listen
<1>9. QED
  BY <1>3, <1>7, <1>8 DEF Next

LEMMA LockInit == ASSUME Init PROVE LockInv
<1>1. CommittedInv
  BY CommittedInit
<1>2. QED
  BY <1>1 DEF Init, LockInv

\* Only the answer a client still waits for reaches its cache, and it is at
\* least as new as what the client has.
LEMMA NoStepBackwards ==
  ASSUME TypeOK, LockInv, [Next]_vars, NEW c \in Clients
  PROVE  AtLeast(sdk'[c].payload.content, sdk[c].payload.content)
<1>0. AtLeast(sdk[c].payload.content, sdk[c].payload.content)
  BY DEF TypeOK, RulesetCache, Payload, Stamps, AtLeast
<1>1. CASE sdk' = sdk
  BY <1>0, <1>1
<1>2. ASSUME NEW h \in Handlers, Respond(h), sdk' # sdk
      PROVE  AtLeast(sdk'[c].payload.content, sdk[c].payload.content)
  <2> DEFINE b == handler[h].client
             held == [payload |-> handler[h].body, etag |-> handler[h].ver]
  <2>1. waiting[b] = h /\ handler[h].pc = "reply" /\ sdk' = [sdk EXCEPT ![b] = held]
    BY <1>2 DEF Respond
  <2>2. b \in Clients
    BY DEF TypeOK, Request
  <2>3. AtLeast(handler[h].body.content, sdk[b].payload.content)
    BY <2>1, <2>2, DeliveryAssumption DEF LockInv, Ahead
  <2>4. held.payload = handler[h].body
    OBVIOUS
  <2> HIDE DEF held
  <2>5. sdk'[c] = IF c = b THEN held ELSE sdk[c]
    BY <2>1, <2>2 DEF TypeOK
  <2>6. QED
    BY <1>0, <2>3, <2>4, <2>5
<1>3. sdk' = sdk \/ \E h \in Handlers : Respond(h)
  BY DEF Next, Write, Bump, DeleteCached, Publish, InvalidateAgain, Commit, Rollback,
         ArchiveWithoutBump, CacheExpires, Serve, Authenticate, LookupCache, LoadQuery,
         StoreCache, Poll, FetchFails, Connect, Disconnect, Listen, StreamSkip, StreamFetch,
         StreamLockTimeout, vars
<1>4. QED
  BY <1>1, <1>2, <1>3

\* Without Redis no interleaving of poller, stream thread, timeouts and late
\* answers ever replaces a client's rows by older ones.
THEOREM CachesNeverGoBackwards == ~RedisEnabled => (Spec => NeverBackwards)
<1> SUFFICES ASSUME ~RedisEnabled PROVE Spec => NeverBackwards
  OBVIOUS
<1>1. Init => LockInv
  BY LockInit
<1>2. TypeOK /\ LabelInv /\ LockInv /\ [Next]_vars => LockInv'
  BY LockNext
<1>3. TypeOK /\ LockInv /\ [Next]_vars =>
        [\A c \in Clients : AtLeast(sdk'[c].payload.content, sdk[c].payload.content)]_vars
  BY NoStepBackwards
<1>4. QED
  BY <1>1, <1>2, <1>3, TypeCorrect, LabelInvariant, PTL DEF Spec, NeverBackwards

-----------------------------------------------------------------------------
(* Every fetch catches up, with or without Redis: the step behind the        *)
(* convergence of a client.                                                  *)

\* The request c waits for has read, or will read, a version of at least v.
Asks(c, v) ==
  /\ waiting[c] # NoHandler
  /\ IF handler[waiting[c]].pc = "auth" THEN v <= version ELSE v <= handler[waiting[c]].ver

\* A request that leaves when version v is committed asks for v; it goes on doing
\* so until it fails or leaves the client with an ETag of at least v, be the answer
\* a 200 or a 304; and ETags never go down, so no later answer takes it away.
FetchesCatchUp ==
  [][\A c \in Clients :
       /\ sdk'[c].etag >= sdk[c].etag
       /\ \A v \in 0..version :
            /\ waiting[c] = NoHandler /\ waiting'[c] # NoHandler => Asks(c, v)'
            /\ Asks(c, v) => Asks(c, v)' \/ FetchFails(c) \/ sdk'[c].etag >= v]_vars

\* What request r can tell a client whose ETag is e.
Answers(r, e) ==
  /\ r.pc # "idle" /\ r.inm = e
  /\ r.pc # "auth" => e <= r.ver
  /\ r.pc = "notModified" => r.ver = e

EtagInv ==
  \A c \in Clients :
    /\ sdk[c].etag <= version
    /\ waiting[c] # NoHandler =>
         handler[waiting[c]].client = c /\ Answers(handler[waiting[c]], sdk[c].etag)

\* The step of one client: its ETag, its request, and what the request asks for.
CatchesUp(c) ==
  /\ sdk'[c].etag <= version' /\ sdk'[c].etag >= sdk[c].etag
  /\ waiting'[c] # NoHandler =>
       handler'[waiting'[c]].client = c /\ Answers(handler'[waiting'[c]], sdk'[c].etag)
  /\ \A v \in 0..version :
       /\ waiting[c] = NoHandler /\ waiting'[c] # NoHandler => Asks(c, v)'
       /\ Asks(c, v) => Asks(c, v)' \/ FetchFails(c) \/ sdk'[c].etag >= v

\* Numbers that are compared.
LEMMA EtagTypes ==
  ASSUME TypeOK, NEW c \in Clients
  PROVE  /\ version \in Nat /\ sdk[c].etag \in Int
         /\ waiting[c] \in Handlers \cup {NoHandler} /\ NoHandler \notin Handlers
         /\ \A h \in Handlers : handler[h] \in Request /\ handler[h].ver \in Nat
<1>1. version \in Nat /\ NoHandler \notin Handlers
  BY Basics, DeliveryAssumption DEF TypeOK
<1>2. sdk[c] \in RulesetCache /\ waiting[c] \in Handlers \cup {NoHandler}
  BY DEF TypeOK
<1>3. sdk[c].etag \in Int
  <2>1. sdk[c].etag \in Versions \cup {None}
    BY <1>2 DEF RulesetCache
  <2>2. Versions \subseteq Int /\ None \in Int
    BY DeliveryAssumption DEF Versions, None
  <2>3. QED
    BY <2>1, <2>2
<1>4. ASSUME NEW h \in Handlers PROVE handler[h] \in Request /\ handler[h].ver \in Nat
  <2>1. handler[h] \in Request
    BY DEF TypeOK
  <2>2. QED
    BY <2>1, Basics DEF Request
<1>5. QED
  BY <1>1, <1>2, <1>3, <1>4

\* Nothing happens to c, its request and its cache.
LEMMA CatchUpKept ==
  ASSUME TypeOK, EtagInv, NEW c \in Clients, version' \in Nat, version <= version',
         waiting'[c] = waiting[c], sdk'[c] = sdk[c],
         waiting[c] # NoHandler => handler'[waiting[c]] = handler[waiting[c]]
  PROVE  CatchesUp(c)
<1>1. /\ sdk[c].etag <= version
      /\ waiting[c] # NoHandler =>
           handler[waiting[c]].client = c /\ Answers(handler[waiting[c]], sdk[c].etag)
  BY DEF EtagInv
<1>2. sdk'[c].etag <= version' /\ sdk'[c].etag >= sdk[c].etag
  BY <1>1, EtagTypes
<1>3. ASSUME NEW v \in 0..version, Asks(c, v) PROVE Asks(c, v)'
  BY <1>3, EtagTypes DEF Asks
<1>4. QED
  BY <1>1, <1>2, <1>3 DEF CatchesUp

LEMMA StartFetchCatchesUp ==
  ASSUME TypeOK, EtagInv, NEW b \in Clients, StartFetch(b), sdk' = sdk, version' = version,
         NEW c \in Clients
  PROVE  CatchesUp(c)
<1>0. /\ sdk[c].etag <= version
      /\ waiting[c] # NoHandler =>
           handler[waiting[c]].client = c /\ Answers(handler[waiting[c]], sdk[c].etag)
  BY DEF EtagInv
<1>1. PICK h \in Handlers :
        /\ waiting[b] = NoHandler /\ handler[h].pc = "idle"
        /\ waiting' = [waiting EXCEPT ![b] = h]
        /\ handler' = [handler EXCEPT ![h] = [IdleHandler(b) EXCEPT
                         !.pc = "auth", !.inm = sdk[b].etag]]
  BY DEF StartFetch
<1>2. CASE c = b
  <2>1. /\ waiting'[c] = h /\ handler'[h].client = c /\ handler'[h].pc = "auth"
        /\ handler'[h].inm = sdk[c].etag
    BY <1>1, <1>2 DEF TypeOK, IdleHandler
  <2>2. \A v \in 0..version : Asks(c, v)'
    BY <2>1, EtagTypes DEF Asks
  <2>3. QED
    BY <1>0, <2>1, <2>2, EtagTypes DEF CatchesUp, Answers
<1>3. CASE c # b
  <2>1. waiting'[c] = waiting[c]
    BY <1>1, <1>3 DEF TypeOK
  <2>2. waiting[c] # NoHandler => waiting[c] # h
    BY <1>0, <1>1 DEF Answers
  <2>3. waiting[c] # NoHandler => handler'[waiting[c]] = handler[waiting[c]]
    BY <1>1, <2>2, EtagTypes DEF TypeOK
  <2>4. QED
    BY <2>1, <2>3, CatchUpKept, EtagTypes
<1>4. QED
  BY <1>2, <1>3

LEMMA FetchFailsCatchesUp ==
  ASSUME TypeOK, EtagInv, NEW b \in Clients, FetchFails(b), NEW c \in Clients
  PROVE  CatchesUp(c)
<1>0. /\ sdk[c].etag <= version
      /\ waiting[c] # NoHandler => handler[waiting[c]].client = c
      /\ waiting[b] # NoHandler => handler[waiting[b]].client = b
  BY DEF EtagInv
<1>1. /\ sdk' = sdk /\ version' = version
      /\ waiting[b] # NoHandler /\ waiting' = [waiting EXCEPT ![b] = NoHandler]
      /\ handler' = handler \/ handler' = [handler EXCEPT ![waiting[b]] = IdleHandler(b)]
  BY DEF FetchFails, database
<1>2. CASE c = b
  <2>1. waiting'[c] = NoHandler
    BY <1>1, <1>2 DEF TypeOK
  <2>2. QED
    BY <1>0, <1>1, <1>2, <2>1, EtagTypes DEF CatchesUp
<1>3. CASE c # b
  <2>1. waiting'[c] = waiting[c]
    BY <1>1, <1>3 DEF TypeOK
  <2>2. waiting[c] # NoHandler => handler'[waiting[c]] = handler[waiting[c]]
    BY <1>0, <1>1, <1>3, EtagTypes DEF TypeOK
  <2>3. QED
    BY <1>1, <2>1, <2>2, CatchUpKept, EtagTypes
<1>4. QED
  BY <1>2, <1>3

LEMMA ServeCatchesUp ==
  ASSUME TypeOK, LabelInv, EtagInv, NEW h \in Handlers, Serve(h), NEW c \in Clients
  PROVE  CatchesUp(c)
<1>0. /\ sdk[c].etag <= version
      /\ waiting[c] # NoHandler =>
           handler[waiting[c]].client = c /\ Answers(handler[waiting[c]], sdk[c].etag)
      /\ handler[h] \in Request /\ handler[h].client \in Clients /\ handler[h].ver \in Nat
      /\ handler[h].pc \notin {"idle", "auth"} => handler[h].ver <= version
  BY EtagTypes DEF EtagInv, LabelInv, RequestInv, Request
<1>1. version' = version
  BY DEF Serve, Authenticate, LookupCache, LoadQuery, StoreCache, Respond, database
<1>2. CASE Respond(h)
  <2> DEFINE b == handler[h].client
             held == [payload |-> handler[h].body, etag |-> handler[h].ver]
  <2>1. /\ handler' = [handler EXCEPT ![h] = IdleHandler(b)]
        /\ handler[h].pc \in {"notModified", "reply"}
        /\ \/ /\ waiting[b] = h /\ waiting' = [waiting EXCEPT ![b] = NoHandler]
              /\ sdk' = IF handler[h].pc = "reply" THEN [sdk EXCEPT ![b] = held] ELSE sdk
           \/ waiting[b] # h /\ waiting' = waiting /\ sdk' = sdk
    BY <1>2 DEF Respond
  <2>2. held.etag = handler[h].ver
    OBVIOUS
  <2> HIDE DEF held
  <2>3. CASE waiting[c] = h
    <3>1. c = b /\ Answers(handler[h], sdk[c].etag)
      BY <1>0, <2>3, EtagTypes
    <3>2. waiting'[c] = NoHandler
      BY <2>1, <2>3, <3>1 DEF TypeOK
    <3>3. sdk'[c].etag = handler[h].ver /\ handler[h].ver <= version /\ sdk[c].etag <= handler[h].ver
      <4>1. CASE handler[h].pc = "reply"
        BY <1>0, <2>1, <2>2, <2>3, <3>1, <4>1 DEF Answers, TypeOK
      <4>2. CASE handler[h].pc = "notModified"
        BY <1>0, <2>1, <2>3, <3>1, <4>2 DEF Answers
      <4>3. QED
        BY <2>1, <4>1, <4>2
    <3>4. \A v \in 0..version : Asks(c, v) => sdk'[c].etag >= v
      BY <2>1, <2>3, <3>3, EtagTypes DEF Asks
    <3>5. QED
      BY <1>0, <1>1, <3>2, <3>3, <3>4, EtagTypes DEF CatchesUp
  <2>4. CASE waiting[c] # h
    <3>1. waiting'[c] = waiting[c] /\ sdk'[c] = sdk[c]
      BY <1>0, <2>1, <2>4 DEF TypeOK
    <3>2. waiting[c] # NoHandler => handler'[waiting[c]] = handler[waiting[c]]
      BY <2>1, <2>4, EtagTypes DEF TypeOK
    <3>3. QED
      BY <1>1, <3>1, <3>2, CatchUpKept, EtagTypes
  <2>5. QED
    BY <2>3, <2>4
<1>3. CASE ~Respond(h)
  <2>1. waiting' = waiting /\ sdk' = sdk
    BY <1>3 DEF Serve, Authenticate, LookupCache, LoadQuery, StoreCache
  <2>2. \A g \in Handlers : g # h => handler'[g] = handler[g]
    BY <1>3 DEF Serve, Authenticate, LookupCache, LoadQuery, StoreCache, TypeOK
  <2>3. CASE waiting[c] # h
    BY <1>1, <2>1, <2>2, <2>3, CatchUpKept, EtagTypes
  <2>4. CASE waiting[c] = h
    <3>0. handler[h].client = c /\ Answers(handler[h], sdk[c].etag)
      BY <1>0, <2>4, EtagTypes
    <3>1. CASE Authenticate(h)
      <4>1. /\ handler'[h].client = handler[h].client /\ handler'[h].inm = handler[h].inm
            /\ handler'[h].ver = version
            /\ handler'[h].pc = IF handler[h].inm = version THEN "notModified" ELSE "lookup"
            /\ handler[h].pc = "auth"
        BY <1>0, <3>1 DEF Authenticate, TypeOK, Request
      <4>2. Answers(handler'[h], sdk[c].etag)
        BY <1>0, <3>0, <4>1 DEF Answers
      <4>3. \A v \in 0..version : Asks(c, v)'
        BY <2>1, <2>4, <4>1, EtagTypes DEF Asks
      <4>4. QED
        BY <1>0, <1>1, <2>1, <2>4, <3>0, <4>1, <4>2, <4>3, EtagTypes DEF CatchesUp
    <3>2. CASE LookupCache(h) \/ LoadQuery(h) \/ StoreCache(h)
      <4>1. /\ handler'[h].client = handler[h].client /\ handler'[h].inm = handler[h].inm
            /\ handler'[h].ver = handler[h].ver
            /\ handler[h].pc \in {"lookup", "load", "store"}
            /\ handler'[h].pc \in {"load", "store", "reply"}
        BY <1>0, <3>2 DEF LookupCache, LoadQuery, StoreCache, TypeOK, Request
      <4>2. Answers(handler'[h], sdk[c].etag)
        BY <3>0, <4>1 DEF Answers
      <4>3. \A v \in 0..version : Asks(c, v) => Asks(c, v)'
        BY <2>1, <2>4, <4>1 DEF Asks
      <4>4. QED
        BY <1>0, <1>1, <2>1, <2>4, <3>0, <4>1, <4>2, <4>3, EtagTypes DEF CatchesUp
    <3>3. QED
      BY <1>3, <3>1, <3>2 DEF Serve
  <2>5. QED
    BY <2>3, <2>4
<1>4. QED
  BY <1>2, <1>3

LEMMA EveryStepCatchesUp ==
  ASSUME TypeOK, LabelInv, EtagInv, [Next]_vars, NEW c \in Clients
  PROVE  CatchesUp(c)
<1>1. version' \in Nat /\ version <= version'
  BY TypeNext, CommittedGrows, Basics DEF TypeOK, LabelInv, Grows
<1>2. ASSUME NEW h \in Handlers, Serve(h) PROVE CatchesUp(c)
  BY <1>2, ServeCatchesUp
<1>3. CASE UNCHANGED <<handler, sdk, waiting>>
  BY <1>1, <1>3, CatchUpKept
<1>4. ASSUME NEW b \in Clients, FetchFails(b) PROVE CatchesUp(c)
  BY <1>4, FetchFailsCatchesUp
<1>5. ASSUME NEW b \in Clients, Poll(b) \/ StreamFetch(b) PROVE CatchesUp(c)
  BY <1>5, StartFetchCatchesUp DEF Poll, StreamFetch, database
<1>6. ASSUME NEW b \in Clients, Connect(b) \/ Disconnect(b) \/ StreamSkip(b) \/ StreamLockTimeout(b)
      PROVE  CatchesUp(c)
  BY <1>3, <1>6 DEF Connect, Disconnect, StreamSkip, StreamLockTimeout
<1>7. CASE Write \/ ArchiveWithoutBump \/ CacheExpires \/ UNCHANGED vars
  BY <1>3, <1>7 DEF Write, Bump, DeleteCached, Publish, InvalidateAgain, Commit, Rollback,
                    ArchiveWithoutBump, CacheExpires, vars
<1>8. QED
  BY <1>2, <1>4, <1>5, <1>6, <1>7 DEF Next, Listen

\* A fetch that is answered brings the client to the version that was committed
\* when it left, whatever is written, cached and abandoned meanwhile (router.py,
\* client.py): the safety half of ConvergesUnlessSilent.
THEOREM AnsweredFetchesCatchUp == Spec => FetchesCatchUp
<1> DEFINE A == \A c \in Clients :
                  /\ sdk'[c].etag >= sdk[c].etag
                  /\ \A v \in 0..version :
                       /\ waiting[c] = NoHandler /\ waiting'[c] # NoHandler => Asks(c, v)'
                       /\ Asks(c, v) => Asks(c, v)' \/ FetchFails(c) \/ sdk'[c].etag >= v
<1>1. Init => EtagInv
  <2> SUFFICES ASSUME Init, NEW c \in Clients
               PROVE  sdk[c].etag <= version /\ waiting[c] = NoHandler
    BY DEF EtagInv
  <2>1. sdk[c].etag = None /\ version = 0 /\ waiting[c] = NoHandler
    BY DEF Init
  <2>2. QED
    BY <2>1 DEF None
<1>2. TypeOK /\ LabelInv /\ EtagInv /\ [Next]_vars => EtagInv'
  BY EveryStepCatchesUp DEF CatchesUp, EtagInv
<1>3. TypeOK /\ LabelInv /\ EtagInv /\ [Next]_vars => [A]_vars
  BY EveryStepCatchesUp DEF CatchesUp
<1>4. QED
  BY <1>1, <1>2, <1>3, TypeCorrect, LabelInvariant, PTL DEF Spec, FetchesCatchUp
=============================================================================
