--------------------------- MODULE DataPlaneProofs ---------------------------
(***************************************************************************)
(* Theorems about the data plane.  First what surrounds every evaluation:  *)
(* the SDK's event buffer, for any finite number of threads and events,    *)
(* any max_buffer and any number of failed requests; the tracker of        *)
(* last_evaluated_at and the rate limit of the API, for any number of      *)
(* requests at a time.  Then the composition with the evaluation itself,   *)
(* whose theorems are in ServingProofs.                                    *)
(***************************************************************************)
EXTENDS MCDataPlane, ServingProofs, ConfigReleasesProofs

-----------------------------------------------------------------------------
(* The types of the event buffer.                                            *)

LEMMA SenderFacts ==
  /\ Threads \subseteq Senders /\ Worker \in Senders /\ Closer \in Senders
  /\ \A p \in Senders : Rest(p) \in Labels
BY DEF Senders, Rest, Labels

\* Draining a thread keeps the types of what it changes.
LEMMA DrainType ==
  ASSUME TypeOK, NEW p \in Senders, Drain(p)
  PROVE  buffer' \subseteq Events /\ pc' \in [Senders -> Labels]
         /\ batch' \in [Senders -> SUBSET Events]
BY DEF Drain, Goto, TypeOK, Labels

\* One request adds at most one to the count of every event.
LEMMA SendType == ASSUME TypeOK, NEW p \in Senders, Send(p) PROVE TypeOK'
<1>1. pc' \in [Senders -> Labels] /\ batch' \in [Senders -> SUBSET Events]
  BY DEF Send, Goto, TypeOK, Labels
<1>2. batch[p] \subseteq Events
  BY DEF TypeOK
<1>3. posted' \in [Events -> Nat]
  BY DEF Send, TypeOK
<1>4. lost' \subseteq Events
  BY <1>2 DEF Send, TypeOK
<1>5. faults' \in 0..MaxFaults
  BY BatcherAssumption DEF Send, TypeOK
<1>6. QED
  BY <1>1, <1>3, <1>4, <1>5 DEF Send, TypeOK

\* Every variable keeps its type: the type invariant of the batcher.
THEOREM TypeCorrect == Spec => []TypeOK
<1>1. Init => TypeOK
  <2> SUFFICES ASSUME Init PROVE TypeOK
    OBVIOUS
  <2>1. pc \in [Senders -> Labels]
    BY SenderFacts DEF Init
  <2>2. batch \in [Senders -> SUBSET Events] /\ posted \in [Events -> Nat]
    BY DEF Init
  <2>3. faults \in 0..MaxFaults
    BY BatcherAssumption DEF Init
  <2>4. tracked = {} /\ buffer = {} /\ onTime = {} /\ lost = {}
    BY DEF Init
  <2>5. stopped \in BOOLEAN /\ open \in BOOLEAN
    BY DEF Init
  <2>6. QED
    BY <2>1, <2>2, <2>3, <2>4, <2>5 DEF TypeOK
<1>2. TypeOK /\ [Next]_vars => TypeOK'
  <2> SUFFICES ASSUME TypeOK, [Next]_vars PROVE TypeOK'
    OBVIOUS
  <2>1. ASSUME NEW t \in Threads, Flush(t) PROVE TypeOK'
    BY <2>1, DrainType, SenderFacts DEF Flush, TypeOK
  <2>2. ASSUME NEW t \in Threads, NEW e \in Events, Track(t, e) PROVE TypeOK'
    BY <2>2, SenderFacts DEF Track, Goto, TypeOK, Labels
  <2>3. ASSUME NEW p \in Senders, Send(p) PROVE TypeOK'
    BY <2>3, SendType
  <2>4. ASSUME NEW p \in Senders, Return(p) PROVE TypeOK'
    BY <2>4, SenderFacts DEF Return, Goto, TypeOK
  <2>5. CASE Wake
    BY <2>5, DrainType, SenderFacts DEF Wake, TypeOK
  <2>6. CASE WorkerEnds
    BY <2>6 DEF WorkerEnds, Goto, TypeOK, Labels
  <2>7. CASE Stop
    BY <2>7 DEF Stop, Goto, TypeOK, Labels
  <2>8. CASE FlushRest
    BY <2>8, DrainType, SenderFacts DEF FlushRest, TypeOK
  <2>9. CASE CloseTransport
    BY <2>9 DEF CloseTransport, Goto, TypeOK, Labels
  <2>10. CASE UNCHANGED vars
    BY <2>10 DEF vars, TypeOK
  <2>11. QED
    BY <2>1, <2>2, <2>3, <2>4, <2>5, <2>6, <2>7, <2>8, <2>9, <2>10 DEF Next, Step
<1>3. QED
  BY <1>1, <1>2, PTL DEF Spec

-----------------------------------------------------------------------------
(* Every event of the buffer is in exactly one place.                       *)

EventInv == PlacesInv /\ SentOnce /\ NothingForgotten

\* Where the events are.
places == <<tracked, buffer, batch, posted, lost>>

\* A step that moves no event preserves the invariant.
LEMMA NothingMoves == ASSUME EventInv, UNCHANGED places PROVE EventInv'
BY DEF EventInv, PlacesInv, SentOnce, NothingForgotten, InBatch, places

\* A drained batch was the whole buffer and nobody else holds any of it.
LEMMA DrainMoves ==
  ASSUME TypeOK, EventInv, NEW p \in Senders, Drain(p), batch[p] = {},
         UNCHANGED <<tracked, posted, lost>>
  PROVE  EventInv'
<1>1. buffer' = {} /\ batch'[p] = buffer /\ \A q \in Senders : q # p => batch'[q] = batch[q]
  BY DEF Drain, TypeOK
<1>2. PlacesInv'
  <2>1. \A q, r \in Senders : q # r => batch'[q] \cap batch'[r] = {}
    BY <1>1 DEF EventInv, PlacesInv, InBatch
  <2>2. \A q \in Senders : \A e \in batch'[q] : e \in tracked /\ posted[e] = 0 /\ e \notin lost
    BY <1>1 DEF EventInv, PlacesInv
  <2>3. QED
    BY <1>1, <2>1, <2>2 DEF EventInv, PlacesInv
<1>3. SentOnce'
  BY DEF EventInv, SentOnce
<1>4. NothingForgotten'
  <2> SUFFICES ASSUME NEW e \in tracked, ~(posted[e] > 0), e \notin lost PROVE InBatch(e)'
    BY DEF NothingForgotten
  <2>1. e \in buffer \/ InBatch(e)
    BY DEF EventInv, NothingForgotten
  <2>2. QED
    BY <1>1, <2>1 DEF InBatch
<1>5. QED
  BY <1>2, <1>3, <1>4 DEF EventInv

\* A tracked event is new and goes to the buffer.
LEMMA TrackMoves ==
  ASSUME TypeOK, EventInv, NEW t \in Threads, NEW e \in Events, Track(t, e)
  PROVE  EventInv'
<1>1. /\ tracked' = tracked \cup {e} /\ buffer' = buffer \cup {e} /\ e \notin tracked
      /\ UNCHANGED <<batch, posted, lost>>
  BY DEF Track
<1>2. ~InBatch(e) /\ e \notin lost /\ posted[e] = 0
  <2>1. ~(posted[e] > 0) /\ posted[e] \in Nat
    BY <1>1 DEF EventInv, PlacesInv, TypeOK
  <2>2. QED
    BY <1>1, <2>1 DEF EventInv, PlacesInv, InBatch
<1>3. PlacesInv'
  BY <1>1, <1>2 DEF EventInv, PlacesInv, InBatch
<1>4. SentOnce' /\ NothingForgotten'
  BY <1>1 DEF EventInv, SentOnce, NothingForgotten, InBatch
<1>5. QED
  BY <1>3, <1>4 DEF EventInv

\* A sent batch is at the server or lost, and nowhere else.
LEMMA SendMoves ==
  ASSUME TypeOK, EventInv, NEW p \in Senders, Send(p)
  PROVE  EventInv'
<1>1. /\ batch'[p] = {} /\ \A q \in Senders : q # p => batch'[q] = batch[q]
      /\ UNCHANGED <<tracked, buffer>>
  BY DEF Send, TypeOK
<1>2. /\ \A e \in batch[p] : e \in tracked /\ e \in Events /\ posted[e] = 0 /\ e \notin lost
      /\ \A e \in batch[p] : e \notin buffer
      /\ \A q \in Senders : q # p => batch[q] \cap batch[p] = {}
  BY DEF EventInv, PlacesInv, InBatch, TypeOK
<1>3. \A e : InBatch(e)' => InBatch(e) /\ e \notin batch[p]
  BY <1>1, <1>2 DEF InBatch
<1>4. \A e : InBatch(e) => InBatch(e)' \/ e \in batch[p]
  BY <1>1 DEF InBatch
<1>5. /\ \A e \in Events : e \notin batch[p] => posted'[e] = posted[e] /\ (e \in lost' <=> e \in lost)
      /\ \/ (\A e \in batch[p] : posted'[e] = 1) /\ lost' = lost
         \/ posted' = posted /\ lost' = lost \cup batch[p]
  BY <1>2 DEF Send, TypeOK
<1>6. PlacesInv'
  <2>1. \A e \in buffer : e \in tracked /\ ~InBatch(e)' /\ posted'[e] = 0 /\ e \notin lost'
    BY <1>2, <1>3, <1>5 DEF EventInv, PlacesInv, TypeOK
  <2>2. \A q, r \in Senders : q # r => batch'[q] \cap batch'[r] = {}
    BY <1>1 DEF EventInv, PlacesInv
  <2>3. \A q \in Senders : \A e \in batch'[q] : e \in tracked /\ posted'[e] = 0 /\ e \notin lost'
    <3> SUFFICES ASSUME NEW q \in Senders, NEW e \in batch'[q]
                 PROVE  e \in tracked /\ posted'[e] = 0 /\ e \notin lost'
      OBVIOUS
    <3>1. q # p /\ e \in batch[q] /\ e \notin batch[p] /\ e \in Events
      BY <1>1, <1>2 DEF TypeOK
    <3>2. QED
      BY <3>1, <1>5 DEF EventInv, PlacesInv
  <2>4. lost' \subseteq tracked
    BY <1>2, <1>5 DEF EventInv, PlacesInv
  <2>5. \A e \in Events : posted'[e] > 0 => e \in tracked
    BY <1>2, <1>5 DEF EventInv, PlacesInv
  <2>6. QED
    BY <1>1, <2>1, <2>2, <2>3, <2>4, <2>5 DEF PlacesInv
<1>7. SentOnce'
  BY <1>2, <1>5 DEF EventInv, SentOnce
<1>8. NothingForgotten'
  <2> SUFFICES ASSUME NEW e \in tracked
               PROVE  e \in buffer \/ InBatch(e)' \/ posted'[e] > 0 \/ e \in lost'
    BY <1>1 DEF NothingForgotten
  <2>1. CASE e \in batch[p]
    BY <2>1, <1>5
  <2>2. CASE e \notin batch[p]
    <3>1. e \in Events
      BY DEF TypeOK
    <3>2. QED
      BY <2>2, <3>1, <1>4, <1>5 DEF EventInv, NothingForgotten
  <2>3. QED
    BY <2>1, <2>2
<1>9. QED
  BY <1>6, <1>7, <1>8 DEF EventInv

\* A thread holds a batch only between its drain and its request.
BatchInv == \A p \in Senders : pc[p] # "send" => batch[p] = {}

LEMMA BatchStep == ASSUME TypeOK, BatchInv, [Next]_vars PROVE BatchInv'
<1>1. ASSUME NEW p \in Senders, Drain(p) PROVE BatchInv'
  BY <1>1 DEF Drain, Goto, TypeOK, BatchInv
<1>2. ASSUME NEW p \in Senders, NEW l, Goto(p, l), pc[p] # "send", UNCHANGED batch PROVE BatchInv'
  BY <1>2 DEF Goto, TypeOK, BatchInv
<1>3. ASSUME NEW p \in Senders, Send(p) PROVE BatchInv'
  BY <1>3 DEF Send, Goto, TypeOK, BatchInv
<1>4. CASE UNCHANGED vars
  BY <1>4 DEF vars, BatchInv
<1>5. ASSUME NEW t \in Threads, NEW e \in Events, Track(t, e) PROVE BatchInv'
  BY <1>5, <1>2, SenderFacts DEF Track
<1>6. ASSUME NEW p \in Senders, Return(p) PROVE BatchInv'
  BY <1>6, <1>2 DEF Return
<1>7. CASE (\E t \in Threads : Flush(t)) \/ Wake \/ FlushRest
  BY <1>7, <1>1, SenderFacts DEF Flush, Wake, FlushRest
<1>8. CASE WorkerEnds \/ Stop \/ CloseTransport
  BY <1>8, <1>2, SenderFacts DEF WorkerEnds, Stop, CloseTransport
<1>9. QED
  BY <1>3, <1>4, <1>5, <1>6, <1>7, <1>8 DEF Next, Step

LEMMA EventStep == ASSUME TypeOK, BatchInv, EventInv, [Next]_vars PROVE EventInv'
<1>1. ASSUME NEW t \in Threads, Flush(t) PROVE EventInv'
  BY <1>1, DrainMoves, SenderFacts DEF Flush, BatchInv
<1>2. CASE Wake
  BY <1>2, DrainMoves, SenderFacts DEF Wake, BatchInv
<1>3. CASE FlushRest
  BY <1>3, DrainMoves, SenderFacts DEF FlushRest, BatchInv
<1>4. ASSUME NEW t \in Threads, NEW e \in Events, Track(t, e) PROVE EventInv'
  BY <1>4, TrackMoves
<1>5. ASSUME NEW p \in Senders, Send(p) PROVE EventInv'
  BY <1>5, SendMoves
<1>6. ASSUME NEW p \in Senders, Return(p) PROVE EventInv'
  BY <1>6, NothingMoves DEF Return, places
<1>7. CASE WorkerEnds \/ Stop \/ CloseTransport \/ UNCHANGED vars
  BY <1>7, NothingMoves DEF WorkerEnds, Stop, CloseTransport, vars, places
<1>8. QED
  BY <1>1, <1>2, <1>3, <1>4, <1>5, <1>6, <1>7 DEF Next, Step

LEMMA EventInvariant == Spec => [](BatchInv /\ EventInv)
<1>1. Init => BatchInv /\ EventInv
  BY DEF Init, BatchInv, EventInv, PlacesInv, SentOnce, NothingForgotten, InBatch
<1>2. TypeOK /\ (BatchInv /\ EventInv) /\ [Next]_vars => (BatchInv /\ EventInv)'
  BY BatchStep, EventStep
<1>3. QED
  BY <1>1, <1>2, TypeCorrect, PTL DEF Spec

\* No event disappears between the threads that track, drain and send.
THEOREM NothingIsForgotten == Spec => []NothingForgotten
<1>1. EventInv => NothingForgotten
  BY DEF EventInv
<1>2. QED
  BY <1>1, EventInvariant, PTL

\* No event is sent by two threads, or sent again after it was lost.
THEOREM NothingIsSentTwice == Spec => []SentOnce
<1>1. EventInv => SentOnce
  BY DEF EventInv
<1>2. QED
  BY <1>1, EventInvariant, PTL

-----------------------------------------------------------------------------
(* Closing the client.                                                      *)

\* How far close has come.
CloseInv ==
  /\ stopped <=> pc[Closer] # "open"
  /\ open <=> pc[Closer] # "done"
  /\ onTime \subseteq tracked

\* The last flush of close takes all that was tracked before it, whatever the
\* worker and the application threads do meanwhile.
LastFlushTakesAll == pc[Closer] \in {"send", "next", "done"} => onTime \cap buffer = {}

\* What close would have to wait for: the client of httpx is closed while no
\* thread has a batch to send.
ClosedQuietly == CloseTransport => \A p \in Senders : batch[p] = {}

\* Then what is sent to a closed client was tracked after close.
QuietInv ==
  /\ ~open => \A p \in Senders : onTime \cap batch[p] = {}
  /\ CloseLosesNothing

\* What a step of thread p does to the program counter of the closer.
LEMMA CloserMoves ==
  ASSUME TypeOK, NEW p \in Senders, NEW l, Goto(p, l)
  PROVE  pc'[Closer] = IF p = Closer THEN l ELSE pc[Closer]
BY SenderFacts DEF Goto, TypeOK

LEMMA CloseStep ==
  ASSUME TypeOK, CloseInv, LastFlushTakesAll, [Next]_vars
  PROVE  CloseInv' /\ LastFlushTakesAll'
<1> USE DEF CloseInv, LastFlushTakesAll
<1>1. ASSUME NEW t \in Threads, NEW e \in Events, Track(t, e)
      PROVE  CloseInv' /\ LastFlushTakesAll'
  <2>1. pc'[Closer] = pc[Closer]
    BY <1>1, CloserMoves, SenderFacts, BatcherAssumption DEF Track
  <2>2. QED
    BY <1>1, <2>1 DEF Track
<1>2. ASSUME NEW p \in Senders, Drain(p), UNCHANGED <<tracked, stopped, onTime, open>>,
             p = Closer => pc[Closer] = "join"
      PROVE  CloseInv' /\ LastFlushTakesAll'
  <2>1. buffer' = {}
    BY <1>2 DEF Drain
  <2>2. pc'[Closer] = IF p = Closer THEN (IF buffer = {} THEN "next" ELSE "send") ELSE pc[Closer]
    BY <1>2, CloserMoves DEF Drain
  <2>3. QED
    BY <1>2, <2>1, <2>2
<1>3. CASE (\E t \in Threads : Flush(t)) \/ Wake \/ FlushRest
  BY <1>2, <1>3, SenderFacts, BatcherAssumption DEF Flush, Wake, FlushRest
<1>4. ASSUME NEW p \in Senders, Send(p) PROVE CloseInv' /\ LastFlushTakesAll'
  <2>1. pc[p] = "send" /\ pc'[Closer] = IF p = Closer THEN "next" ELSE pc[Closer]
    BY <1>4, CloserMoves DEF Send
  <2>2. QED
    BY <1>4, <2>1 DEF Send
<1>5. ASSUME NEW p \in Senders, Return(p) PROVE CloseInv' /\ LastFlushTakesAll'
  BY <1>5, CloserMoves DEF Return
<1>6. CASE WorkerEnds
  BY <1>6, CloserMoves, SenderFacts, BatcherAssumption DEF WorkerEnds
<1>7. CASE Stop \/ CloseTransport
  BY <1>7, CloserMoves, SenderFacts DEF Stop, CloseTransport
<1>8. CASE UNCHANGED vars
  BY <1>8 DEF vars
<1>9. QED
  BY <1>1, <1>3, <1>4, <1>5, <1>6, <1>7, <1>8 DEF Next, Step

LEMMA CloseInvariant == Spec => [](CloseInv /\ LastFlushTakesAll)
<1>1. Init => CloseInv /\ LastFlushTakesAll
  BY SenderFacts, BatcherAssumption DEF Init, Rest, CloseInv, LastFlushTakesAll
<1>2. TypeOK /\ (CloseInv /\ LastFlushTakesAll) /\ [Next]_vars
        => (CloseInv /\ LastFlushTakesAll)'
  BY CloseStep
<1>3. QED
  BY <1>1, <1>2, TypeCorrect, PTL DEF Spec

\* The safety behind LeavesBuffer: after the flush of close no event tracked
\* before is left, and none comes back.
THEOREM CloseFlushesAll == Spec => []LastFlushTakesAll
<1>1. QED
  BY CloseInvariant, PTL

LEMMA QuietStep ==
  ASSUME TypeOK, EventInv, CloseInv, LastFlushTakesAll, QuietInv,
         [Next]_vars, [ClosedQuietly]_vars
  PROVE  QuietInv'
<1> USE DEF QuietInv, CloseLosesNothing
<1>1. ASSUME NEW p \in Senders, Drain(p), UNCHANGED <<onTime, open, lost, faults>>, CloseInv'
      PROVE  QuietInv'
  <2>1. ~open => onTime \cap buffer = {}
    BY DEF CloseInv, LastFlushTakesAll
  <2>2. \A q \in Senders : batch'[q] = IF q = p THEN buffer ELSE batch[q]
    BY <1>1 DEF Drain, TypeOK
  <2>3. QED
    BY <1>1, <2>1, <2>2
<1>2. CloseInv'
  BY CloseStep
<1>3. CASE (\E t \in Threads : Flush(t)) \/ Wake \/ FlushRest
  BY <1>1, <1>2, <1>3, SenderFacts DEF Flush, Wake, FlushRest
<1>4. ASSUME NEW t \in Threads, NEW e \in Events, Track(t, e) PROVE QuietInv'
  <2>1. UNCHANGED <<batch, open, lost, faults>> /\ (~open => onTime' = onTime)
    BY <1>4 DEF Track, CloseInv, TypeOK, Labels
  <2>2. onTime' \cap lost = onTime \cap lost
    BY <1>4 DEF Track, EventInv, PlacesInv
  <2>3. QED
    BY <2>1, <2>2
<1>5. ASSUME NEW p \in Senders, Send(p) PROVE QuietInv'
  <2>1. \A q \in Senders : batch'[q] \subseteq batch[q]
    BY <1>5 DEF Send, TypeOK
  <2>2. faults' = 0 => faults = 0 /\ (lost' = lost \/ (~open /\ lost' = lost \cup batch[p]))
    BY <1>5 DEF Send, TypeOK
  <2>3. QED
    BY <1>5, <2>1, <2>2 DEF Send
<1>6. CASE CloseTransport
  <2>1. ~(UNCHANGED vars)
    BY <1>6 DEF CloseTransport, CloseInv, vars
  <2>2. \A p \in Senders : batch[p] = {}
    BY <1>6, <2>1 DEF ClosedQuietly
  <2>3. QED
    BY <1>6, <2>2 DEF CloseTransport
<1>7. CASE WorkerEnds \/ Stop \/ (\E p \in Senders : Return(p)) \/ UNCHANGED vars
  BY <1>7 DEF WorkerEnds, Stop, Return, vars
<1>8. QED
  BY <1>3, <1>4, <1>5, <1>6, <1>7 DEF Next, Step

\* What the progress note promises of close (all events left are flushed) holds if
\* the transport is closed while no thread sends; the run events_close shows
\* that close, which joins no application thread and the worker for two seconds
\* at most, does not wait for that.
THEOREM QuietCloseLosesNothing == Spec /\ [][ClosedQuietly]_vars => []CloseLosesNothing
<1>1. Init => QuietInv
  BY DEF Init, QuietInv, CloseLosesNothing
<1>2. /\ TypeOK /\ (BatchInv /\ EventInv) /\ (CloseInv /\ LastFlushTakesAll) /\ QuietInv
      /\ [Next]_vars /\ [ClosedQuietly]_vars
      => QuietInv'
  BY QuietStep
<1>3. QuietInv => CloseLosesNothing
  BY DEF QuietInv
<1>4. QED
  BY <1>1, <1>2, <1>3, TypeCorrect, EventInvariant, CloseInvariant, PTL DEF Spec

-----------------------------------------------------------------------------
(* The bound on the buffer.                                                 *)

LEMMA FiniteBuffer == ASSUME TypeOK PROVE IsFiniteSet(buffer) /\ IsFiniteSet(Flushing)
BY BatcherAssumption, FS_Subset DEF TypeOK, Flushing

LEMMA EmptyIsBounded == ASSUME TypeOK', buffer' = {} PROVE BufferBounded'
<1>1. IsFiniteSet(Flushing')
  BY BatcherAssumption, FS_Subset DEF TypeOK, Flushing
<1>2. Cardinality(Flushing') \in Nat
  BY <1>1, FS_CardinalityType
<1>3. Cardinality(buffer') = 0
  BY FS_EmptySet
<1>4. QED
  BY <1>2, <1>3, BatcherAssumption DEF BufferBounded

\* A thread that leaves max_buffer or more events behind is going to flush.
LEMMA TrackIsBounded ==
  ASSUME TypeOK, BufferBounded, NEW t \in Threads, NEW e \in Events, Track(t, e)
  PROVE  BufferBounded'
<1>1. IsFiniteSet(buffer) /\ IsFiniteSet(Flushing)
  BY FiniteBuffer
<1>2. Cardinality(buffer) \in Nat /\ Cardinality(Flushing) \in Nat
  BY <1>1, FS_CardinalityType
<1>3. buffer' = buffer \cup {e}
  BY DEF Track
<1>4. Cardinality(buffer') \in Nat /\ Cardinality(buffer') <= Cardinality(buffer) + 1
  <2>1. Cardinality(buffer \cup {e}) = IF e \in buffer THEN Cardinality(buffer) ELSE Cardinality(buffer) + 1
    BY <1>1, FS_AddElement
  <2>2. QED
    BY <1>2, <1>3, <2>1
<1>5. pc[t] = "idle" /\ t \in Senders /\ t \notin Flushing
  BY DEF Track, Senders, Flushing
<1>6. CASE Cardinality(buffer') >= MaxBuffer
  <2>1. pc' = [pc EXCEPT ![t] = "flush"]
    BY <1>6 DEF Track, Goto
  <2>2. Flushing' = Flushing \cup {t}
    BY <2>1, <1>5 DEF Flushing, TypeOK, Senders
  <2>3. Cardinality(Flushing') = Cardinality(Flushing) + 1
    BY <2>2, <1>1, <1>5, FS_AddElement
  <2>4. QED
    BY <2>3, <1>2, <1>4, BatcherAssumption DEF BufferBounded
<1>7. CASE ~(Cardinality(buffer') >= MaxBuffer)
  <2>1. pc' = [pc EXCEPT ![t] = "idle"]
    BY <1>7 DEF Track, Goto
  <2>2. Flushing' = Flushing
    BY <2>1, <1>5 DEF Flushing, TypeOK
  <2>3. QED
    BY <2>2, <1>7, <1>2, <1>4, BatcherAssumption DEF BufferBounded
<1>8. QED
  BY <1>6, <1>7

\* A step that neither fills the buffer nor ends a flush keeps the bound.
LEMMA StillBounded ==
  ASSUME TypeOK, BufferBounded, buffer' = buffer, Flushing' = Flushing PROVE BufferBounded'
BY DEF BufferBounded

\* The buffer exceeds max_buffer - 1 by at most one event for every thread
\* that has yet to flush.
THEOREM BufferIsBounded == Spec => []BufferBounded
<1>1. Init => BufferBounded
  <2> SUFFICES ASSUME Init PROVE BufferBounded
    OBVIOUS
  <2>1. buffer = {} /\ Flushing = {}
    BY BatcherAssumption DEF Init, Flushing, Rest, Senders
  <2>2. QED
    BY <2>1, FS_EmptySet, BatcherAssumption DEF BufferBounded
<1>2. TypeOK /\ TypeOK' /\ BufferBounded /\ [Next]_vars => BufferBounded'
  <2> SUFFICES ASSUME TypeOK, TypeOK', BufferBounded, [Next]_vars PROVE BufferBounded'
    OBVIOUS
  <2>1. ASSUME NEW t \in Threads, NEW e \in Events, Track(t, e) PROVE BufferBounded'
    BY <2>1, TrackIsBounded
  <2>2. CASE (\E t \in Threads : Flush(t)) \/ Wake \/ FlushRest
    BY <2>2, EmptyIsBounded DEF Flush, Wake, FlushRest, Drain
  <2>3. ASSUME NEW p \in Senders, NEW l, Goto(p, l), l # "flush", pc[p] # "flush",
               UNCHANGED buffer
        PROVE  BufferBounded'
    BY <2>3, StillBounded DEF Goto, Flushing, TypeOK
  <2>4. ASSUME NEW p \in Senders, Send(p) PROVE BufferBounded'
    BY <2>4, <2>3 DEF Send
  <2>5. ASSUME NEW p \in Senders, Return(p) PROVE BufferBounded'
    BY <2>5, <2>3 DEF Return, Rest
  <2>6. CASE WorkerEnds \/ Stop \/ CloseTransport
    BY <2>6, <2>3, SenderFacts DEF WorkerEnds, Stop, CloseTransport
  <2>7. CASE UNCHANGED vars
    BY <2>7, StillBounded DEF vars, Flushing
  <2>8. QED
    BY <2>1, <2>2, <2>4, <2>5, <2>6, <2>7 DEF Next, Step
<1>3. QED
  BY <1>1, <1>2, TypeCorrect, PTL DEF Spec

-----------------------------------------------------------------------------
(* The tracker, for any finite set of settings and any batch size.          *)

\* An evaluation that is neither written, nor waiting, nor forgotten is carried
\* by a flush that took its setting after it: one that took it before is no help.
Carried ==
  \A s \in Evaluated :
    (lastWritten[s] < lastSeen[s] /\ s \notin pending \cup forgotten) =>
      \E q \in Evaluators : s \in tracking[q].ids /\ lastSeen[s] <= tracking[q].upTo

TrackerInv == TrackerTypeOK /\ FullSetFlushed /\ Carried

-----------------------------------------------------------------------------
(* What the actions do to the evaluations under way.                        *)

\* The others stay what they are.
OthersTrack(p) == \A q \in Evaluators : q # p => tracking'[q] = tracking[q]

\* The record of one evaluation changes, within the types.
LEMMA StepEffect ==
  ASSUME TrackerTypeOK, evaluations' \in Nat, evaluations <= evaluations',
         NEW p \in Evaluators, NEW r,
         tracking' = [tracking EXCEPT ![p] = r],
         r \in Carriers', (r.pc = "update") = (r.ids # {})
  PROVE  /\ tracking'[p] = r /\ OthersTrack(p)
         /\ tracking' \in [Evaluators -> Carriers']
         /\ \A q \in Evaluators : (tracking'[q].pc = "update") = (tracking'[q].ids # {})
<1>1. tracking \in [Evaluators -> Carriers] /\ evaluations \in Nat
  BY DEF TrackerTypeOK, Carriers
<1>2. tracking'[p] = r /\ OthersTrack(p)
  BY <1>1 DEF OthersTrack
<1>4. \A q \in Evaluators : tracking[q] \in Carriers'
  <2> SUFFICES ASSUME NEW q \in Evaluators PROVE tracking[q] \in Carriers'
    OBVIOUS
  <2>1. tracking[q] \in Carriers
    BY <1>1
  <2>2. 0..evaluations \subseteq 0..evaluations'
    BY <1>1
  <2>3. QED
    BY <2>1, <2>2 DEF Carriers
<1>5. tracking' \in [Evaluators -> Carriers']
  BY <1>1, <1>4
<1>6. \A q \in Evaluators : (tracking'[q].pc = "update") = (tracking'[q].ids # {})
  BY <1>2 DEF OthersTrack, TrackerTypeOK
<1>7. QED
  BY <1>2, <1>5, <1>6

-----------------------------------------------------------------------------
(* One lemma for each action.                                               *)

\* An evaluation adds its setting, and flushes if that fills the set.
LEMMA RecordKeeps ==
  ASSUME TrackerInv, NEW p \in Evaluators, NEW s \in Evaluated, Record(p, s)
  PROVE  TrackerInv'
<1> DEFINE l == IF Cardinality(pending \cup {s}) >= batch_size THEN "flush" ELSE "idle"
           r == [tracking[p] EXCEPT !.pc = l]
<1>1. /\ tracking[p].pc = "idle" /\ evaluations' = evaluations + 1 /\ evaluations \in Nat
      /\ pending' = pending \cup {s} /\ lastSeen' = [lastSeen EXCEPT ![s] = evaluations + 1]
      /\ lastWritten' = lastWritten /\ forgotten' = forgotten
      /\ tracking' = [tracking EXCEPT ![p] = r]
  BY DEF Record, TrackerInv, TrackerTypeOK
<1>2. tracking[p] \in Carriers /\ tracking[p].ids = {}
  BY <1>1 DEF TrackerInv, TrackerTypeOK, Carriers
<1>3. r.pc = l /\ r.ids = {} /\ r.upTo = tracking[p].upTo /\ l \in {"flush", "idle"}
      /\ r \in Carriers'
  <2>1. tracking[p].upTo \in 0..evaluations'
    BY <1>1, <1>2 DEF Carriers
  <2>2. QED
    BY <1>2, <2>1 DEF Carriers
<1> HIDE DEF r
<1>4. /\ tracking'[p] = r /\ OthersTrack(p)
      /\ tracking' \in [Evaluators -> Carriers']
      /\ \A q \in Evaluators : (tracking'[q].pc = "update") = (tracking'[q].ids # {})
  <2>1. TrackerTypeOK /\ evaluations' \in Nat /\ evaluations <= evaluations'
    BY <1>1 DEF TrackerInv
  <2>2. r \in Carriers' /\ (r.pc = "update") = (r.ids # {})
    BY <1>3
  <2>3. tracking' = [tracking EXCEPT ![p] = r]
    BY <1>1
  <2>4. QED
    BY <2>1, <2>2, <2>3, StepEffect
<1>5. TrackerTypeOK'
  <2>1. lastSeen' \in [Evaluated -> 0..evaluations'] /\ lastWritten' \in [Evaluated -> 0..evaluations']
    BY <1>1 DEF TrackerInv, TrackerTypeOK
  <2>2. QED
    BY <1>1, <1>4, <2>1 DEF TrackerInv, TrackerTypeOK
<1>6. FullSetFlushed'
  BY <1>1, <1>3, <1>4 DEF FullSetFlushed
<1>7. Carried'
  BY <1>1, <1>2, <1>4 DEF TrackerInv, TrackerTypeOK, Carried, OthersTrack
<1>8. QED
  BY <1>5, <1>6, <1>7 DEF TrackerInv

\* A flush takes the whole set, and with it everything evaluated so far.
LEMMA BeginFlushKeeps ==
  ASSUME TrackerInv, NEW p \in Evaluators, BeginFlush(p)
  PROVE  TrackerInv'
<1> DEFINE r == IF pending = {} THEN Resting
                ELSE [pc |-> "update", ids |-> pending, upTo |-> evaluations]
<1>1. /\ tracking[p].pc = "flush" /\ tracking' = [tracking EXCEPT ![p] = r] /\ pending' = {}
      /\ UNCHANGED <<evaluations, lastSeen, lastWritten, forgotten>>
      /\ evaluations \in Nat /\ pending \subseteq Evaluated
  BY DEF BeginFlush, TrackerInv, TrackerTypeOK
<1>2. /\ r \in Carriers' /\ r.ids = pending /\ (r.pc = "update") = (r.ids # {})
      /\ r.pc # "flush" /\ (pending # {} => r.upTo = evaluations)
  BY <1>1 DEF Resting, Carriers
<1> HIDE DEF r
<1>3. /\ tracking'[p] = r /\ OthersTrack(p)
      /\ tracking' \in [Evaluators -> Carriers']
      /\ \A q \in Evaluators : (tracking'[q].pc = "update") = (tracking'[q].ids # {})
  <2>1. TrackerTypeOK /\ evaluations' \in Nat /\ evaluations <= evaluations'
    BY <1>1 DEF TrackerInv
  <2>2. r \in Carriers' /\ (r.pc = "update") = (r.ids # {})
    BY <1>2
  <2>3. tracking' = [tracking EXCEPT ![p] = r]
    BY <1>1
  <2>4. QED
    BY <2>1, <2>2, <2>3, StepEffect
<1>4. TrackerTypeOK'
  BY <1>1, <1>3 DEF TrackerInv, TrackerTypeOK
<1>5. FullSetFlushed'
  BY <1>1, FS_EmptySet, TrackerAssumption DEF FullSetFlushed
<1>6. Carried'
  <2> SUFFICES ASSUME NEW s \in Evaluated, lastWritten[s] < lastSeen[s], s \notin forgotten
               PROVE  \E q \in Evaluators : s \in tracking'[q].ids /\ lastSeen[s] <= tracking'[q].upTo
    BY <1>1 DEF Carried
  <2>1. lastSeen[s] <= evaluations
    BY DEF TrackerInv, TrackerTypeOK
  <2>2. CASE s \in pending
    BY <1>2, <1>3, <2>1, <2>2
  <2>3. CASE s \notin pending
    <3>1. PICK q \in Evaluators : s \in tracking[q].ids /\ lastSeen[s] <= tracking[q].upTo
      BY <2>3 DEF TrackerInv, Carried
    <3>2. q # p
      BY <1>1, <3>1 DEF TrackerInv, TrackerTypeOK
    <3>3. QED
      BY <1>3, <3>1, <3>2 DEF OthersTrack
  <2>4. QED
    BY <2>2, <2>3
<1>7. QED
  BY <1>4, <1>5, <1>6 DEF TrackerInv

\* An UPDATE covers what was evaluated before its ids were taken.
LEMMA WriteKeeps ==
  ASSUME TrackerInv, NEW p \in Evaluators, Write(p) \/ WriteFails(p)
  PROVE  TrackerInv'
<1>1. /\ tracking[p].pc = "update" /\ tracking' = [tracking EXCEPT ![p] = Resting]
      /\ UNCHANGED <<pending, evaluations, lastSeen>>
      /\ evaluations \in Nat
  BY DEF Write, WriteFails, TrackerInv, TrackerTypeOK
<1>2. Resting.pc = "idle" /\ Resting.ids = {} /\ Resting.upTo = 0 /\ Resting \in Carriers'
  BY <1>1 DEF Resting, Carriers
<1>3. /\ tracking'[p] = Resting /\ OthersTrack(p)
      /\ tracking' \in [Evaluators -> Carriers']
      /\ \A q \in Evaluators : (tracking'[q].pc = "update") = (tracking'[q].ids # {})
  <2>1. TrackerTypeOK /\ evaluations' \in Nat /\ evaluations <= evaluations'
    BY <1>1 DEF TrackerInv
  <2>2. Resting \in Carriers' /\ (Resting.pc = "update") = (Resting.ids # {})
    BY <1>2
  <2>3. tracking' = [tracking EXCEPT ![p] = Resting]
    BY <1>1
  <2>4. QED
    BY <2>1, <2>2, <2>3, StepEffect
<1>4. tracking[p].ids \subseteq Evaluated /\ tracking[p].upTo \in 0..evaluations
  BY DEF TrackerInv, TrackerTypeOK, Carriers
<1>5. TrackerTypeOK'
  <2>1. lastWritten' \in [Evaluated -> 0..evaluations] /\ forgotten' \subseteq Evaluated
    BY <1>4 DEF Write, WriteFails, Stamped, TrackerInv, TrackerTypeOK
  <2>2. QED
    BY <1>1, <1>3, <2>1 DEF TrackerInv, TrackerTypeOK
<1>6. FullSetFlushed'
  BY <1>1, <1>3 DEF TrackerInv, FullSetFlushed, OthersTrack
<1>7. Carried'
  <2> SUFFICES ASSUME NEW s \in Evaluated, lastWritten'[s] < lastSeen[s], s \notin pending, s \notin forgotten'
               PROVE  \E q \in Evaluators : s \in tracking'[q].ids /\ lastSeen[s] <= tracking'[q].upTo
    BY <1>1 DEF Carried
  <2>1. lastSeen[s] \in Nat /\ lastWritten[s] \in Nat
    BY DEF TrackerInv, TrackerTypeOK
  <2>2. lastWritten[s] < lastSeen[s] /\ s \notin forgotten
    BY <1>4, <2>1 DEF Write, WriteFails, Stamped
  <2>3. PICK q \in Evaluators : s \in tracking[q].ids /\ lastSeen[s] <= tracking[q].upTo
    BY <2>2 DEF TrackerInv, Carried
  <2>4. q # p
    BY <1>4, <2>1, <2>3 DEF Write, WriteFails, Stamped
  <2>5. QED
    BY <1>3, <2>3, <2>4 DEF OthersTrack
<1>8. QED
  BY <1>5, <1>6, <1>7 DEF TrackerInv

\* What is in memory when the process ends is forgotten.
LEMMA EndKeeps == ASSUME TrackerInv, ProcessEnds PROVE TrackerInv'
<1>1. /\ pending' = {} /\ tracking' = [q \in Evaluators |-> Resting]
      /\ forgotten' = forgotten \cup pending \cup UNION {tracking[q].ids : q \in Evaluators}
      /\ UNCHANGED <<evaluations, lastSeen, lastWritten>>
  BY DEF ProcessEnds
<1>2. UNION {tracking[q].ids : q \in Evaluators} \subseteq Evaluated /\ evaluations \in Nat
  BY DEF TrackerInv, TrackerTypeOK, Carriers
<1>3. Resting \in Carriers /\ Resting.pc = "idle" /\ Resting.ids = {}
  BY <1>2 DEF Resting, Carriers
<1>4. TrackerTypeOK'
  <2>1. Carriers' = Carriers
    BY <1>1 DEF Carriers
  <2>2. QED
    BY <1>1, <1>2, <1>3, <2>1 DEF TrackerInv, TrackerTypeOK
<1>5. FullSetFlushed'
  BY <1>1, FS_EmptySet, TrackerAssumption DEF FullSetFlushed
<1>6. Carried'
  BY <1>1 DEF TrackerInv, Carried
<1>7. QED
  BY <1>4, <1>5, <1>6 DEF TrackerInv

\* The invariant is inductive.
LEMMA TrackerInvariant == TrackerSpec => []TrackerInv
<1>1. TrackerInit => TrackerInv
  <2> SUFFICES ASSUME TrackerInit PROVE TrackerInv
    OBVIOUS
  <2>1. Resting \in [pc : {"idle", "flush", "update"}, ids : SUBSET Evaluated, upTo : 0..0]
        /\ Resting.pc = "idle" /\ Resting.ids = {}
    BY DEF Resting
  <2>2. TrackerTypeOK
    BY <2>1 DEF TrackerInit, TrackerTypeOK, Carriers
  <2>3. FullSetFlushed
    BY FS_EmptySet, TrackerAssumption DEF TrackerInit, FullSetFlushed
  <2>4. Carried
    BY DEF TrackerInit, Carried
  <2>5. QED
    BY <2>2, <2>3, <2>4 DEF TrackerInv
<1>2. TrackerInv /\ [TrackerNext]_trackerVars => TrackerInv'
  <2> SUFFICES ASSUME TrackerInv, [TrackerNext]_trackerVars PROVE TrackerInv'
    OBVIOUS
  <2>1. ASSUME NEW p \in Evaluators, NEW s \in Evaluated, Record(p, s) PROVE TrackerInv'
    BY <2>1, RecordKeeps
  <2>2. ASSUME NEW p \in Evaluators, BeginFlush(p) PROVE TrackerInv'
    BY <2>2, BeginFlushKeeps
  <2>3. ASSUME NEW p \in Evaluators, Write(p) \/ WriteFails(p) PROVE TrackerInv'
    BY <2>3, WriteKeeps
  <2>4. CASE ProcessEnds
    BY <2>4, EndKeeps
  <2>5. CASE UNCHANGED trackerVars
    BY <2>5 DEF trackerVars, TrackerInv, TrackerTypeOK, Carriers, FullSetFlushed, Carried
  <2>6. QED
    BY <2>1, <2>2, <2>3, <2>4, <2>5 DEF TrackerNext
<1>3. QED
  BY <1>1, <1>2, PTL DEF TrackerSpec

-----------------------------------------------------------------------------

\* Types, and no UPDATE without ids: EvaluationTracker for any batch size.
THEOREM TrackerTypeCorrect == TrackerSpec => []TrackerTypeOK
<1>1. TrackerInv => TrackerTypeOK
  BY DEF TrackerInv
<1>2. QED
  BY <1>1, TrackerInvariant, PTL

\* No flush takes away an evaluation it does not write: only an UPDATE that fails
\* or the end of the process loses one.
THEOREM EvaluationsAreKept == TrackerSpec => []EvaluationsKept
<1>1. TrackerInv => EvaluationsKept
  BY DEF TrackerInv, Carried, EvaluationsKept
<1>2. QED
  BY <1>1, TrackerInvariant, PTL

\* A set that has reached batch_size has somebody on the way to flush it.
THEOREM FullSetsAreFlushed == TrackerSpec => []FullSetFlushed
<1>1. TrackerInv => FullSetFlushed
  BY DEF TrackerInv
<1>2. QED
  BY <1>1, TrackerInvariant, PTL

-----------------------------------------------------------------------------
(* The rate limit, for any limit, length of a minute and number of requests   *)
(* and errors.  The key of a minute counts all that passes on it for as long *)
(* as the minute lasts; what passes later counts on the key of its request.  *)

MinuteOver(m) == clock >= (m + 1) * Minute

CheckingRecord == [pc : {"idle", "incr", "expire"}, key : Minutes]

RateTypes ==
  /\ clock \in Nat /\ _rate_key \in Minutes
  /\ counter \in [Minutes -> Nat] /\ ttl \in [Minutes -> Int]
  /\ passed \in [Minutes -> Nat] /\ late \in [Minutes -> SUBSET Apis]
  /\ checking \in [Apis -> CheckingRecord]

\* No request holds the key of a minute to come, and one that has passed late in
\* a minute takes the key of that minute from then on.
KeysInv ==
  \A p \in Apis :
    /\ checking[p].key <= _rate_key
    /\ \A m \in Minutes : p \in late[m] =>
         m <= _rate_key /\ (checking[p].pc = "incr" => m <= checking[p].key)

\* The key of a minute outlives it, and until then counts what passed on it.
CountInv ==
  \A m \in Minutes :
    /\ ttl[m] # Never => ttl[m] >= (m + 1) * Minute
    /\ passed[m] <= Limit + Cardinality(late[m])
    /\ ~MinuteOver(m) => passed[m] <= counter[m] + Cardinality(late[m])

RateInv == RateTypes /\ KeysInv /\ CountInv

\* Division by the length of a minute.
LEMMA MinuteOf ==
  ASSUME NEW t \in Nat
  PROVE  /\ t \div Minute \in Nat
         /\ (t \div Minute) * Minute <= t /\ t < (t \div Minute + 1) * Minute
         /\ \A m \in Nat : t < (m + 1) * Minute => t \div Minute <= m
         /\ \A m \in Nat : m <= t \div Minute => m * Minute <= t
<1> DEFINE k == t \div Minute
<1>1. k \in Nat /\ k * Minute <= t /\ t < (k + 1) * Minute /\ Minute \in Nat \ {0}
  BY RateLimitAssumption
<1> HIDE DEF k
<1>2. ASSUME NEW m \in Nat, t < (m + 1) * Minute PROVE k <= m
  <2>1. CASE m + 1 <= k
    <3>1. (m + 1) * Minute <= k * Minute  BY <2>1, <1>1
    <3>2. (m + 1) * Minute \in Nat /\ k * Minute \in Nat  BY <1>1
    <3> QED  BY <3>1, <3>2, <1>1, <1>2
  <2> QED  BY <2>1, <1>1
<1>3. ASSUME NEW m \in Nat, m <= k PROVE m * Minute <= t
  <2>1. m * Minute <= k * Minute  BY <1>3, <1>1
  <2>2. m * Minute \in Nat /\ k * Minute \in Nat  BY <1>1
  <2> QED  BY <2>1, <2>2, <1>1
<1> QED  BY <1>1, <1>2, <1>3 DEF k

LEMMA MinuteMultiples ==
  ASSUME NEW m \in Nat
  PROVE  m * Minute \in Nat /\ (m + 1) * Minute \in Nat /\ (m + 1) * Minute = m * Minute + Minute
BY RateLimitAssumption

LEMMA MinutesNat == Minutes \subseteq Nat /\ 0 \in Minutes
BY RateLimitAssumption, MinuteOf DEF Minutes

LEMMA LateCount ==
  ASSUME NEW S \in SUBSET Apis
  PROVE  /\ IsFiniteSet(S) /\ Cardinality(S) \in Nat /\ Cardinality(S) <= Cardinality(Apis)
         /\ \A p \in Apis \ S : Cardinality(S \cup {p}) = Cardinality(S) + 1
<1>1. IsFiniteSet(S) /\ Cardinality(S) <= Cardinality(Apis)
  BY RateLimitAssumption, FS_Subset
<1>2. Cardinality(S) \in Nat
  BY <1>1, FS_CardinalityType
<1>3. ASSUME NEW p \in Apis \ S PROVE Cardinality(S \cup {p}) = Cardinality(S) + 1
  BY <1>1, <1>3, FS_AddElement
<1> QED  BY <1>1, <1>2, <1>3

LEMMA RateInitHolds == RateInit => RateInv
<1> SUFFICES ASSUME RateInit PROVE RateInv
  OBVIOUS
<1>1. clock \in Nat /\ clock < (0 + 1) * Minute
  BY RateLimitAssumption DEF RateInit
<1>2. _rate_key = 0
  BY <1>1, MinuteOf DEF _rate_key
<1>3. Cardinality({}) = 0
  BY FS_EmptySet
<1>4. RateTypes /\ KeysInv
  BY <1>1, <1>2, MinutesNat DEF RateInit, RateTypes, KeysInv, CheckingRecord, Unchecked, Never
<1>5. CountInv
  BY <1>3, RateLimitAssumption DEF RateInit, CountInv, Never
<1> QED  BY <1>4, <1>5 DEF RateInv

\* Nothing but the turn of a minute moves the clock, and it moves it forward.
LEMMA TickKeeps == ASSUME RateInv, Tick PROVE RateInv'
<1> USE DEF RateInv
<1>0. /\ Minute \in Nat \ {0} /\ Limit \in Nat \ {0} /\ MaxClock \in Nat
      /\ Minutes \subseteq Nat /\ clock \in Nat /\ _rate_key \in Minutes
  BY RateLimitAssumption, MinutesNat DEF RateTypes
<1>1. clock' = clock + 1 /\ clock' \in Nat /\ clock' <= MaxClock
  BY <1>0 DEF Tick
<1>2. _rate_key' \in Minutes /\ _rate_key <= _rate_key'
  <2> DEFINE t == clock + 1
             k == t \div Minute
  <2>0. _rate_key \in Nat /\ _rate_key * Minute <= clock
    BY <1>0, MinuteOf DEF _rate_key
  <2>1. k \in Nat /\ k * Minute <= t /\ t < (k + 1) * Minute  BY <1>0, MinuteOf
  <2>2. k \in Minutes
    <3> DEFINE l == MaxClock \div Minute
    <3>1. l \in Nat /\ MaxClock < (l + 1) * Minute  BY <1>0, MinuteOf
    <3> HIDE DEF l
    <3>2. t < (l + 1) * Minute  BY <3>1, <1>1, <1>0, MinuteMultiples
    <3>3. k <= l  BY <1>0, <3>1, <3>2, MinuteOf
    <3> QED  BY <2>1, <3>1, <3>3 DEF Minutes, l
  <2>3. _rate_key <= k
    <3>1. clock < (k + 1) * Minute  BY <1>0, <2>1, MinuteMultiples
    <3> HIDE DEF k
    <3> QED  BY <1>0, <2>1, <3>1, MinuteOf DEF _rate_key
  <2>4. _rate_key' = k  BY <1>1 DEF _rate_key
  <2> QED  BY <2>2, <2>3, <2>4
<1> HIDE DEF _rate_key
<1>3. /\ counter' = [m \in Minutes |-> IF ttl[m] = clock + 1 THEN 0 ELSE counter[m]]
      /\ ttl' = [m \in Minutes |-> IF ttl[m] = clock + 1 THEN Never ELSE ttl[m]]
      /\ UNCHANGED <<checking, passed, late>>
  BY DEF Tick
<1>4. counter' \in [Minutes -> Nat] /\ ttl' \in [Minutes -> Int]
  BY <1>3 DEF RateTypes, Never
<1>5. RateTypes'
  BY <1>1, <1>2, <1>3, <1>4 DEF RateTypes
<1>6. KeysInv'
  <2>1. _rate_key \in Nat /\ _rate_key' \in Nat  BY <1>0, <1>2
  <2>2. \A p \in Apis : checking[p].key \in Nat  BY <1>0 DEF RateTypes, CheckingRecord
  <2>3. \A p \in Apis : checking[p].key <= _rate_key'
    BY <1>2, <2>1, <2>2 DEF KeysInv
  <2>4. \A p \in Apis : \A m \in Minutes : p \in late[m] => m <= _rate_key'
    BY <1>0, <1>2, <2>1 DEF KeysInv
  <2> QED  BY <1>3, <2>3, <2>4 DEF KeysInv
<1>7. CountInv'
  <2> SUFFICES ASSUME NEW m \in Minutes
               PROVE  /\ ttl'[m] # Never => ttl'[m] >= (m + 1) * Minute
                      /\ passed'[m] <= Limit + Cardinality(late'[m])
                      /\ ~MinuteOver(m)' => passed'[m] <= counter'[m] + Cardinality(late'[m])
    BY DEF CountInv
  <2>1. (m + 1) * Minute \in Nat /\ ttl[m] \in Int
    BY <1>0, MinuteMultiples DEF RateTypes
  <2>2. ttl'[m] # Never => ttl'[m] >= (m + 1) * Minute
    BY <1>3 DEF CountInv
  <2>3. passed'[m] <= Limit + Cardinality(late'[m])
    BY <1>3 DEF CountInv
  <2>4. ASSUME ~MinuteOver(m)' PROVE passed'[m] <= counter'[m] + Cardinality(late'[m])
    <3>1. clock + 1 < (m + 1) * Minute  BY <1>1, <2>1, <2>4 DEF MinuteOver
    <3>2. ttl[m] # clock + 1
      BY <1>0, <2>1, <3>1 DEF CountInv, Never
    <3>3. ~MinuteOver(m)  BY <1>0, <2>1, <3>1 DEF MinuteOver
    <3> QED  BY <1>3, <3>2, <3>3 DEF CountInv
  <2> QED  BY <2>2, <2>3, <2>4
<1> QED  BY <1>5, <1>6, <1>7

\* Steps that count nothing that passes keep the counts, when they keep the
\* keys as long as their minutes.
LEMMA UncountedKeeps ==
  ASSUME RateInv, NEW p \in Apis, NEW r \in CheckingRecord,
         checking' = [checking EXCEPT ![p] = r],
         r.key \in {0, _rate_key, checking[p].key},
         r.pc = "incr" => r.key = _rate_key,
         UNCHANGED <<clock, passed, late>>,
         counter' \in [Minutes -> Nat], ttl' \in [Minutes -> Int],
         \A m \in Minutes :
           counter[m] <= counter'[m] /\ (ttl'[m] # Never => ttl'[m] >= (m + 1) * Minute)
  PROVE  RateInv'
<1> USE DEF RateInv
<1>0. /\ _rate_key \in Minutes /\ _rate_key \in Nat /\ Minutes \subseteq Nat
      /\ _rate_key' = _rate_key /\ Limit \in Nat
      /\ \A m \in Minutes : MinuteOver(m)' <=> MinuteOver(m)
  <2>1. _rate_key' = _rate_key /\ \A m \in Minutes : MinuteOver(m)' <=> MinuteOver(m)
    BY DEF _rate_key, MinuteOver
  <2> HIDE DEF _rate_key
  <2> QED  BY <2>1, MinutesNat, RateLimitAssumption DEF RateTypes
<1> HIDE DEF _rate_key
<1>1. RateTypes'
  BY <1>0 DEF RateTypes
<1>2. \A q \in Apis : checking'[q] = IF q = p THEN r ELSE checking[q]
  BY DEF RateTypes
<1>3. KeysInv'
  <2>1. r.key <= _rate_key  BY <1>0 DEF KeysInv
  <2>2. \A m \in Minutes : p \in late[m] => m <= _rate_key  BY DEF KeysInv
  <2> QED  BY <1>0, <1>2, <2>1, <2>2 DEF KeysInv
<1>4. CountInv'
  <2> SUFFICES ASSUME NEW m \in Minutes
               PROVE  /\ ttl'[m] # Never => ttl'[m] >= (m + 1) * Minute
                      /\ passed[m] <= Limit + Cardinality(late[m])
                      /\ ~MinuteOver(m) => passed[m] <= counter'[m] + Cardinality(late[m])
    BY <1>0 DEF CountInv
  <2>1. /\ passed[m] \in Nat /\ counter[m] \in Nat /\ counter'[m] \in Nat
        /\ Cardinality(late[m]) \in Nat
    BY LateCount DEF RateTypes
  <2> QED  BY <2>1 DEF CountInv
<1> QED  BY <1>1, <1>3, <1>4

\* INCR lets a request pass: on the key of the minute there is a count for it, and
\* on an earlier one it is late, for the first time in this minute.
LEMMA IncrKeeps == ASSUME RateInv, NEW p \in Apis, Incr(p) PROVE RateInv'
<1> USE DEF RateInv
<1> DEFINE k == checking[p].key
           value == counter[k] + 1
           here == _rate_key
<1>0. /\ Minute \in Nat \ {0} /\ Limit \in Nat /\ Minutes \subseteq Nat
      /\ k \in Minutes /\ here \in Minutes /\ here \in Nat /\ k <= here /\ value \in Nat
      /\ checking[p].pc = "incr"
  <2>1. k \in Minutes /\ k <= here /\ checking[p].pc = "incr"
    BY DEF RateTypes, KeysInv, CheckingRecord, Incr
  <2>2. here \in Minutes  BY DEF RateTypes
  <2> HIDE DEF here, k
  <2> QED  BY <2>1, <2>2, RateLimitAssumption, MinutesNat DEF RateTypes
<1>1. /\ counter' = [counter EXCEPT ![k] = value]
      /\ checking' = [checking EXCEPT ![p] =
            IF value = 1 THEN [pc |-> "expire", key |-> k] ELSE Unchecked]
      /\ passed' = [passed EXCEPT ![here] = IF Admits(value) THEN @ + 1 ELSE @]
      /\ late' = [late EXCEPT ![here] = IF Admits(value) /\ k # here THEN @ \cup {p} ELSE @]
      /\ clock' = clock /\ ttl' = ttl
  BY DEF Incr
<1>2. /\ _rate_key' = here
      /\ \A m \in Minutes : MinuteOver(m)' <=> MinuteOver(m)
  BY <1>1 DEF _rate_key, MinuteOver
<1>3. ~MinuteOver(here)
  <2>1. clock < (_rate_key + 1) * Minute /\ clock \in Nat
    BY MinuteOf DEF _rate_key, RateTypes
  <2> HIDE DEF _rate_key
  <2>2. (_rate_key + 1) * Minute \in Nat  BY <1>0, MinuteMultiples
  <2> QED  BY <2>1, <2>2 DEF MinuteOver
<1> HIDE DEF here, k, _rate_key
<1>4. /\ \A m \in Minutes : m # here => passed'[m] = passed[m] /\ late'[m] = late[m]
      /\ \A m \in Minutes : m # k => counter'[m] = counter[m]
      /\ counter'[k] = value /\ value = counter[k] + 1
      /\ passed'[here] = IF Admits(value) THEN passed[here] + 1 ELSE passed[here]
      /\ late'[here] = IF Admits(value) /\ k # here THEN late[here] \cup {p} ELSE late[here]
  BY <1>0, <1>1 DEF RateTypes
<1>5. /\ passed[here] \in Nat /\ counter[here] \in Nat /\ counter[k] \in Nat
      /\ late[here] \in SUBSET Apis
  BY <1>0 DEF RateTypes
<1>6. RateTypes'
  <2>1. (IF value = 1 THEN [pc |-> "expire", key |-> k] ELSE Unchecked) \in CheckingRecord
    BY <1>0, MinutesNat DEF CheckingRecord, Unchecked
  <2>2. checking' \in [Apis -> CheckingRecord] /\ counter' \in [Minutes -> Nat]
    BY <1>0, <1>1, <2>1 DEF RateTypes
  <2>3. passed' \in [Minutes -> Nat] /\ late' \in [Minutes -> SUBSET Apis]
    BY <1>0, <1>1, <1>5 DEF RateTypes
  <2> QED  BY <1>0, <1>1, <1>2, <2>2, <2>3 DEF RateTypes
<1>7. KeysInv'
  <2>1. \A q \in Apis : checking'[q] = IF q = p
          THEN (IF value = 1 THEN [pc |-> "expire", key |-> k] ELSE Unchecked) ELSE checking[q]
    BY <1>1 DEF RateTypes
  <2>2. checking'[p].pc # "incr" /\ checking'[p].key <= here
    BY <1>0, <2>1 DEF Unchecked
  <2>3. \A q \in Apis, m \in Minutes : q \in late'[m] => q \in late[m] \/ (q = p /\ m = here)
    BY <1>4
  <2>4. \A q \in Apis, m \in Minutes : q \in late'[m] => m <= here
    BY <1>0, <2>3 DEF KeysInv, here
  <2>5. \A q \in Apis : q # p => checking'[q] = checking[q] /\ checking[q].key <= here
    BY <2>1 DEF KeysInv, here
  <2>6. \A q \in Apis, m \in Minutes :
          q # p /\ q \in late'[m] /\ checking[q].pc = "incr" => m <= checking[q].key
    BY <2>3 DEF KeysInv
  <2>7. \A q \in Apis : checking'[q].key <= here
    BY <2>2, <2>5
  <2>8. \A q \in Apis, m \in Minutes :
          q \in late'[m] /\ checking'[q].pc = "incr" => m <= checking'[q].key
    BY <2>2, <2>5, <2>6
  <2> QED  BY <1>2, <2>4, <2>7, <2>8 DEF KeysInv
<1>8. CountInv'
  <2>1. /\ passed[here] <= Limit + Cardinality(late[here])
        /\ passed[here] <= counter[here] + Cardinality(late[here])
        /\ Cardinality(late[here]) \in Nat
    BY <1>0, <1>3, <1>5, LateCount DEF CountInv
  <2>2. /\ passed'[here] <= Limit + Cardinality(late'[here])
        /\ passed'[here] <= counter'[here] + Cardinality(late'[here])
    <3>1. CASE ~Admits(value)
      <4>1. counter'[here] \in Nat /\ counter'[here] >= counter[here]
        BY <1>0, <1>4, <1>5
      <4> QED  BY <1>0, <1>4, <1>5, <2>1, <3>1, <4>1
    <3>2. CASE Admits(value) /\ k = here
      BY <1>0, <1>4, <1>5, <2>1, <3>2 DEF Admits
    <3>3. CASE Admits(value) /\ k # here
      <4>1. p \notin late[here]
        <5>1. p \in late[here] => here <= k
          BY <1>0 DEF KeysInv, k
        <5>2. k \in Nat /\ here \in Nat /\ k <= here
          BY <1>0
        <5> QED  BY <5>1, <5>2, <3>3
      <4>2. Cardinality(late'[here]) = Cardinality(late[here]) + 1
        BY <1>4, <1>5, <3>3, <4>1, LateCount
      <4>3. counter'[here] = counter[here] /\ passed'[here] = passed[here] + 1
        BY <1>0, <1>4, <3>3
      <4> QED  BY <1>0, <1>5, <2>1, <4>2, <4>3
    <3> QED  BY <3>1, <3>2, <3>3
  <2>3. ASSUME NEW m \in Minutes, m # here
        PROVE  /\ passed'[m] <= Limit + Cardinality(late'[m])
               /\ ~MinuteOver(m) => passed'[m] <= counter'[m] + Cardinality(late'[m])
    <3>1. /\ counter[m] \in Nat /\ counter'[m] \in Nat /\ counter[m] <= counter'[m]
          /\ passed[m] \in Nat /\ Cardinality(late[m]) \in Nat
      BY <1>0, <1>4, LateCount DEF RateTypes
    <3>2. passed'[m] = passed[m] /\ late'[m] = late[m]
      BY <1>4, <2>3
    <3> QED  BY <3>1, <3>2 DEF CountInv
  <2> QED  BY <1>1, <1>2, <2>2, <2>3 DEF CountInv
<1> QED  BY <1>6, <1>7, <1>8

LEMMA RateStepKeeps == RateInv /\ [RateNext]_rateVars => RateInv'
<1> SUFFICES ASSUME RateInv, [RateNext]_rateVars PROVE RateInv'
  OBVIOUS
<1>0. /\ Minute \in Nat \ {0} /\ Minutes \subseteq Nat /\ 0 \in Minutes
      /\ _rate_key \in Minutes /\ clock \in Nat
      /\ counter \in [Minutes -> Nat] /\ ttl \in [Minutes -> Int]
      /\ \A m \in Minutes : ttl[m] # Never => ttl[m] >= (m + 1) * Minute
  BY RateLimitAssumption, MinutesNat DEF RateInv, RateTypes, CountInv
<1>i. Unchecked \in CheckingRecord /\ Unchecked.key = 0 /\ Unchecked.pc = "idle"
  BY <1>0 DEF CheckingRecord, Unchecked
<1>1. CASE Tick
  BY <1>1, TickKeeps
<1>2. ASSUME NEW p \in Apis, ReadClock(p) PROVE RateInv'
  <2> DEFINE r == [pc |-> "incr", key |-> _rate_key]
  <2>1. r \in CheckingRecord /\ r.key = _rate_key
    BY <1>0 DEF CheckingRecord
  <2>2. /\ checking' = [checking EXCEPT ![p] = r]
        /\ UNCHANGED <<clock, passed, late>> /\ counter' = counter /\ ttl' = ttl
    BY <1>2 DEF ReadClock
  <2> HIDE DEF r
  <2>3. \A m \in Minutes :
          counter[m] <= counter'[m] /\ (ttl'[m] # Never => ttl'[m] >= (m + 1) * Minute)
    BY <1>0, <2>2
  <2> QED  BY <1>0, <2>1, <2>2, <2>3, UncountedKeeps
<1>3. ASSUME NEW p \in Apis, Incr(p) PROVE RateInv'
  BY <1>3, IncrKeeps
<1>4. ASSUME NEW p \in Apis, IncrFails(p) \/ GiveUp(p) PROVE RateInv'
  <2>1. /\ checking' = [checking EXCEPT ![p] = Unchecked]
        /\ UNCHANGED <<clock, passed, late>> /\ ttl' = ttl
        /\ \/ counter' = counter
           \/ counter' = [counter EXCEPT ![checking[p].key] = @ + 1]
    BY <1>4 DEF IncrFails, GiveUp
  <2>2. counter' \in [Minutes -> Nat] /\ \A m \in Minutes : counter[m] <= counter'[m]
    BY <1>0, <2>1
  <2> QED  BY <1>0, <1>i, <2>1, <2>2, UncountedKeeps
<1>5. ASSUME NEW p \in Apis, Expire(p) PROVE RateInv'
  <2> DEFINE k == checking[p].key
  <2>1. /\ k \in Minutes /\ k <= _rate_key
    BY DEF RateInv, RateTypes, KeysInv, CheckingRecord
  <2>2. /\ ttl' = [ttl EXCEPT ![k] = IF counter[k] = 0 THEN Never ELSE clock + Minute]
        /\ checking' = [checking EXCEPT ![p] = Unchecked]
        /\ UNCHANGED <<clock, passed, late>> /\ counter' = counter
    BY <1>5 DEF Expire
  <2> HIDE DEF k
  <2>3. clock + Minute >= (k + 1) * Minute
    <3>1. k * Minute <= clock  BY <1>0, <2>1, MinuteOf DEF _rate_key
    <3>2. (k + 1) * Minute = k * Minute + Minute /\ k * Minute \in Nat
      BY <1>0, <2>1, MinuteMultiples
    <3> QED  BY <1>0, <3>1, <3>2
  <2>4. /\ ttl' \in [Minutes -> Int]
        /\ \A m \in Minutes : counter[m] <= counter'[m]
        /\ \A m \in Minutes : ttl'[m] # Never => ttl'[m] >= (m + 1) * Minute
    BY <1>0, <2>1, <2>2, <2>3 DEF Never
  <2> QED  BY <1>0, <1>i, <2>2, <2>4, UncountedKeeps
<1>6. CASE UNCHANGED rateVars
  BY <1>6 DEF rateVars, _rate_key, MinuteOver, RateInv, RateTypes, KeysInv, CountInv
<1> QED  BY <1>1, <1>2, <1>3, <1>4, <1>5, <1>6 DEF RateNext

\* However reading the clock, INCR and EXPIRE of requests interleave with the
\* minutes, and whichever of them fail: what INCR lets pass in a minute of the
\* clock is the limit, and one more for each request that began before it.
THEOREM LimitHolds == RateSpec => []LimitPerMinute
<1>1. RateInit => RateInv  BY RateInitHolds
<1>2. RateInv /\ [RateNext]_rateVars => RateInv'  BY RateStepKeeps
<1>3. RateInv => LimitPerMinute  BY DEF RateInv, CountInv, LimitPerMinute
<1> QED  BY <1>1, <1>2, <1>3, PTL DEF RateSpec

\* What INCR lets pass in any sixty seconds, from second t on, passes in two
\* minutes of the clock, each with its limit and the requests that began before it.
TwiceInSixtySeconds ==
  \A t \in 0..MaxClock : \E m, n \in Minutes :
    /\ \A s \in t..(t + Minute - 1) : s <= MaxClock => s \div Minute \in {m, n}
    /\ passed[m] + passed[n] <= 2 * (Limit + Cardinality(Apis))

\* The documents call the counter of a minute a sliding window; what it gives in a
\* window that slides is twice the limit and twice the requests under way at a
\* time, while Redis answers.
THEOREM SlidingWindow == RateSpec => []TwiceInSixtySeconds
<1>1. RateInv => TwiceInSixtySeconds
  <2> SUFFICES ASSUME RateInv, NEW t \in 0..MaxClock
               PROVE  \E m, n \in Minutes :
                        /\ \A s \in t..(t + Minute - 1) : s <= MaxClock => s \div Minute \in {m, n}
                        /\ passed[m] + passed[n] <= 2 * (Limit + Cardinality(Apis))
    BY DEF TwiceInSixtySeconds
  <2> DEFINE m == t \div Minute
             n == IF m + 1 \in Minutes THEN m + 1 ELSE m
  <2>1. /\ Minute \in Nat \ {0} /\ Limit \in Nat /\ MaxClock \in Nat /\ t \in Nat /\ t <= MaxClock
        /\ Minutes \subseteq Nat
    BY RateLimitAssumption, MinutesNat
  <2>2. ASSUME NEW s \in Nat, s <= MaxClock PROVE s \div Minute \in Minutes
    <3> DEFINE l == MaxClock \div Minute
               k == s \div Minute
    <3>1. l \in Nat /\ MaxClock < (l + 1) * Minute /\ (l + 1) * Minute \in Nat
      BY <2>1, MinuteOf, MinuteMultiples
    <3>2. s < (l + 1) * Minute
      <4> HIDE DEF l
      <4>1. QED
        BY <2>1, <2>2, <3>1
    <3>3. k \in Nat /\ k <= l
      <4> HIDE DEF l
      <4>1. QED
        BY <3>1, <3>2, MinuteOf
    <3>4. QED
      BY <3>1, <3>3 DEF Minutes
  <2>3. m \in Minutes /\ n \in Minutes
    BY <2>1, <2>2
  <2>4. ASSUME NEW s \in t..(t + Minute - 1), s <= MaxClock PROVE s \div Minute \in {m, n}
    <3> DEFINE k == s \div Minute
    <3>1. s \in Nat /\ t <= s /\ s < t + Minute
      BY <2>1
    <3>2. k \in Minutes /\ k \in Nat
      BY <2>1, <2>2, <2>4, <3>1
    <3>3. m \in Nat /\ m * Minute <= t /\ t < (m + 1) * Minute
      BY <2>1, MinuteOf
    <3>4. m <= k
      <4>1. m * Minute <= s /\ s < (k + 1) * Minute /\ (k + 1) * Minute \in Nat
        BY <2>1, <3>1, <3>2, <3>3, MinuteOf, MinuteMultiples
      <4> HIDE DEF k
      <4>2. t < (k + 1) * Minute
        BY <2>1, <3>1, <4>1
      <4>3. QED
        BY <2>1, <3>2, <4>2, MinuteOf
    <3>5. k <= m + 1
      <4> HIDE DEF m
      <4>1. (m + 2) * Minute = (m + 1) * Minute + Minute /\ (m + 1) * Minute \in Nat
        BY <2>1, <3>3, MinuteMultiples
      <4>2. s < (m + 2) * Minute
        BY <2>1, <3>1, <3>3, <4>1
      <4>3. m + 1 \in Nat /\ m + 2 = (m + 1) + 1
        BY <3>3
      <4>4. QED
        BY <3>1, <4>2, <4>3, MinuteOf
    <3>6. QED
      <4> HIDE DEF m, k
      <4>1. k \in {m, m + 1} /\ k \in Minutes
        BY <3>2, <3>3, <3>4, <3>5
      <4>2. QED
        BY <4>1 DEF k
  <2>5. passed[m] + passed[n] <= 2 * (Limit + Cardinality(Apis))
    <3> HIDE DEF m, n
    <3>1. ASSUME NEW l \in Minutes
          PROVE  passed[l] \in Nat /\ passed[l] <= Limit + Cardinality(Apis)
      <4>1. passed[l] \in Nat /\ late[l] \in SUBSET Apis
            /\ passed[l] <= Limit + Cardinality(late[l])
        BY DEF RateInv, RateTypes, CountInv
      <4>2. /\ Cardinality(late[l]) \in Nat /\ Cardinality(Apis) \in Nat
            /\ Cardinality(late[l]) <= Cardinality(Apis)
        BY <4>1, LateCount
      <4>3. QED
        BY <2>1, <4>1, <4>2
    <3>2. Cardinality(Apis) \in Nat
      BY LateCount
    <3>3. QED
      BY <2>1, <2>3, <3>1, <3>2
  <2>6. QED
    BY <2>3, <2>4, <2>5
<1>2. RateSpec => []RateInv
  BY RateInitHolds, RateStepKeeps, PTL DEF RateSpec
<1>3. QED
  BY <1>1, <1>2, PTL

-----------------------------------------------------------------------------
(* The data plane as a whole.                                               *)

\* A step of one component is a stuttering step of the others, so a behaviour of
\* the composition is a behaviour of every component.
THEOREM ComponentsRun ==
  DataPlaneSpec => FlagServingSpec /\ Spec /\ TrackerSpec /\ RateSpec /\ ReleasesSpec
<1>1. DataPlaneInit => FlagServingInit /\ Init /\ TrackerInit /\ RateInit /\ ReleasesInit
  BY DEF DataPlaneInit
<1>2. [DataPlaneNext]_dataPlaneVars =>
        /\ [FlagServingNext]_fsvars /\ [Next]_vars
        /\ [TrackerNext]_trackerVars /\ [RateNext]_rateVars
        /\ [ReleasesNext]_releaseVars
  <2>1. DataPlaneNext =>
          /\ [FlagServingNext]_fsvars /\ [Next]_vars
          /\ [TrackerNext]_trackerVars /\ [RateNext]_rateVars
          /\ [ReleasesNext]_releaseVars
    BY DEF DataPlaneNext
  <2>2. UNCHANGED dataPlaneVars => UNCHANGED <<fsvars, vars, trackerVars, rateVars, releaseVars>>
    BY DEF dataPlaneVars
  <2>3. QED
    BY <2>1, <2>2
<1>3. QED
  BY <1>1, <1>2, PTL DEF DataPlaneSpec, FlagServingSpec, Spec, TrackerSpec, RateSpec,
                         ReleasesSpec

\* Whichever component moves, rulesets name what exists, batches are sets of
\* events and no flush writes an empty set: the types of the data plane.
THEOREM DataTypesHold == DataPlaneSpec => []DataTypesOK
<1>1. FlagServingTypeOK /\ TypeOK /\ TrackerTypeOK => DataTypesOK
  BY DEF DataTypesOK
<1>2. QED
  BY <1>1, ComponentsRun, ServingTypeCorrect, TypeCorrect, TrackerTypeCorrect, PTL

\* What the run data_plane checks of its instance holds of the composition for any
\* constants: what is served, what is sent, what is recorded, what is let in and
\* what is released.
THEOREM DataPlaneIsSafe ==
  DataPlaneSpec =>
    /\ [](AcceptedEvaluates /\ FollowsRules /\ SharesRespected)
    /\ [](SdkAgrees /\ SimulationAgrees /\ ImpactPredicts)
    /\ [](NothingForgotten /\ SentOnce /\ BufferBounded /\ LastFlushTakesAll)
    /\ [](EvaluationsKept /\ FullSetFlushed /\ LimitPerMinute)
    /\ [](CurrentIsLatest /\ OnlyOverlappingMerge) /\ KeepsLog
<1>1. DataPlaneSpec =>
        /\ [](AcceptedEvaluates /\ FollowsRules /\ SharesRespected)
        /\ [](SdkAgrees /\ SimulationAgrees /\ ImpactPredicts)
  BY ComponentsRun, AcceptedIsEvaluated, FirstTrueRuleDecides, SharesAreRespected,
     SdkAndApiAgree, SimulationIsTrue, ImpactIsPredicted, PTL
<1>2. DataPlaneSpec =>
        /\ [](NothingForgotten /\ SentOnce /\ BufferBounded /\ LastFlushTakesAll)
        /\ [](EvaluationsKept /\ FullSetFlushed /\ LimitPerMinute)
  BY ComponentsRun, NothingIsForgotten, NothingIsSentTwice, BufferIsBounded, CloseFlushesAll,
     EvaluationsAreKept, FullSetsAreFlushed, LimitHolds, PTL
<1>3. DataPlaneSpec => [](CurrentIsLatest /\ OnlyOverlappingMerge) /\ KeepsLog
  BY ComponentsRun, CurrentIsTheLatest, OnlyOverlappingRequestsMerge, ReleasesAreALog, PTL
<1>4. QED
  BY <1>1, <1>2, <1>3
=============================================================================
