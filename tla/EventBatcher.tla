---------------------------- MODULE EventBatcher ----------------------------
(***************************************************************************)
(* EventBatcher of the Python SDK: application threads track evaluation    *)
(* events into a buffer, a worker thread and the closing thread drain it,  *)
(* and whoever drains a batch sends it once, outside of the lock.          *)
(*                                                                         *)
(* The lock is held for a single action: appending and comparing with      *)
(* max_buffer, or copying and clearing.  An event is a model value: only   *)
(* where it is matters.                                                    *)
(***************************************************************************)
EXTENDS Integers, FiniteSets

CONSTANTS
  Threads,    \* application threads that evaluate flags
  Worker,     \* the thread flagops-event-flusher
  Closer,     \* the thread that calls FlagOpsClient.close
  Events,     \* events tracked in the run
  MaxBuffer,  \* max_buffer (100 in the code)
  MaxFaults   \* bound on requests that fail on the network

Senders == Threads \cup {Worker, Closer}

ASSUME BatcherAssumption ==
  /\ IsFiniteSet(Threads) /\ IsFiniteSet(Events)
  /\ Worker \notin Threads /\ Closer \notin Threads /\ Worker # Closer
  /\ MaxBuffer \in Nat \ {0} /\ MaxFaults \in Nat

VARIABLES
  tracked,   \* events passed to track so far
  buffer,    \* _buffer
  pc,        \* where each thread is
  batch,     \* the batch a thread has drained and not sent yet
  stopped,   \* _stop_event of the batcher
  onTime,    \* history: events tracked before close
  open,      \* can the HTTP client of the transport still send?
  posted,    \* how many requests with the event reached the server
  lost,      \* events whose request never left
  faults     \* failed requests so far

vars == <<tracked, buffer, pc, batch, stopped, onTime, open, posted, lost, faults>>

\* Where a thread is when it is not flushing.
Rest(p) == IF p = Worker THEN "wait" ELSE IF p = Closer THEN "open" ELSE "idle"

Init ==
  /\ tracked = {} /\ buffer = {}
  /\ pc = [p \in Senders |-> Rest(p)]
  /\ batch = [p \in Senders |-> {}]
  /\ stopped = FALSE /\ onTime = {}
  /\ open = TRUE
  /\ posted = [e \in Events |-> 0]
  /\ lost = {}
  /\ faults = 0

Goto(p, l) == pc' = [pc EXCEPT ![p] = l]

\* Mutant of Track: the buffer may grow past max_buffer before it is flushed.
TrackOffByOne(t, e) ==
  /\ pc[t] = "idle"
  /\ e \notin tracked
  /\ tracked' = tracked \cup {e}
  /\ onTime' = IF stopped THEN onTime ELSE onTime \cup {e}
  /\ buffer' = buffer \cup {e}
  /\ Goto(t, IF Cardinality(buffer') > MaxBuffer THEN "flush" ELSE "idle")
  /\ UNCHANGED <<batch, stopped, open, posted, lost, faults>>

\* track: append under the lock, and flush afterwards if the buffer is full.
\* Nothing stops an application from evaluating after close.
Track(t, e) ==
  /\ pc[t] = "idle"
  /\ e \notin tracked
  /\ tracked' = tracked \cup {e}
  /\ onTime' = IF stopped THEN onTime ELSE onTime \cup {e}
  /\ buffer' = buffer \cup {e}
  /\ Goto(t, IF Cardinality(buffer') >= MaxBuffer THEN "flush" ELSE "idle")
  /\ UNCHANGED <<batch, stopped, open, posted, lost, faults>>

\* Mutant of Drain: the buffer is copied and not cleared.
DrainKeeps(p) ==
  /\ batch' = [batch EXCEPT ![p] = buffer]
  /\ Goto(p, IF buffer = {} THEN "next" ELSE "send")
  /\ UNCHANGED buffer

\* flush, under the lock: copy and clear; nothing to do if it is empty.
Drain(p) ==
  /\ batch' = [batch EXCEPT ![p] = buffer]
  /\ buffer' = {}
  /\ Goto(p, IF buffer = {} THEN "next" ELSE "send")

\* A thread that has filled the buffer flushes it.
Flush(t) ==
  /\ pc[t] = "flush"
  /\ Drain(t)
  /\ UNCHANGED <<tracked, stopped, onTime, open, posted, lost, faults>>

\* _worker_loop: the wait ends with a timeout.
Wake ==
  /\ pc[Worker] = "wait" /\ ~stopped
  /\ Drain(Worker)
  /\ UNCHANGED <<tracked, stopped, onTime, open, posted, lost, faults>>

\* Mutant of Send: what the buffer holds after the request is cleared with it.
SendClears(p) ==
  /\ pc[p] = "send"
  /\ batch' = [batch EXCEPT ![p] = {}]
  /\ Goto(p, "next")
  /\ \/ /\ open
        /\ posted' = [e \in Events |-> IF e \in batch[p] THEN posted[e] + 1 ELSE posted[e]]
        /\ UNCHANGED <<lost, faults>>
     \/ /\ \/ ~open /\ UNCHANGED faults
           \/ open /\ faults < MaxFaults /\ faults' = faults + 1
        /\ lost' = lost \cup batch[p]
        /\ UNCHANGED posted
  /\ buffer' = {}
  /\ UNCHANGED <<tracked, stopped, onTime, open>>

\* send_events: one request, whatever the API answers; every failure is swallowed
\* and the batch is forgotten.  A closed HTTP client refuses to send.
Send(p) ==
  /\ pc[p] = "send"
  /\ batch' = [batch EXCEPT ![p] = {}]
  /\ Goto(p, "next")
  /\ \/ /\ open
        /\ posted' = [e \in Events |-> IF e \in batch[p] THEN posted[e] + 1 ELSE posted[e]]
        /\ UNCHANGED <<lost, faults>>
     \/ /\ \/ ~open /\ UNCHANGED faults
           \/ open /\ faults < MaxFaults /\ faults' = faults + 1
        /\ lost' = lost \cup batch[p]
        /\ UNCHANGED posted
  /\ UNCHANGED <<tracked, buffer, stopped, onTime, open>>

\* flush returns: the application goes on, the worker waits again.
Return(p) ==
  /\ p # Closer
  /\ pc[p] = "next"
  /\ Goto(p, Rest(p))
  /\ UNCHANGED <<tracked, buffer, batch, stopped, onTime, open, posted, lost, faults>>

\* The wait of _worker_loop ends with the stop event.
WorkerEnds ==
  /\ pc[Worker] = "wait" /\ stopped
  /\ Goto(Worker, "done")
  /\ UNCHANGED <<tracked, buffer, batch, stopped, onTime, open, posted, lost, faults>>

\* close: first the stop event.
Stop ==
  /\ pc[Closer] = "open"
  /\ stopped' = TRUE
  /\ Goto(Closer, "join")
  /\ UNCHANGED <<tracked, buffer, batch, onTime, open, posted, lost, faults>>

\* The worker has ended, or a request keeps it busy past the two seconds of
\* join: the timeouts of httpx apply to every phase of a request.
Joined == pc[Worker] = "done" \/ pc[Worker] = "send"

\* Mutant of FlushRest: close ends once the worker has.
FlushRestForgotten ==
  /\ pc[Closer] = "join"
  /\ Joined
  /\ Goto(Closer, "next")
  /\ UNCHANGED <<tracked, buffer, batch, stopped, onTime, open, posted, lost, faults>>

\* close: join, then the last flush.
FlushRest ==
  /\ pc[Closer] = "join"
  /\ Joined
  /\ Drain(Closer)
  /\ UNCHANGED <<tracked, stopped, onTime, open, posted, lost, faults>>

\* FlagOpsClient.close goes on to close the transport.
CloseTransport ==
  /\ pc[Closer] = "next"
  /\ open' = FALSE
  /\ Goto(Closer, "done")
  /\ UNCHANGED <<tracked, buffer, batch, stopped, onTime, posted, lost, faults>>

Step(p) == Send(p) \/ Return(p)

Next ==
  \/ \E t \in Threads : Flush(t) \/ \E e \in Events : Track(t, e)
  \/ \E p \in Senders : Step(p)
  \/ Wake \/ WorkerEnds
  \/ Stop \/ FlushRest \/ CloseTransport

Spec == Init /\ [][Next]_vars

\* Threads that are flushing go on, the worker's wait ends, a close that has
\* begun goes on.  Nobody has to track or to close.
Fairness ==
  /\ \A p \in Senders : WF_vars(Step(p))
  /\ \A t \in Threads : WF_vars(Flush(t))
  /\ WF_vars(Wake) /\ WF_vars(WorkerEnds) /\ WF_vars(FlushRest) /\ WF_vars(CloseTransport)

FairSpec == Spec /\ Fairness

-----------------------------------------------------------------------------
(* Properties.                                                              *)

Labels == {"idle", "wait", "open", "flush", "send", "next", "join", "done"}

\* Types of every variable.
TypeOK ==
  /\ tracked \subseteq Events /\ buffer \subseteq Events
  /\ onTime \subseteq Events /\ lost \subseteq Events
  /\ pc \in [Senders -> Labels]
  /\ batch \in [Senders -> SUBSET Events]
  /\ stopped \in BOOLEAN /\ open \in BOOLEAN
  /\ posted \in [Events -> Nat]
  /\ faults \in 0..MaxFaults

InBatch(e) == \E p \in Senders : e \in batch[p]

\* No event disappears between two threads: one that was tracked is in the
\* buffer, in a batch some thread is about to send, at the server or in a
\* request that failed.
NothingForgotten ==
  \A e \in tracked : e \in buffer \/ InBatch(e) \/ posted[e] > 0 \/ e \in lost

\* However the flushes of the application threads, the worker and close
\* interleave, no event is sent twice.
SentOnce == \A e \in Events : posted[e] <= 1 /\ (posted[e] = 1 => e \notin lost)

\* The buffer exceeds max_buffer - 1 only by the events of threads that have
\* yet to flush: a burst is bounded by the number of threads.
Flushing == {t \in Threads : pc[t] = "flush"}
BufferBounded == Cardinality(buffer) < MaxBuffer + Cardinality(Flushing)

\* An event tracked before close does not stay in the buffer: the worker or
\* the closing thread sends it (S10: every 10 s, and on close).
LeavesBuffer == \A e \in Events : e \in onTime ~> e \notin buffer

\* S10: when the application calls close, all events left are flushed: if the
\* network does not fail, none of those tracked before close is lost.
CloseLosesNothing == faults = 0 => onTime \cap lost = {}

-----------------------------------------------------------------------------
(* The inductive invariants behind them.                                    *)

\* An event is in one place at a time, and nowhere before it is tracked.
PlacesInv ==
  /\ \A e \in buffer : e \in tracked /\ ~InBatch(e) /\ posted[e] = 0 /\ e \notin lost
  /\ \A p, q \in Senders : p # q => batch[p] \cap batch[q] = {}
  /\ \A p \in Senders : \A e \in batch[p] : e \in tracked /\ posted[e] = 0 /\ e \notin lost
  /\ lost \subseteq tracked
  /\ \A e \in Events : posted[e] > 0 => e \in tracked
=============================================================================
