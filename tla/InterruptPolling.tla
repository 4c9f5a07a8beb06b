--------------------------- MODULE InterruptPolling ---------------------------
(***************************************************************************)
(* The server's buffer for the interrupt reports of one endpoint and the    *)
(* thread that polls for them: EndpointBuffer, InterruptPoller and          *)
(* InterruptBufferManager (crates/server/src/usb/interrupt_buffer.rs).      *)
(*                                                                          *)
(* start and stop are called by one owner (&mut self), stop waits for the   *)
(* thread; push takes a sequence number first and the buffer's lock after   *)
(* it. Without a poller, the manager's push fills the buffer.               *)
(***************************************************************************)
EXTENDS Integers, Sequences, FiniteSets

CONSTANTS
  MaxReport,    \* sequence numbers given out (bound)
  Capacity,     \* MAX_BUFFERED_REPORTS
  Thread        \* polling threads, as many as are started (bound)

NoThread == "no thread"

ASSUME PollingAssumption ==
  MaxReport \in Nat /\ Capacity \in Nat \ {0} /\ NoThread \notin Thread

VARIABLES
  buffer,      \* reports
  nextSeq,     \* next_seq
  dropped,     \* total_dropped
  polling,     \* the poller's running flag
  handle,      \* the thread stop would join, NoThread without one
  thread,      \* what each thread does: [at, seq]
  owner,       \* "free", or "stops": stop waits for the thread
  present,     \* the device answers
  taken        \* history: the reports popped, in order

pollingVars == <<buffer, nextSeq, dropped, polling, handle, thread, owner, present, taken>>

At(place, seq) == [at |-> place, seq |-> seq]

PollingInit ==
  /\ buffer = <<>> /\ nextSeq = 0 /\ dropped = 0
  /\ polling = FALSE
  /\ handle = NoThread
  /\ thread = [t \in Thread |-> At("none", 0)]
  /\ owner = "free"
  /\ present = TRUE
  /\ taken = <<>>

\* start: nothing happens while the flag is up, also when the thread has ended.
MayStart == owner = "free" /\ ~polling

StartPolling(t) ==
  /\ MayStart
  /\ thread[t].at = "none"
  /\ polling' = TRUE
  /\ thread' = [thread EXCEPT ![t] = At("loop", 0)]
  /\ handle' = t
  /\ UNCHANGED <<buffer, nextSeq, dropped, owner, present, taken>>

StopBegins ==
  /\ owner = "free"
  /\ handle # NoThread \/ polling
  /\ polling' = FALSE
  /\ owner' = "stops"
  /\ UNCHANGED <<buffer, nextSeq, dropped, handle, thread, present, taken>>

\* Mutant: the thread is not waited for.
JoinedAtOnce == TRUE

Joined == handle # NoThread => thread[handle].at = "ended"

StopEnds ==
  /\ owner = "stops"
  /\ Joined
  /\ owner' = "free"
  /\ handle' = NoThread
  /\ UNCHANGED <<buffer, nextSeq, dropped, polling, thread, present, taken>>

\* The thread's loop: it ends when the flag is down or the device is gone; a
\* timeout, an empty report or another error lets it go on.
ThreadEnds(t) ==
  /\ thread[t].at = "loop"
  /\ ~polling \/ ~present
  /\ thread' = [thread EXCEPT ![t] = At("ended", 0)]
  /\ UNCHANGED <<buffer, nextSeq, dropped, polling, handle, owner, present, taken>>

ThreadReads(t) ==
  /\ thread[t].at = "loop"
  /\ polling /\ present
  /\ nextSeq < MaxReport
  /\ thread' = [thread EXCEPT ![t] = At("pushes", nextSeq)]
  /\ nextSeq' = nextSeq + 1
  /\ UNCHANGED <<buffer, dropped, polling, handle, owner, present, taken>>

\* A full buffer loses its oldest report.
Pushed(seq) == Append(IF Len(buffer) >= Capacity THEN Tail(buffer) ELSE buffer, seq)

CountDropped == dropped' = IF Len(buffer) >= Capacity THEN dropped + 1 ELSE dropped

ThreadPushes(t) ==
  /\ thread[t].at = "pushes"
  /\ buffer' = Pushed(thread[t].seq)
  /\ CountDropped
  /\ thread' = [thread EXCEPT ![t] = At("loop", 0)]
  /\ UNCHANGED <<nextSeq, polling, handle, owner, present, taken>>

\* InterruptBufferManager::push, "used when not using background polling", holds
\* the lock of the devices throughout.
ManagerPushes ==
  /\ handle = NoThread /\ owner = "free" /\ present
  /\ nextSeq < MaxReport
  /\ buffer' = Pushed(nextSeq)
  /\ CountDropped
  /\ nextSeq' = nextSeq + 1
  /\ UNCHANGED <<polling, handle, thread, owner, present, taken>>

\* try_pop and pop_timeout.
Pop ==
  /\ buffer # <<>>
  /\ taken' = Append(taken, Head(buffer))
  /\ buffer' = Tail(buffer)
  /\ UNCHANGED <<nextSeq, dropped, polling, handle, thread, owner, present>>

PopAll ==
  /\ Len(buffer) > 1
  /\ taken' = taken \o buffer
  /\ buffer' = <<>>
  /\ UNCHANGED <<nextSeq, dropped, polling, handle, thread, owner, present>>

PulledOut ==
  /\ present
  /\ present' = FALSE
  /\ UNCHANGED <<buffer, nextSeq, dropped, polling, handle, thread, owner, taken>>

PollingNext ==
  \/ \E t \in Thread : \/ StartPolling(t) \/ ThreadEnds(t)
                       \/ ThreadReads(t) \/ ThreadPushes(t)
  \/ StopBegins \/ StopEnds \/ ManagerPushes \/ Pop \/ PopAll \/ PulledOut

PollingSpec == PollingInit /\ [][PollingNext]_pollingVars

(***************************** properties **********************************)

\* Every variable has values of its type (EndpointBuffer and InterruptPoller).
PollingTypeOK ==
  /\ buffer \in Seq(0..MaxReport) /\ Len(buffer) <= Capacity
  /\ nextSeq \in 0..MaxReport /\ dropped \in 0..MaxReport
  /\ polling \in BOOLEAN /\ present \in BOOLEAN
  /\ handle \in Thread \cup {NoThread}
  /\ thread \in [Thread -> [at : {"none", "loop", "pushes", "ended"}, seq : 0..MaxReport]]
  /\ owner \in {"free", "stops"}

Stream == taken \o buffer

\* Reports leave the buffer in the order of their numbers over any number of
\* stops and starts, and each that is not among them, nor on its way into the
\* buffer, was counted as dropped (push takes the number outside the lock).
StreamIsComplete ==
  /\ \A i, j \in DOMAIN Stream : i < j => Stream[i] < Stream[j]
  /\ nextSeq = Len(Stream) + dropped + Cardinality({t \in Thread : thread[t].at = "pushes"})

=============================================================================
