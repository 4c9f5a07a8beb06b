---------------------------- MODULE ReceiveBuffer ----------------------------
(***************************************************************************)
(* The client's buffer for the interrupt reports of one endpoint:           *)
(* EndpointReceiveBuffer                                                    *)
(* (crates/client/src/virtual_usb/interrupt_receive_buffer.rs).             *)
(*                                                                          *)
(* One task calls store, activate and deactivate; any number of threads     *)
(* take reports, waiting on a condition variable. The network may lose,     *)
(* repeat and reorder the server's reports, and change their contents. A    *)
(* report is its sequence number.                                           *)
(***************************************************************************)
EXTENDS Integers, Sequences, SequencesExt, FiniteSets

CONSTANTS
  Taker,        \* threads that take reports
  MaxSeq,       \* the largest sequence number of the server (bound)
  MaxSize,      \* max_size
  MaxMissing,   \* MAX_MISSING_SEQUENCES
  MaxStarts     \* activations (bound)

ASSUME ReceiveAssumption ==
  /\ MaxSeq \in Nat /\ MaxSize \in Nat \ {0} /\ MaxMissing \in Nat \ {0}
  /\ MaxStarts \in Nat \ {0} /\ IsFiniteSet(Taker)

Sequence == 0..MaxSeq

VARIABLES
  active,
  reports,     \* reports waiting for the kernel
  expected,    \* next_expected_seq
  highest,     \* highest_seq
  contiguous,  \* last_contiguous_seq
  missing,     \* the keys of missing_sequences and missing_timestamps
  taker,       \* what each thread does in take_timeout
  closing,     \* deactivate has cleared active, and not yet the reports
  starts,      \* history: activations so far
  first,       \* history: start_seq of the last activation
  received,    \* history: sequence numbers stored since the activation
  givenUp      \* history: missing ones that timed out or were too many

receiveVars == <<active, reports, expected, highest, contiguous, missing, taker,
                 closing, starts, first, received, givenUp>>
sequenceVars == <<expected, highest, contiguous, missing, first, received, givenUp>>

ReceiveInit ==
  /\ active = FALSE
  /\ reports = <<>>
  /\ expected = 0 /\ highest = 0 /\ contiguous = 0
  /\ missing = {}
  /\ taker = [t \in Taker |-> "idle"]
  /\ closing = FALSE
  /\ starts = 0 /\ first = 0
  /\ received = {} /\ givenUp = {}

Larger(a, b) == IF a > b THEN a ELSE b

Before(seq) == IF seq = 0 THEN 0 ELSE seq - 1

Activate(seq) ==
  /\ ~closing
  /\ starts < MaxStarts
  /\ active' = TRUE
  /\ expected' = seq
  /\ highest' = Before(seq) /\ contiguous' = Before(seq)
  /\ missing' = {}
  /\ starts' = starts + 1 /\ first' = seq
  /\ received' = {} /\ givenUp' = {}
  /\ UNCHANGED <<reports, taker, closing>>

Asleep == {t \in Taker : taker[t] = "asleep"}

WakeAll == [t \in Taker |-> IF t \in Asleep THEN "awake" ELSE taker[t]]

\* deactivate clears the flag first, outside the lock of the reports ...
DeactivateBegins ==
  /\ active \/ starts > 0
  /\ ~closing
  /\ active' = FALSE
  /\ closing' = TRUE
  /\ UNCHANGED <<reports, taker, starts, sequenceVars>>

\* ... and wakes everybody under it.
DeactivateEnds ==
  /\ closing
  /\ closing' = FALSE
  /\ reports' = <<>>
  /\ missing' = {}
  /\ taker' = WakeAll
  /\ UNCHANGED <<active, expected, highest, contiguous, starts, first, received, givenUp>>

\* The numbers a report shows to be missing.
Skipped(seq) == expected..(seq - 1)

\* A late report is not missing any more.
StillMissing(seq) == missing \ {seq}

\* The lower ones first, while there is room.
Tracked(seq) ==
  LET room == MaxMissing - Cardinality(missing)
      new  == Skipped(seq) \ missing
  IN {m \in new : Cardinality({n \in new : n < m}) < room}

NowMissing(seq) == IF seq > expected THEN missing \cup Tracked(seq) ELSE StillMissing(seq)

\* update_last_contiguous
NowContiguous(lost, top) ==
  IF lost = {} THEN top
  ELSE Larger(contiguous, Before(CHOOSE m \in lost : \A n \in lost : m <= n))

\* Mutant: a full buffer drops nothing.
EnqueueAlways(queue, seq) == Append(queue, seq)

\* A full buffer drops its oldest report.
Enqueue(queue, seq) ==
  Append(IF Len(queue) >= MaxSize THEN Tail(queue) ELSE queue, seq)

\* Mutant: no thread is told of the report.
WakeNobody(t) == UNCHANGED taker

\* notify_one
Wake(t) == taker' = [taker EXCEPT ![t] = "awake"]

\* store, for a report whose checksum is right.
Store(seq) ==
  /\ active
  /\ missing' = NowMissing(seq)
  /\ givenUp' = IF seq > expected THEN givenUp \cup (Skipped(seq) \ NowMissing(seq))
                                  ELSE givenUp
  /\ expected' = Larger(expected, seq + 1)
  /\ highest' = Larger(highest, seq)
  /\ contiguous' = NowContiguous(NowMissing(seq), Larger(highest, seq))
  /\ reports' = Enqueue(reports, seq)
  /\ received' = received \cup {seq}
  /\ IF Asleep = {} THEN UNCHANGED taker ELSE \E t \in Asleep : Wake(t)
  /\ UNCHANGED <<active, closing, starts, first>>

\* get_missing_sequences forgets the numbers that timed out.
ForgetExpired(seq) ==
  /\ seq \in missing
  /\ missing' = missing \ {seq}
  /\ givenUp' = givenUp \cup {seq}
  /\ UNCHANGED <<active, reports, expected, highest, contiguous, taker, closing,
                 starts, first, received>>

\* try_take, and take_timeout with a report at hand.
Take ==
  /\ reports # <<>>
  /\ reports' = Tail(reports)
  /\ UNCHANGED <<active, taker, closing, starts, sequenceVars>>

\* take_timeout waits on an empty, active buffer; an inactive one gives nothing.
TakeWaits(t) ==
  /\ taker[t] = "idle"
  /\ reports = <<>> /\ active
  /\ taker' = [taker EXCEPT ![t] = "asleep"]
  /\ UNCHANGED <<active, reports, closing, starts, sequenceVars>>

\* wait_timeout_while: a thread that was woken looks again, and sleeps on when
\* another one was faster.
TakeLooksAgain(t) ==
  /\ taker[t] = "awake"
  /\ IF reports = <<>> /\ active
     THEN taker' = [taker EXCEPT ![t] = "asleep"] /\ UNCHANGED reports
     ELSE taker' = [taker EXCEPT ![t] = "idle"]
          /\ reports' = IF reports = <<>> THEN reports ELSE Tail(reports)
  /\ UNCHANGED <<active, closing, starts, sequenceVars>>

TakeTimesOut(t) ==
  /\ taker[t] = "asleep"
  /\ reports' = IF reports = <<>> THEN reports ELSE Tail(reports)
  /\ taker' = [taker EXCEPT ![t] = "idle"]
  /\ UNCHANGED <<active, closing, starts, sequenceVars>>

ReceiveNext ==
  \/ \E seq \in Sequence : Activate(seq) \/ Store(seq) \/ ForgetExpired(seq)
  \/ DeactivateBegins \/ DeactivateEnds \/ Take
  \/ \E t \in Taker : TakeWaits(t) \/ TakeLooksAgain(t) \/ TakeTimesOut(t)

ReceiveSpec == ReceiveInit /\ [][ReceiveNext]_receiveVars

(***************************** properties **********************************)

\* Every variable has values of its type (the fields of EndpointReceiveBuffer).
ReceiveTypeOK ==
  /\ active \in BOOLEAN /\ closing \in BOOLEAN
  /\ reports \in BoundedSeq(Sequence, MaxSize)
  /\ expected \in 0..(MaxSeq + 1) /\ highest \in Sequence /\ contiguous \in Sequence
  /\ missing \subseteq Sequence /\ Cardinality(missing) <= MaxMissing
  /\ taker \in [Taker -> {"idle", "asleep", "awake"}]
  /\ starts \in 0..MaxStarts /\ first \in Sequence
  /\ received \subseteq Sequence /\ givenUp \subseteq Sequence

\* In an active buffer each number from the start up to the highest seen is
\* accounted for: it was received, or is missing, or was given up; and what is
\* missing has not been received: no NACK asks for a report that has come, and
\* none is forgotten (store, whatever order, repetition or loss).
GapsAreKnown ==
  active => /\ \A n \in first..(expected - 1) : n \in received \cup missing \cup givenUp
            /\ missing \cap received = {}

\* No thread sleeps on while there is a report for it, or after the buffer was
\* deactivated: as many reports as wait have a thread awake that will look
\* (store wakes one thread for each report, deactivate all of them).
NobodySleepsOn ==
  /\ Asleep # {} => Len(reports) <= Cardinality({t \in Taker : taker[t] = "awake"})
  /\ ~active /\ ~closing => Asleep = {}

\* The buffer of reports forgets no gap, and leaves nobody asleep
\* (EndpointReceiveBuffer in interrupt_receive_buffer.rs).
ReceiverIsSound == GapsAreKnown /\ NobodySleepsOn

=============================================================================
