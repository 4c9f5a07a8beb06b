--------------------------- MODULE ServerPartsProofs ---------------------------
(***************************************************************************)
(* The parts of the server beside the bridges: the notices to clients, the *)
(* polling of interrupt endpoints, the sessions a policy ends, the limits  *)
(* of bandwidth, the list the terminal interface shows, the trail of the   *)
(* audit log and the turns of the scheduler.  What is safe about each of   *)
(* them, for any number of devices, clients, transfers, events and files.  *)
(***************************************************************************)
EXTENDS ClientNotices, InterruptPolling, SessionExpiry, RateLimiter, ServerTui, AuditLog,
        FairScheduler, SequenceTheorems, FiniteSetTheorems, WellFoundedInduction, TLAPS

-----------------------------------------------------------------------------
(* Numbers *)

Less(a, b) == a < b
NatOrder == OpToRel(Less, Nat)

\* Numbers have a least one.
LEMMA LeastOf ==
  ASSUME NEW S \in SUBSET Nat, S # {}
  PROVE  \E p \in S : \A q \in S : p <= q
<1>1. IsWellFoundedOn(NatOrder, Nat)
  BY NatLessThanWellFounded DEF OpToRel, NatOrder, Less
<1>3. PICK x \in S : \A y \in S : ~(<<y, x>> \in NatOrder)
  BY <1>1, WFMin, Zenon
<1>4. \A y \in S : ~(y < x)
  BY <1>3 DEF NatOrder, Less, OpToRel
<1> QED
  BY <1>4

-----------------------------------------------------------------------------
(* Notices to clients *)

\* The devices in the order they will be sent.
Arrivals(s) == {s[i] : i \in DOMAIN s}

\* What LatestIsNotLost rests on: a flush tells of exactly those that wait, which
\* are those in the list of arrivals.
NoticesInv ==
  /\ NoticesTypeOK
  /\ Arrivals(arrivals) = Waiting
  /\ LatestIsNotLost

\* Appending to the list adds one device to those in it.
LEMMA ArrivalsAppend ==
  ASSUME NEW s \in Seq(Gadget), NEW d \in Gadget
  PROVE  Arrivals(Append(s, d)) = Arrivals(s) \cup {d}
<1>1. DOMAIN Append(s, d) = DOMAIN s \cup {Len(s) + 1}
  OBVIOUS
<1>2. /\ \A i \in DOMAIN s : Append(s, d)[i] = s[i]
      /\ Append(s, d)[Len(s) + 1] = d
  OBVIOUS
<1> QED
  BY <1>1, <1>2 DEF Arrivals

\* A new event keeps the list and the notices together.
LEMMA PlaceListsAll ==
  ASSUME NoticesInv, NEW d \in Gadget
  PROVE  /\ Place(d) \in Seq(Gadget)
         /\ Arrivals(Place(d)) = Waiting \cup {d}
<1>1. CASE d \in Waiting
  BY <1>1 DEF Place, NoticesInv, NoticesTypeOK
<1>2. CASE d \notin Waiting
  <2>1. Place(d) = Append(arrivals, d)
    BY <1>2 DEF Place
  <2>2. arrivals \in Seq(Gadget)
    BY DEF NoticesInv, NoticesTypeOK
  <2> QED
    BY <2>1, <2>2, ArrivalsAppend DEF NoticesInv
<1> QED
  BY <1>1, <1>2

\* A flush of notices that are the latest of their devices loses none of them.
LEMMA FlushTellsAll ==
  ASSUME NoticesInv,
         NEW notices, NEW list,
         Arrivals(list) = DOMAIN notices,
         DOMAIN notices \subseteq Gadget,
         \A d \in DOMAIN notices : notices[d] \in Kinds,
         latest' \in [Gadget -> Kinds \cup {"none"}],
         \A d \in Gadget : latest'[d] = IF d \in DOMAIN notices THEN notices[d] ELSE told[d],
         busy' \in BOOLEAN,
         Flush(notices, list)
  PROVE  NoticesInv'
<1>1. told' = [d \in Gadget |-> IF d \in DOMAIN notices THEN notices[d] ELSE told[d]]
  BY DEF Flush, Arrivals
<1>2. told' \in [Gadget -> Kinds \cup {"none"}]
  BY <1>1 DEF NoticesInv, NoticesTypeOK
<1>3. pending' = <<>> /\ arrivals' = <<>> /\ windowAge' = NoWindow
  BY DEF Flush
<1>4. Waiting' = {}
  BY <1>3 DEF Waiting
<1>5. NoticesTypeOK'
  BY <1>2, <1>3, <1>4 DEF NoticesTypeOK
<1>6. Arrivals(arrivals)' = Waiting'
  BY <1>3, <1>4 DEF Arrivals
<1>7. LatestIsNotLost'
  BY <1>1, <1>4 DEF LatestIsNotLost
<1> QED
  BY <1>5, <1>6, <1>7 DEF NoticesInv

\* What waits may be flushed as it is.
LEMMA FlushPending ==
  ASSUME NoticesInv, Flush(pending, arrivals), busy' \in BOOLEAN, UNCHANGED latest
  PROVE  NoticesInv'
<1>1. Arrivals(arrivals) = DOMAIN pending /\ DOMAIN pending \subseteq Gadget
  BY DEF NoticesInv, NoticesTypeOK, Waiting
<1>2. \A d \in DOMAIN pending : pending[d] \in Kinds
  BY DEF NoticesInv, NoticesTypeOK, Waiting
<1>3. latest' \in [Gadget -> Kinds \cup {"none"}]
  BY DEF NoticesInv, NoticesTypeOK
<1>4. \A d \in Gadget : latest'[d] = IF d \in DOMAIN pending THEN pending[d] ELSE told[d]
  BY DEF NoticesInv, LatestIsNotLost, Waiting
<1> QED
  BY <1>1, <1>2, <1>3, <1>4, FlushTellsAll

\* An event replaces the notice of its device, which is sent at once or later.
LEMMA TakeEventInv ==
  ASSUME NoticesInv, NEW d \in Gadget, NEW kind \in Kinds, TakeEvent(d, kind)
  PROVE  NoticesInv'
<1> DEFINE notices == Add(kind, d)
           age == IF windowAge = NoWindow THEN 0 ELSE windowAge
<1>1. /\ DOMAIN notices = Waiting \cup {d}
      /\ \A x \in DOMAIN notices : notices[x] = IF x = d THEN kind ELSE pending[x]
  BY DEF Add
<1>2. /\ DOMAIN notices \subseteq Gadget
      /\ \A x \in DOMAIN notices : notices[x] \in Kinds
  BY <1>1 DEF NoticesInv, NoticesTypeOK
<1>3. latest' = [latest EXCEPT ![d] = kind] /\ UNCHANGED busy
  BY DEF TakeEvent
<1>4. latest' \in [Gadget -> Kinds \cup {"none"}] /\ busy' \in BOOLEAN
  BY <1>3 DEF NoticesInv, NoticesTypeOK
<1>5. \A x \in Gadget : latest'[x] = IF x \in DOMAIN notices THEN notices[x] ELSE told[x]
  BY <1>1, <1>3 DEF NoticesInv, NoticesTypeOK, LatestIsNotLost
<1>6. Place(d) \in Seq(Gadget) /\ Arrivals(Place(d)) = DOMAIN notices
  BY <1>1, PlaceListsAll
<1>7. CASE ShouldFlush(Waiting \cup {d}, age)
  <2>1. Flush(notices, Place(d))
    BY <1>7 DEF TakeEvent
  <2> QED
    BY <2>1, <1>2, <1>4, <1>5, <1>6, FlushTellsAll
<1>8. CASE ~ShouldFlush(Waiting \cup {d}, age)
  <2>1. pending' = notices /\ arrivals' = Place(d) /\ windowAge' = age /\ UNCHANGED told
    BY <1>8 DEF TakeEvent
  <2>2. Waiting' = DOMAIN notices
    BY <2>1 DEF Waiting
  <2>3. age \in {NoWindow} \cup 0 .. AggWindow
    BY NoticesAssumption DEF NoticesInv, NoticesTypeOK, NoWindow
  <2>4. NoticesTypeOK'
    BY <2>1, <2>2, <2>3, <1>2, <1>4, <1>6 DEF NoticesInv, NoticesTypeOK
  <2>5. Arrivals(arrivals)' = Waiting'
    BY <2>1, <2>2, <1>6 DEF Arrivals
  <2>6. LatestIsNotLost'
    BY <2>1, <2>2, <1>5 DEF LatestIsNotLost
  <2> QED
    BY <2>4, <2>5, <2>6 DEF NoticesInv
<1> QED
  BY <1>7, <1>8

\* The batch holds together in every reachable state.
THEOREM NoticesConsistent == NoticesSpec => []NoticesInv
<1>1. NoticesInit => NoticesInv
  <2> SUFFICES ASSUME NoticesInit
               PROVE  NoticesInv
    OBVIOUS
  <2>1. Waiting = {} /\ Arrivals(arrivals) = {}
    BY DEF NoticesInit, Waiting, Arrivals
  <2>2. NoticesTypeOK
    <3>1. busy \in BOOLEAN
      BY DEF NoticesInit
    <3>2. arrivals \in Seq(Gadget)
      BY DEF NoticesInit
    <3>3. latest \in [Gadget -> Kinds \cup {"none"}] /\ told \in [Gadget -> Kinds \cup {"none"}]
      BY DEF NoticesInit
    <3> QED
      BY <2>1, <3>1, <3>2, <3>3 DEF NoticesInit, NoticesTypeOK
  <2>3. LatestIsNotLost
    BY <2>1 DEF NoticesInit, LatestIsNotLost
  <2> QED
    BY <2>1, <2>2, <2>3 DEF NoticesInv
<1>2. NoticesInv /\ [NoticesNext]_noticeVars => NoticesInv'
  <2> SUFFICES ASSUME NoticesInv, [NoticesNext]_noticeVars
               PROVE  NoticesInv'
    OBVIOUS
  <2>1. ASSUME NEW d \in Gadget, NEW kind \in Kinds, TakeEvent(d, kind)
        PROVE  NoticesInv'
    BY <2>1, TakeEventInv
  <2>2. CASE FlushTimer
    <3>1. Flush(pending, arrivals) /\ UNCHANGED <<busy, latest>>
      BY <2>2 DEF FlushTimer
    <3>2. busy' \in BOOLEAN
      BY <3>1 DEF NoticesInv, NoticesTypeOK
    <3> QED
      BY <3>1, <3>2, FlushPending
  <2>3. CASE NoticesHeld
    BY <2>3 DEF NoticesHeld, NoticesInv, NoticesTypeOK, LatestIsNotLost, Waiting, Arrivals
  <2>4. CASE NoticesReleased
    <3>1. CASE ShouldFlush(Waiting, windowAge)
      BY <3>1, <2>4, FlushPending DEF NoticesReleased
    <3>2. CASE ~ShouldFlush(Waiting, windowAge)
      <4>1. busy' = FALSE /\ UNCHANGED <<pending, arrivals, windowAge, told, latest>>
        BY <3>2, <2>4 DEF NoticesReleased
      <4>2. busy' \in BOOLEAN
        BY <4>1
      <4> QED
        BY <4>1, <4>2 DEF NoticesInv, NoticesTypeOK, LatestIsNotLost, Waiting, Arrivals
    <3> QED
      BY <3>1, <3>2
  <2>5. CASE NoticeTick
    <3>1. windowAge' \in 0 .. AggWindow
      BY <2>5, NoticesAssumption DEF NoticeTick, NoticesInv, NoticesTypeOK, NoWindow
    <3> QED
      BY <3>1, <2>5
      DEF NoticeTick, NoticesInv, NoticesTypeOK, LatestIsNotLost, Waiting, Arrivals
  <2>6. CASE UNCHANGED noticeVars
    BY <2>6 DEF noticeVars, NoticesInv, NoticesTypeOK, LatestIsNotLost, Waiting, Arrivals
  <2> QED
    BY <2>1, <2>2, <2>3, <2>4, <2>5, <2>6 DEF NoticesNext
<1> QED
  BY <1>1, <1>2, PTL DEF NoticesSpec

\* However changes of a device, full batches and windows follow each other, the
\* client has been sent the latest change of each device, or will be.
THEOREM LatestNotLost == NoticesSpec => []LatestIsNotLost
<1>1. NoticesInv => LatestIsNotLost
  BY DEF NoticesInv
<1> QED
  BY <1>1, NoticesConsistent, PTL

-----------------------------------------------------------------------------
(* Polling of an interrupt endpoint *)

Pushing == {t \in Thread : thread[t].at = "pushes"}

\* Only the thread that stop would join is at work.
OneThread ==
  /\ \A t \in Thread : thread[t].at \in {"loop", "pushes"} => t = handle
  /\ owner = "free" => (polling <=> handle # NoThread)
  /\ owner = "stops" => ~polling

Increasing(s) == \A i, j \in DOMAIN s : i < j => s[i] < s[j]
Below(s, n) == \A i \in DOMAIN s : s[i] < n

\* A number that a thread holds is newer than all that are in the stream.
Newest ==
  /\ Increasing(Stream)
  /\ Below(Stream, nextSeq)
  /\ \A t \in Pushing : Below(Stream, thread[t].seq) /\ thread[t].seq < nextSeq

Counted == nextSeq = Len(Stream) + dropped + Cardinality(Pushing)

PollingInv ==
  /\ PollingTypeOK /\ taken \in Seq(Nat)
  /\ OneThread
  /\ Newest
  /\ Counted

(* Streams *)

\* A newer number may be added.
LEMMA AddNewer ==
  ASSUME NEW s \in Seq(Nat), NEW n \in Nat, Increasing(s), Below(s, n)
  PROVE  Increasing(Append(s, n)) /\ \A m \in Nat : n < m => Below(Append(s, n), m)
<1>1. /\ Append(s, n) \in Seq(Nat) /\ DOMAIN Append(s, n) = 1 .. (Len(s) + 1) /\ Len(s) \in Nat
      /\ DOMAIN s = 1 .. Len(s)
      /\ \A i \in 1 .. Len(s) : Append(s, n)[i] = s[i] /\ s[i] \in Nat
      /\ Append(s, n)[Len(s) + 1] = n
  OBVIOUS
<1>2. Increasing(Append(s, n))
  BY <1>1 DEF Increasing, Below
<1>3. \A m \in Nat : n < m => Below(Append(s, n), m)
  BY <1>1 DEF Below
<1> QED
  BY <1>2, <1>3

\* A number may be lost in the middle.
LEMMA LoseOne ==
  ASSUME NEW s \in Seq(Nat), NEW b \in Seq(Nat), b # <<>>
  PROVE  /\ Len(s \o Tail(b)) = Len(s \o b) - 1
         /\ Increasing(s \o b) => Increasing(s \o Tail(b))
         /\ \A m \in Nat : Below(s \o b, m) => Below(s \o Tail(b), m)
<1>1. Tail(b) \in Seq(Nat) /\ Len(Tail(b)) = Len(b) - 1 /\ Len(b) \in Nat \ {0} /\ Len(s) \in Nat
      /\ \A i \in 1 .. (Len(b) - 1) : Tail(b)[i] = b[i + 1]
  OBVIOUS
<1> DEFINE f(i) == IF i <= Len(s) THEN i ELSE i + 1
<1>2. /\ Len(s \o Tail(b)) = Len(s) + Len(b) - 1 /\ Len(s \o b) = Len(s) + Len(b)
      /\ s \o Tail(b) \in Seq(Nat) /\ s \o b \in Seq(Nat)
      /\ DOMAIN (s \o Tail(b)) = 1 .. (Len(s) + Len(b) - 1) /\ DOMAIN (s \o b) = 1 .. (Len(s) + Len(b))
  BY <1>1, ConcatProperties
<1>3. ASSUME NEW i \in DOMAIN (s \o Tail(b))
      PROVE  f(i) \in DOMAIN (s \o b) /\ (s \o Tail(b))[i] = (s \o b)[f(i)]
  <2>1. i \in Int /\ 1 <= i /\ i <= Len(s) + Len(b) - 1
    BY <1>1, <1>2
  <2>2. CASE i <= Len(s)
    BY <1>1, <1>2, <2>1, <2>2, ConcatProperties
  <2>3. CASE i > Len(s)
    <3>1. (s \o Tail(b))[i] = Tail(b)[i - Len(s)]
      BY <1>1, <2>1, <2>3, ConcatProperties
    <3>2. i - Len(s) \in 1 .. (Len(b) - 1)
      BY <1>1, <2>1, <2>3
    <3>3. Tail(b)[i - Len(s)] = b[(i - Len(s)) + 1]
      BY <1>1, <3>2
    <3>4. i + 1 \in 1 .. (Len(s) + Len(b)) /\ (i - Len(s)) + 1 = (i + 1) - Len(s) /\ ~(i + 1 <= Len(s))
      BY <1>1, <2>1, <2>3
    <3>5. (s \o b)[i + 1] = b[(i + 1) - Len(s)]
      BY <3>4, ConcatProperties
    <3> QED
      BY <1>2, <2>3, <2>1, <1>1, <3>1, <3>3, <3>4, <3>5
  <2> QED
    BY <1>1, <2>1, <2>2, <2>3
<1>4. \A i, j \in DOMAIN (s \o Tail(b)) : i < j => f(i) < f(j)
  BY <1>1, <1>2
<1> HIDE DEF f
<1>5. Increasing(s \o b) => Increasing(s \o Tail(b))
  BY <1>3, <1>4 DEF Increasing
<1>6. \A m \in Nat : Below(s \o b, m) => Below(s \o Tail(b), m)
  BY <1>3 DEF Below
<1> QED
  BY <1>1, <1>2, <1>5, <1>6

\* Streams may be joined from either end.
LEMMA Associative ==
  ASSUME NEW s \in Seq(Nat), NEW t \in Seq(Nat), NEW u \in Seq(Nat)
  PROVE  (s \o t) \o u = s \o (t \o u)
BY ConcatAssociative

\* What is added to the buffer is added to the stream.
LEMMA AppendLast ==
  ASSUME NEW s \in Seq(Nat), NEW b \in Seq(Nat), NEW n \in Nat
  PROVE  s \o Append(b, n) = Append(s \o b, n)
<1>0. <<n>> \in Seq(Nat)
  OBVIOUS
<1>1. PICK u \in Seq(Nat) : u = <<n>>
  BY <1>0
<1>2. Append(b, n) = b \o u
  BY <1>1, AppendIsConcat
<1>3. s \o b \in Seq(Nat)
  OBVIOUS
<1>4. Append(s \o b, n) = (s \o b) \o u
  BY <1>1, <1>3, AppendIsConcat
<1>5. (s \o b) \o u = s \o (b \o u)
  BY Associative
<1> QED
  BY <1>2, <1>4, <1>5

\* What is moved from the head of the buffer to the reports taken leaves the stream
\* as it is.
LEMMA MoveHead ==
  ASSUME NEW s \in Seq(Nat), NEW b \in Seq(Nat), b # <<>>
  PROVE  Append(s, Head(b)) \o Tail(b) = s \o b
<1>1. Head(b) \in Nat /\ Tail(b) \in Seq(Nat) /\ <<Head(b)>> \in Seq(Nat)
  OBVIOUS
<1>2. PICK t \in Seq(Nat), u \in Seq(Nat) : t = <<Head(b)>> /\ u = Tail(b)
  BY <1>1
<1>3. Append(s, Head(b)) = s \o t
  BY <1>1, <1>2, AppendIsConcat
<1>4. t \o u = b
  <2>1. /\ Len(<<Head(b)>> \o Tail(b)) = Len(b) /\ <<Head(b)>> \o Tail(b) \in Seq(Nat)
    BY <1>1, ConcatProperties, HeadTailProperties
  <2>2. \A i \in 1 .. Len(b) : (<<Head(b)>> \o Tail(b))[i] = b[i]
    BY <1>1
  <2> QED
    BY <1>2, <2>1, <2>2, SeqEqual
<1>5. (s \o t) \o u = s \o (t \o u)
  BY Associative
<1>6. Append(s, Head(b)) \o Tail(b) = (s \o t) \o u
  BY <1>2, <1>3
<1> QED
  BY <1>4, <1>5, <1>6

(* The steps *)

\* A report is pushed: the oldest in a full buffer is lost and counted.
LEMMA PushStep ==
  ASSUME PollingInv, NEW seq \in Nat, seq < nextSeq', nextSeq' \in 0 .. MaxReport,
         Below(Stream, seq), buffer' = Pushed(seq), CountDropped, UNCHANGED taken, seq <= MaxReport
  PROVE  /\ Increasing(Stream') /\ Below(Stream', nextSeq')
         /\ Len(Stream') + dropped' = Len(Stream) + dropped + 1
         /\ buffer' \in Seq(0 .. MaxReport) /\ Len(buffer') <= Capacity /\ dropped' \in Nat
<1>0. /\ taken \in Seq(Nat) /\ buffer \in Seq(0 .. MaxReport) /\ Len(buffer) <= Capacity
      /\ Capacity \in Nat \ {0} /\ dropped \in Nat /\ MaxReport \in Nat /\ seq \in 0 .. MaxReport
      /\ Increasing(taken \o buffer) /\ nextSeq' \in Nat
  BY PollingAssumption DEF PollingInv, PollingTypeOK, Newest, Stream
<1>1. buffer \in Seq(Nat)
  <2>1. 0 .. MaxReport \subseteq Nat
    BY <1>0
  <2> QED
    BY <1>0, <2>1, SeqMonotonic
<1>2. PICK b : b = IF Len(buffer) >= Capacity THEN Tail(buffer) ELSE buffer
  OBVIOUS
<1>3. /\ b \in Seq(Nat) /\ b \in Seq(0 .. MaxReport) /\ Len(b) < Capacity
      /\ Increasing(taken \o b) /\ Below(taken \o b, seq)
      /\ Len(taken \o b) + dropped' = Len(taken \o buffer) + dropped
      /\ dropped' \in Nat
  <2>1. CASE Len(buffer) >= Capacity
    <3>1. buffer # <<>> /\ b = Tail(buffer) /\ dropped' = dropped + 1
      BY <1>0, <1>2, <2>1 DEF CountDropped
    <3>2. b \in Seq(Nat) /\ b \in Seq(0 .. MaxReport) /\ Len(b) = Len(buffer) - 1 /\ Len(buffer) \in Nat
      BY <1>0, <1>1, <3>1
    <3>3. /\ Len(taken \o b) = Len(taken \o buffer) - 1
          /\ Increasing(taken \o b) /\ Below(taken \o b, seq)
      BY <1>0, <1>1, <3>1, LoseOne DEF Stream
    <3>4. Len(taken \o buffer) \in Nat
      BY <1>0, <1>1
    <3> QED
      BY <1>0, <3>1, <3>2, <3>3, <3>4
  <2>2. CASE ~(Len(buffer) >= Capacity)
    <3>1. b = buffer /\ dropped' = dropped
      BY <1>2, <2>2 DEF CountDropped
    <3>2. Len(buffer) \in Nat
      BY <1>0
    <3> QED
      BY <1>0, <1>1, <2>2, <3>1, <3>2 DEF Stream
  <2> QED
    BY <2>1, <2>2
<1>4. buffer' = Append(b, seq)
  BY <1>2 DEF Pushed
<1>5. taken \o b \in Seq(Nat)
  BY <1>0, <1>3
<1>6. Stream' = Append(taken \o b, seq)
  BY <1>0, <1>3, <1>4, AppendLast DEF Stream
<1>7. Len(Stream') = Len(taken \o b) + 1 /\ Len(taken \o b) \in Nat
  BY <1>5, <1>6
<1>8. Increasing(Stream') /\ Below(Stream', nextSeq')
  BY <1>0, <1>3, <1>5, <1>6, AddNewer
<1>9. buffer' \in Seq(0 .. MaxReport) /\ Len(buffer') = Len(b) + 1 /\ Len(b) \in Nat
  BY <1>0, <1>3, <1>4
<1>10. Len(taken \o buffer) \in Nat
  BY <1>0, <1>1
<1>11. Len(Stream') + dropped' = Len(Stream) + dropped + 1
  <2>1. Stream = taken \o buffer
    BY DEF Stream
  <2>2. PICK k \in Nat, m \in Nat, n \in Nat : k = Len(Stream') /\ m = Len(taken \o b) /\ n = Len(Stream)
    BY <1>7, <1>10, <2>1
  <2>3. PICK x \in Nat, y \in Nat : x = dropped /\ y = dropped'
    BY <1>0, <1>3
  <2>4. k = m + 1 /\ m + y = n + x
    BY <1>3, <1>7, <2>1, <2>2, <2>3
  <2>5. k + y = n + x + 1
    BY <2>4
  <2> QED
    BY <2>2, <2>3, <2>5
<1>12. Len(buffer') <= Capacity
  BY <1>0, <1>3, <1>9
<1> QED
  BY <1>3, <1>8, <1>9, <1>11, <1>12

\* While the stream and the numbers stay, so does their order.
LEMMA SameStream ==
  ASSUME PollingInv, Stream' = Stream, UNCHANGED <<nextSeq, dropped>>, Pushing' = Pushing,
         \A t \in Pushing : thread'[t] = thread[t]
  PROVE  Newest' /\ Counted'
BY DEF PollingInv, Newest, Counted

\* At most one thread holds a number.
LEMMA OnePushing ==
  ASSUME OneThread
  PROVE  /\ \A t \in Pushing : Pushing = {t}
         /\ \A t : Cardinality({t}) = 1
         /\ Cardinality({}) = 0
         /\ Cardinality(Pushing) \in {0, 1}
<1>1. (\A t : Cardinality({t}) = 1) /\ Cardinality({}) = 0
  BY FS_EmptySet, FS_Singleton
<1>2. \A t \in Pushing : Pushing = {t}
  BY DEF OneThread, Pushing
<1> QED
  BY <1>1, <1>2

\* The stream is a sequence of numbers.
LEMMA StreamTyped ==
  ASSUME PollingInv
  PROVE  Stream \in Seq(Nat) /\ Len(Stream) \in Nat /\ buffer \in Seq(Nat)
<1>1. 0 .. MaxReport \subseteq Nat /\ buffer \in Seq(0 .. MaxReport) /\ taken \in Seq(Nat)
  BY PollingAssumption DEF PollingInv, PollingTypeOK
<1>2. buffer \in Seq(Nat)
  BY <1>1, SeqMonotonic
<1> QED
  BY <1>1, <1>2 DEF Stream

\* Every step of the polling keeps PollingInv.
LEMMA PollingStep ==
  ASSUME PollingInv, [PollingNext]_pollingVars
  PROVE  PollingInv'
<1>0. /\ PollingTypeOK /\ taken \in Seq(Nat) /\ OneThread /\ Newest /\ Counted
      /\ MaxReport \in Nat /\ Capacity \in Nat /\ NoThread \notin Thread
      /\ nextSeq \in Nat /\ dropped \in Nat /\ Stream \in Seq(Nat) /\ Len(Stream) \in Nat
      /\ buffer \in Seq(Nat)
  BY PollingAssumption, StreamTyped DEF PollingInv, PollingTypeOK
<1>1. ASSUME NEW t \in Thread, StartPolling(t)
      PROVE  PollingInv'
  <2>1. /\ polling' = TRUE /\ thread' = [thread EXCEPT ![t] = At("loop", 0)] /\ handle' = t
        /\ thread[t].at = "none" /\ owner = "free" /\ polling = FALSE
        /\ UNCHANGED <<buffer, nextSeq, dropped, owner, present, taken>>
    BY <1>1 DEF StartPolling, MayStart
  <2>2. handle = NoThread
    BY <1>0, <2>1 DEF OneThread
  <2>3. PollingTypeOK'
    BY <1>0, <2>1 DEF PollingTypeOK, At
  <2>4. OneThread'
    BY <1>0, <2>1, <2>2 DEF OneThread, PollingTypeOK
  <2>5. Pushing' = Pushing /\ Pushing = {}
    BY <1>0, <2>1, <2>2 DEF Pushing, OneThread, PollingTypeOK, At
  <2>6. Newest' /\ Counted'
    BY <2>1, <2>5, SameStream DEF Stream
  <2> QED
    BY <1>0, <2>1, <2>3, <2>4, <2>6 DEF PollingInv
<1>2. CASE StopBegins
  <2>1. /\ polling' = FALSE /\ owner' = "stops"
        /\ UNCHANGED <<buffer, nextSeq, dropped, handle, thread, present, taken>>
    BY <1>2 DEF StopBegins
  <2>2. PollingTypeOK' /\ OneThread' /\ Pushing' = Pushing
    BY <1>0, <2>1 DEF PollingTypeOK, OneThread, Pushing
  <2> QED
    BY <1>0, <2>1, <2>2, SameStream DEF PollingInv, Stream
<1>3. CASE StopEnds
  <2>1. /\ owner = "stops" /\ owner' = "free" /\ handle' = NoThread
        /\ handle # NoThread => thread[handle].at = "ended"
        /\ UNCHANGED <<buffer, nextSeq, dropped, polling, thread, present, taken>>
    BY <1>3 DEF StopEnds, Joined
  <2>2. PollingTypeOK'
    BY <1>0, <2>1 DEF PollingTypeOK
  <2>3. polling = FALSE
    BY <1>0, <2>1 DEF PollingInv, OneThread, PollingTypeOK
  <2>4. OneThread'
    BY <1>0, <2>1, <2>3 DEF OneThread
  <2>5. Pushing' = Pushing
    BY <2>1 DEF Pushing
  <2> QED
    BY <1>0, <2>1, <2>2, <2>4, <2>5, SameStream DEF PollingInv, Stream
<1>4. ASSUME NEW t \in Thread, ThreadEnds(t)
      PROVE  PollingInv'
  <2>1. /\ thread[t].at = "loop" /\ thread' = [thread EXCEPT ![t] = At("ended", 0)]
        /\ UNCHANGED <<buffer, nextSeq, dropped, polling, handle, owner, present, taken>>
    BY <1>4 DEF ThreadEnds
  <2>2. PollingTypeOK'
    BY <1>0, <2>1 DEF PollingTypeOK, At
  <2>3. OneThread' /\ Pushing' = Pushing /\ \A u \in Pushing : thread'[u] = thread[u]
    BY <1>0, <2>1 DEF OneThread, PollingTypeOK, At, Pushing
  <2> QED
    BY <1>0, <2>1, <2>2, <2>3, SameStream DEF PollingInv, Stream
<1>5. ASSUME NEW t \in Thread, ThreadReads(t)
      PROVE  PollingInv'
  <2>1. /\ thread[t].at = "loop" /\ thread' = [thread EXCEPT ![t] = At("pushes", nextSeq)]
        /\ nextSeq' = nextSeq + 1 /\ nextSeq < MaxReport
        /\ UNCHANGED <<buffer, dropped, polling, handle, owner, present, taken>>
    BY <1>5 DEF ThreadReads
  <2>2. nextSeq' \in 0 .. MaxReport /\ nextSeq \in 0 .. MaxReport
    BY <1>0, <2>1
  <2>3. PollingTypeOK'
    BY <1>0, <2>1, <2>2 DEF PollingTypeOK, At
  <2>4. OneThread'
    BY <1>0, <2>1 DEF OneThread, PollingTypeOK, At
  <2>5. Pushing = {} /\ Pushing' = {t} /\ thread'[t].seq = nextSeq /\ Stream' = Stream
    BY <1>0, <2>1 DEF OneThread, PollingTypeOK, At, Pushing, Stream
  <2>6. \A i \in DOMAIN Stream : Stream[i] \in Nat /\ Stream[i] < nextSeq
    BY <1>0 DEF Newest, Below
  <2>7. Newest'
    BY <1>0, <2>1, <2>5, <2>6 DEF Newest, Below
  <2>8. Counted'
    <3>1. Cardinality(Pushing) = 0 /\ Cardinality(Pushing') = 1
      BY <1>0, <2>5, OnePushing
    <3> QED
      BY <1>0, <2>1, <2>5, <3>1 DEF Counted
  <2> QED
    BY <1>0, <2>1, <2>3, <2>4, <2>7, <2>8 DEF PollingInv
<1>6. ASSUME NEW t \in Thread, ThreadPushes(t)
      PROVE  PollingInv'
  <2>1. /\ thread[t].at = "pushes" /\ buffer' = Pushed(thread[t].seq) /\ CountDropped
        /\ thread' = [thread EXCEPT ![t] = At("loop", 0)]
        /\ UNCHANGED <<nextSeq, polling, handle, owner, present, taken>>
    BY <1>6 DEF ThreadPushes
  <2>2. t \in Pushing
    BY <2>1 DEF Pushing
  <2>3. PICK seq \in 0 .. MaxReport : seq = thread[t].seq /\ seq < nextSeq /\ Below(Stream, seq)
    BY <1>0, <2>2 DEF Newest, PollingTypeOK
  <2>4. nextSeq' \in 0 .. MaxReport /\ seq < nextSeq' /\ buffer' = Pushed(seq) /\ seq \in Nat
        /\ seq <= MaxReport /\ UNCHANGED taken
    BY <1>0, <2>1, <2>3 DEF PollingTypeOK
  <2>5. /\ Increasing(Stream') /\ Below(Stream', nextSeq')
        /\ Len(Stream') + dropped' = Len(Stream) + dropped + 1
        /\ buffer' \in Seq(0 .. MaxReport) /\ Len(buffer') <= Capacity /\ dropped' \in Nat
    BY <2>1, <2>3, <2>4, PushStep
  <2>6. Pushing = {t} /\ Pushing' = {}
    BY <1>0, <2>1, <2>2 DEF OneThread, PollingTypeOK, At, Pushing
  <2>7. OneThread'
    BY <1>0, <2>1 DEF OneThread, PollingTypeOK, At
  <2>8. Newest'
    BY <2>5, <2>6 DEF Newest
  <2>9. Cardinality(Pushing) = 1 /\ Cardinality(Pushing') = 0
    BY <1>0, <2>6, OnePushing
  <2>10. Len(Stream') \in Nat
    <3>1. buffer' \in Seq(Nat)
      <4>1. 0 .. MaxReport \subseteq Nat
        BY <1>0
      <4> QED
        BY <2>5, <4>1, SeqMonotonic
    <3> QED
      BY <1>0, <2>4, <3>1 DEF Stream
  <2>11. Counted'
    BY <1>0, <2>1, <2>5, <2>9, <2>10 DEF Counted
  <2>12. dropped' \in 0 .. MaxReport
    BY <1>0, <2>4, <2>5, <2>9, <2>10, <2>11 DEF Counted
  <2>13. PollingTypeOK'
    BY <1>0, <2>1, <2>4, <2>5, <2>12 DEF PollingTypeOK, At
  <2> QED
    BY <1>0, <2>4, <2>7, <2>8, <2>11, <2>13 DEF PollingInv
<1>7. CASE ManagerPushes
  <2>1. /\ handle = NoThread /\ nextSeq < MaxReport /\ buffer' = Pushed(nextSeq) /\ CountDropped
        /\ nextSeq' = nextSeq + 1
        /\ UNCHANGED <<polling, handle, thread, owner, present, taken>>
    BY <1>7 DEF ManagerPushes
  <2>2. nextSeq' \in 0 .. MaxReport /\ nextSeq < nextSeq' /\ nextSeq <= MaxReport /\ Below(Stream, nextSeq)
    BY <1>0, <2>1 DEF Newest
  <2>3. /\ Increasing(Stream') /\ Below(Stream', nextSeq')
        /\ Len(Stream') + dropped' = Len(Stream) + dropped + 1
        /\ buffer' \in Seq(0 .. MaxReport) /\ Len(buffer') <= Capacity /\ dropped' \in Nat
    BY <1>0, <2>1, <2>2, PushStep
  <2>4. Pushing = {} /\ Pushing' = {}
    BY <1>0, <2>1 DEF OneThread, Pushing
  <2>5. OneThread' /\ Newest'
    BY <1>0, <2>1, <2>3, <2>4 DEF OneThread, Newest
  <2>6. Cardinality(Pushing) = 0 /\ Cardinality(Pushing') = 0
    BY <1>0, <2>4, OnePushing
  <2>7. Len(Stream') \in Nat
    <3>1. buffer' \in Seq(Nat)
      <4>1. 0 .. MaxReport \subseteq Nat
        BY <1>0
      <4> QED
        BY <2>3, <4>1, SeqMonotonic
    <3> QED
      BY <1>0, <2>1, <3>1 DEF Stream
  <2>8. Counted'
    BY <1>0, <2>1, <2>3, <2>6, <2>7 DEF Counted
  <2>9. dropped' \in 0 .. MaxReport
    BY <1>0, <2>2, <2>3, <2>6, <2>7, <2>8 DEF Counted
  <2>10. PollingTypeOK'
    BY <1>0, <2>1, <2>2, <2>3, <2>9 DEF PollingTypeOK
  <2> QED
    BY <1>0, <2>1, <2>5, <2>8, <2>10 DEF PollingInv
<1>8. CASE Pop
  <2>1. /\ buffer # <<>> /\ taken' = Append(taken, Head(buffer)) /\ buffer' = Tail(buffer)
        /\ UNCHANGED <<nextSeq, dropped, polling, handle, thread, owner, present>>
    BY <1>8 DEF Pop
  <2>2. Stream' = Stream
    BY <1>0, <2>1, MoveHead DEF Stream
  <2>3. buffer' \in Seq(0 .. MaxReport) /\ Len(buffer') = Len(buffer) - 1 /\ Len(buffer) \in Nat
    BY <1>0, <2>1 DEF PollingTypeOK
  <2>4. taken' \in Seq(Nat)
    BY <1>0, <2>1
  <2>5. PollingTypeOK'
    BY <1>0, <2>1, <2>3 DEF PollingTypeOK
  <2>6. OneThread' /\ Pushing' = Pushing
    BY <1>0, <2>1 DEF OneThread, Pushing
  <2> QED
    BY <2>1, <2>2, <2>4, <2>5, <2>6, SameStream DEF PollingInv
<1>9. CASE PopAll
  <2>1. /\ taken' = taken \o buffer /\ buffer' = <<>>
        /\ UNCHANGED <<nextSeq, dropped, polling, handle, thread, owner, present>>
    BY <1>9 DEF PopAll
  <2>2. Stream' = Stream
    BY <1>0, <2>1, ConcatEmptySeq DEF Stream
  <2>3. <<>> \in Seq(0 .. MaxReport) /\ Len(<<>>) = 0
    OBVIOUS
  <2>4. taken' \in Seq(Nat)
    BY <1>0, <2>1 DEF Stream
  <2>5. PollingTypeOK'
    BY <1>0, <2>1, <2>3 DEF PollingTypeOK
  <2>6. OneThread' /\ Pushing' = Pushing
    BY <1>0, <2>1 DEF OneThread, Pushing
  <2> QED
    BY <2>1, <2>2, <2>4, <2>5, <2>6, SameStream DEF PollingInv
<1>10. CASE PulledOut \/ UNCHANGED pollingVars
  <2>1. UNCHANGED <<buffer, nextSeq, dropped, polling, handle, thread, owner,
                    taken>> /\ present' \in BOOLEAN
    BY <1>0, <1>10 DEF PulledOut, pollingVars, PollingTypeOK
  <2>2. PollingTypeOK' /\ OneThread' /\ Pushing' = Pushing
    BY <1>0, <2>1 DEF PollingTypeOK, OneThread, Pushing
  <2> QED
    BY <1>0, <2>1, <2>2, SameStream DEF PollingInv, Stream
<1> QED
  BY <1>1, <1>2, <1>3, <1>4, <1>5, <1>6, <1>7, <1>8, <1>9, <1>10 DEF PollingNext

(* The theorems *)

\* One thread polls at a time, and numbers grow along the stream.
THEOREM PollingConsistent == PollingSpec => []PollingInv
<1>1. PollingInit => PollingInv
  <2> SUFFICES ASSUME PollingInit
               PROVE  PollingInv
    OBVIOUS
  <2>1. /\ <<>> \in Seq(0 .. MaxReport) /\ <<>> \in Seq(Nat) /\ Len(<<>>) = 0 /\ <<>> \o <<>> = <<>>
        /\ DOMAIN <<>> = {} /\ 0 \in 0 .. MaxReport
    BY PollingAssumption, ConcatEmptySeq
  <2>2. PollingTypeOK /\ taken \in Seq(Nat)
    <3>1. At("none", 0) \in [at : {"none", "loop", "pushes", "ended"}, seq : 0 .. MaxReport]
      BY <2>1 DEF At
    <3>2. thread \in [Thread -> [at : {"none", "loop", "pushes", "ended"}, seq : 0 .. MaxReport]]
      BY <3>1 DEF PollingInit
    <3>3. buffer \in Seq(0 .. MaxReport) /\ taken \in Seq(Nat) /\ Len(buffer) <= Capacity
      BY <2>1, PollingAssumption DEF PollingInit
    <3> QED
      BY <2>1, <3>2, <3>3 DEF PollingInit, PollingTypeOK
  <2>3. OneThread
    BY DEF PollingInit, OneThread, At
  <2>4. Stream = <<>> /\ Pushing = {}
    BY <2>1 DEF PollingInit, Stream, Pushing, At
  <2>5. Newest
    BY <2>1, <2>4 DEF Newest, Increasing, Below
  <2>6. Counted
    BY <2>1, <2>3, <2>4, OnePushing DEF Counted, PollingInit
  <2> QED
    BY <2>2, <2>3, <2>5, <2>6 DEF PollingInv
<1>2. PollingInv /\ [PollingNext]_pollingVars => PollingInv'
  BY PollingStep
<1> QED
  BY <1>1, <1>2, PTL DEF PollingSpec

\* Reports come out in the order of their numbers and every missing one was
\* counted as dropped, over any number of stops and starts (EndpointBuffer).
THEOREM NoReportUncounted == PollingSpec => []StreamIsComplete
<1>1. PollingInv => StreamIsComplete
  BY DEF PollingInv, Newest, Increasing, Counted, Pushing, StreamIsComplete
<1> QED
  BY <1>1, PollingConsistent, PTL

-----------------------------------------------------------------------------
(* Sessions *)

\* find gives a policy, or a window, that was looked for.
LEMMA FirstFound ==
  ASSUME NEW S \in SUBSET Nat, S # {}
  PROVE  First(S) \in S
  BY LeastOf DEF First

\* k minutes on, less than a day, the minute of the day is k further or the day has
\* turned.
LEMMA DayTurns ==
  ASSUME NEW a \in Nat, NEW k \in Nat, k < Day
  PROVE  /\ a % Day \in Minute
         /\ (a + k) % Day = IF (a % Day) + k < Day THEN (a % Day) + k ELSE (a % Day) + k - Day
<1>1. Day \in Nat \ {0}
  BY PolicyAssumption
<1>2. PICK q \in Nat, m \in 0 .. (Day - 1) : a = q * Day + m
  <2>1. a = (a \div Day) * Day + (a % Day) /\ a % Day \in 0 .. (Day - 1) /\ a \div Day \in Nat
    BY <1>1
  <2> QED
    BY <2>1
<1>3. \A x \in Nat, y \in 0 .. (Day - 1) : (x * Day + y) % Day = y
  BY <1>1
<1>4. a % Day = m
  BY <1>2, <1>3
<1>5. CASE m + k < Day
  <2>1. a + k = q * Day + (m + k) /\ m + k \in 0 .. (Day - 1)
    BY <1>1, <1>2, <1>5
  <2> QED
    BY <1>2, <1>3, <1>4, <1>5, <2>1 DEF Minute
<1>6. CASE ~(m + k < Day)
  <2>1. a + k = (q + 1) * Day + (m + k - Day) /\ m + k - Day \in 0 .. (Day - 1)
    BY <1>1, <1>2, <1>6
  <2> QED
    BY <1>2, <1>3, <1>4, <1>6, <2>1 DEF Minute
<1> QED
  BY <1>5, <1>6

\* A window that holds the minute of a holds every minute from then to its end.
LEMMA WindowHolds ==
  ASSUME NEW a \in Nat, NEW w \in Window, TimeInRange(a % Day, w)
  PROVE  /\ MinutesUntilEnd(a % Day, w) \in Nat \ {0}
         /\ \A b \in a .. (a + MinutesUntilEnd(a % Day, w) - 1) : TimeInRange(b % Day, w)
<1>1. /\ w.start \in 0 .. (Day - 1) /\ w.end \in 0 .. (Day - 1) /\ Day \in Nat \ {0}
  BY PolicyAssumption DEF Window, Minute
<1>2. a % Day \in 0 .. (Day - 1)
  BY DayTurns, <1>1 DEF Minute
<1> DEFINE m == a % Day
           e == MinutesUntilEnd(m, w)
<1>3. e \in Nat \ {0} /\ e <= Day
  BY <1>1, <1>2 DEF MinutesUntilEnd
<1>4. ASSUME NEW b \in a .. (a + e - 1) PROVE TimeInRange(b % Day, w)
  <2> DEFINE k == b - a
  <2>1. k \in Nat /\ k < Day /\ k < e /\ b = a + k
    BY <1>3, <1>1
  <2>2. b % Day = IF m + k < Day THEN m + k ELSE m + k - Day
    BY <2>1, DayTurns
  <2> HIDE DEF k, m
  <2> QED
    BY <1>1, <1>2, <2>1, <2>2 DEF MinutesUntilEnd, TimeInRange, m
<1> QED
  BY <1>3, <1>4

\* The minutes left to a session are a number or none, and a session that begins in a
\* window of its policy gets an end before the windows'.
LEMMA LimitsHold ==
  ASSUME NEW dev, NEW a \in Nat
  PROVE  LET i == PolicyFor(Policies, dev)
             limit == WindowLimit(Policies, dev, a % Day)
         IN /\ DurationLimit(Policies, dev) \in Nat \cup {Unlimited}
            /\ limit \in Nat \cup {Unlimited}
            /\ i # 0 /\ WindowsAt(a % Day, Policies[i].windows) # {} =>
                 /\ limit \in Nat \ {0}
                 /\ \A b \in a .. (a + limit - 1) : WindowsAt(b % Day, Policies[i].windows) # {}
<1> DEFINE i == PolicyFor(Policies, dev)
           limit == WindowLimit(Policies, dev, a % Day)
<1>1. DOMAIN Policies \in SUBSET Nat
  BY PoliciesAssumption
<1>2. i \in DOMAIN Policies \cup {0}
  <2>1. \A S \in SUBSET DOMAIN Policies : First(S) \in DOMAIN Policies \cup {0}
    <3> SUFFICES ASSUME NEW S \in SUBSET DOMAIN Policies, S # {}
                 PROVE  First(S) \in DOMAIN Policies
      BY DEF First
    <3> QED
      BY <1>1, FirstFound
  <2> QED
    BY <2>1 DEF PolicyFor, FindMatchingPolicy, ExactMatches, VendorMatches, DefaultPolicies
<1> HIDE DEF i
<1>3. CASE i = 0
  BY <1>3 DEF DurationLimit, WindowLimit, i
<1>4. CASE i # 0
  <2> DEFINE ws == Policies[i].windows
             W == WindowsAt(a % Day, ws)
  <2>1. i \in DOMAIN Policies
    BY <1>2, <1>4
  <2>2. /\ Policies[i].maxDuration \in Nat \cup {Unlimited}
        /\ ws \in Seq(Window \cup {BadWindow})
    BY <2>1, PoliciesAssumption
  <2>3. limit = WindowExpiry(a % Day, ws) /\ DurationLimit(Policies, dev) = Policies[i].maxDuration
    BY <1>4 DEF WindowLimit, DurationLimit, i
  <2>4. CASE W = {}
    BY <1>4, <2>2, <2>3, <2>4 DEF WindowExpiry, i
  <2>5. CASE W # {}
    <3> DEFINE j == First(W)
    <3>1. DOMAIN ws \in SUBSET Nat /\ \A n \in DOMAIN ws : ws[n] \in Window \cup {BadWindow}
      BY <2>2
    <3>2. j \in W
      BY <2>5, <3>1, FirstFound DEF WindowsAt
    <3> HIDE DEF j
    <3>3. j \in DOMAIN ws /\ ws[j] \in Window /\ TimeInRange(a % Day, ws[j]) /\ ws[j] # BadWindow
      BY <3>1, <3>2 DEF WindowsAt
    <3>4. limit = MinutesUntilEnd(a % Day, ws[j])
      BY <2>3, <2>5 DEF WindowExpiry, j
    <3>5. /\ limit \in Nat \ {0}
          /\ \A b \in a .. (a + limit - 1) : TimeInRange(b % Day, ws[j])
      BY <3>3, <3>4, WindowHolds
    <3>6. \A b \in a .. (a + limit - 1) : j \in WindowsAt(b % Day, ws)
      BY <3>3, <3>5 DEF WindowsAt
    <3> QED
      BY <2>2, <2>3, <3>5, <3>6 DEF i
  <2> QED
    BY <2>4, <2>5
<1> QED
  BY <1>3, <1>4

\* Within n minutes of ticks the minute grows by at most n.
LEMMA MinutesPass ==
  ASSUME NEW a \in Nat, NEW n \in Nat, NEW t \in a .. (a + n * MinuteTicks)
  PROVE  (t \div MinuteTicks) \in (a \div MinuteTicks) .. ((a \div MinuteTicks) + n)
<1> DEFINE g == MinuteTicks
           p == a \div g
           q == t \div g
<1>1. g \in Nat \ {0}
  BY SessionAssumption
<1>2. p \in Nat /\ a >= p * g /\ a < (p + 1) * g
  <2>1. a = (a \div g) * g + (a % g) /\ a % g \in 0 .. (g - 1) /\ a \div g \in Nat
    BY <1>1
  <2> QED
    BY <1>1, <2>1
<1>3. t \in Nat /\ a <= t /\ t <= a + n * g
  BY <1>1
<1>4. q \in Nat /\ t >= q * g /\ t < (q + 1) * g
  <2>1. t = (t \div g) * g + (t % g) /\ t % g \in 0 .. (g - 1) /\ t \div g \in Nat
    BY <1>1, <1>3
  <2> QED
    BY <1>1, <2>1
<1> HIDE DEF g, p, q
<1>5. \A x, y \in Nat : x < y => (x + 1) * g <= y * g
  <2> SUFFICES ASSUME NEW x \in Nat, NEW y \in Nat, x < y PROVE (x + 1) * g <= y * g
    OBVIOUS
  <2>1. PICK k \in Nat : y = x + 1 + k
    <3>1. y - (x + 1) \in Nat
      OBVIOUS
    <3> QED
      BY <3>1
  <2>2. y * g = (x + 1) * g + k * g /\ k * g \in Nat
    BY <1>1, <2>1
  <2> QED
    BY <1>1, <2>2
<1>6. p <= q
  <2> SUFFICES ASSUME q < p PROVE FALSE
    BY <1>2, <1>4
  <2>1. (q + 1) * g <= p * g
    BY <1>2, <1>4, <1>5
  <2> QED
    BY <1>1, <1>2, <1>3, <1>4, <2>1
<1>7. q <= p + n
  <2> SUFFICES ASSUME p + n < q PROVE FALSE
    BY <1>2, <1>4
  <2>1. (p + n + 1) * g <= q * g
    BY <1>2, <1>4, <1>5
  <2>2. (p + n + 1) * g = (p + 1) * g + n * g
    BY <1>1, <1>2
  <2> QED
    BY <1>1, <1>2, <1>3, <1>4, <2>1, <2>2
<1> QED
  BY <1>2, <1>4, <1>6, <1>7 DEF g, p, q

\* A session's end is a tick or never, and one that is expired is at its end.
LEMMA EndsAre ==
  ASSUME NEW s, s.startedAt \in Nat, s.maxDuration \in Nat \cup {Unlimited},
         s.windowExpiresAt \in Nat \cup {Unlimited}, now \in Nat
  PROVE  /\ EndOf(s) \in Nat \cup {Unlimited}
         /\ IsExpired(s) => EndOf(s) \in Nat /\ EndOf(s) <= now
<1> DEFINE d == s.startedAt + s.maxDuration
           byDuration == IF s.maxDuration = Unlimited THEN {} ELSE {d}
           byWindow == IF s.windowExpiresAt = Unlimited THEN {} ELSE {s.windowExpiresAt}
           all == byDuration \cup byWindow
<1>1. EndOf(s) = IF all = {} THEN Unlimited ELSE CHOOSE e \in all : \A f \in all : e <= f
  BY DEF EndOf
<1>2. all \in SUBSET Nat
  <2>1. byDuration \in SUBSET Nat
    BY DEF Unlimited
  <2>2. byWindow \in SUBSET Nat
    BY DEF Unlimited
  <2> QED
    BY <2>1, <2>2
<1>3. IsExpired(s) => \E f \in all : f <= now
  <2>1. s.maxDuration # Unlimited /\ now - s.startedAt >= s.maxDuration => d \in byDuration /\ d <= now
    BY DEF Unlimited
  <2>2. s.windowExpiresAt # Unlimited /\ now >= s.windowExpiresAt =>
          s.windowExpiresAt \in byWindow /\ s.windowExpiresAt <= now
    BY DEF Unlimited
  <2> QED
    BY <2>1, <2>2 DEF IsExpired
<1> HIDE DEF all
<1>4. CASE all = {}
  <2>1. EndOf(s) = Unlimited
    BY <1>1, <1>4
  <2>2. ~IsExpired(s)
    BY <1>3, <1>4
  <2> QED
    BY <2>1, <2>2
<1>5. CASE all # {}
  <2>1. PICK p \in all : \A q \in all : p <= q
    BY <1>2, <1>5, LeastOf
  <2>2. EndOf(s) \in all /\ \A f \in all : EndOf(s) <= f
    BY <1>1, <1>5, <2>1
  <2>3. EndOf(s) \in Nat
    BY <1>2, <2>2
  <2>4. ASSUME IsExpired(s) PROVE EndOf(s) <= now
    <3>1. PICK f \in all : f <= now
      BY <1>3, <2>4
    <3>2. EndOf(s) <= f /\ f \in Nat
      BY <1>2, <2>2, <3>1
    <3> QED
      BY <2>3, <3>1, <3>2
  <2> QED
    BY <2>3, <2>4
<1> QED
  BY <1>4, <1>5

\* What register_session computed is when the session has to end.
EndsKnown == \A h \in Registered : ends[h] = EndOf(sessions[h])

\* Whoever is about to take a session away has seen it come to its end.
Due ==
  /\ \A h \in monitor : HasEnded(h)
  /\ \A c \in Peer : \A h \in loop[c].expired : HasEnded(h)
  /\ \A c \in Peer : loop[c].pc = "detach" => HasEnded(loop[c].handle)

\* A handler has a handle in hand just while it tells the policy engine or the USB
\* thread of it.
InHand ==
  \A c \in Peer :
    /\ loop[c].pc \in {"register", "unregister", "detach"} <=> loop[c].handle \in Session
    /\ loop[c].pc \in {"attach", "register"} => loop[c].thing \in Thing
    /\ loop[c].pc = "off" => loop[c].tracked = {}
    /\ loop[c].pc = "register" =>
         loop[c].handle \in loop[c].tracked /\ ends[loop[c].handle] = NotBegun
    /\ loop[c].pc = "unregister" => held[loop[c].handle] = NoPeer

\* A handle is tracked by one handler, and by none when it is on its way out, unless
\* another client has asked to detach it.
InHandOf(d, c) ==
  IF d = c THEN loop[c].pc = "register" ELSE loop[d].pc = "unregister"

TrackedAlone ==
  \A c \in Peer : \A h \in loop[c].tracked :
    /\ held[h] \in {c, NoPeer}
    /\ ends[h] = NotBegun => loop[c].handle = h
    /\ \A d \in Peer \ {c} : h \notin loop[d].tracked
    /\ \A d \in Peer : loop[d].handle = h => InHandOf(d, c)

SessionsInv ==
  /\ SessionTypeOK /\ EndsKnown /\ Due /\ InHand /\ TrackedAlone
  /\ SessionKept /\ WindowRespected /\ HeldIsAccountedFor

HandlerRecord ==
  [pc : {"off", "ready", "attach", "register", "unregister", "expire", "detach", "cleanup"},
   tracked : SUBSET Session, thing : Thing \cup {NoThing}, handle : Session \cup {NoSession},
   expired : SUBSET Session, quiet : 0 .. TimerPeriod, idle : 0 .. (IdleLimit + 1)]

\* A step of a handler, by what it leaves in the handler's record.
Turns(c, pc, tracked, thing, hand, expired) ==
  /\ loop' \in [Peer -> HandlerRecord]
  /\ loop'[c].pc = pc /\ loop'[c].tracked = tracked /\ loop'[c].thing = thing
  /\ loop'[c].handle = hand /\ loop'[c].expired = expired
  /\ \A d \in Peer \ {c} : loop'[d] = loop[d]

\* A handler that does not grow: it may forget handles, but only one it has still to
\* detach or to unregister, or one that the USB side does not hold for its client any
\* more; the USB side may let handles go, and the policy engine the session of the
\* handle in hand.
LEMMA HandlerTurn ==
  ASSUME NEW c \in Peer, NEW pc, NEW tracked, NEW thing, NEW hand, NEW expired,
         SessionsInv, Turns(c, pc, tracked, thing, hand, expired),
         UNCHANGED <<now, monitor, ends>>,
         held' \in [Session -> Peer \cup {NoPeer}],
         \A h \in Session : held'[h] \in {held[h], NoPeer},
         late \subseteq late', late' \subseteq Session,
         Registered' \subseteq Registered,
         \A h \in Registered' : sessions'[h] = sessions[h],
         Registered \ Registered' \subseteq {loop[c].handle},
         loop[c].pc # "register",
         tracked \subseteq loop[c].tracked,
         \A h \in expired : HasEnded(h),
         \A h \in Session :
           held'[h] = c /\ h \in loop[c].tracked \cup {loop[c].handle} =>
             h \in tracked \cup {hand} \cup late',
         pc # "register",
         pc \in {"unregister", "detach"} <=> hand \in Session,
         hand \notin tracked,
         pc = "detach" => hand \in loop[c].tracked /\ HasEnded(hand),
         pc = "unregister" => held'[hand] = NoPeer,
         pc = "attach" => thing \in Thing,
         pc = "off" => tracked = {}
  PROVE  SessionsInv'
<1> USE DEF SessionsInv
<1>1. \A d \in Peer \ {c} : loop'[d] = loop[d]
  BY DEF Turns
<1>2. /\ loop'[c].pc = pc /\ loop'[c].tracked = tracked /\ loop'[c].thing = thing
      /\ loop'[c].handle = hand /\ loop'[c].expired = expired
  BY DEF Turns
<1>3. loop \in [Peer -> HandlerRecord] /\ loop' \in [Peer -> HandlerRecord]
  BY DEF Turns, SessionTypeOK, HandlerRecord
<1>4. SessionTypeOK'
  <2>1. now' \in 0 .. MaxNow /\ monitor' \subseteq Session /\ ends' \in [Session -> Nat \cup {Unlimited, NotBegun}]
    BY DEF SessionTypeOK
  <2>2. Registered' \subseteq Session
    BY DEF SessionTypeOK
  <2>3. ASSUME NEW h \in Registered'
        PROVE  sessions'[h] \in [client : Peer, thing : Thing, startedAt : Nat,
                                 maxDuration : Nat \cup {Unlimited},
                                 windowExpiresAt : Nat \cup {Unlimited}]
    BY DEF SessionTypeOK
  <2> QED
    BY <1>3, <2>1, <2>2, <2>3 DEF SessionTypeOK, HandlerRecord
<1>5. EndsKnown'
  BY DEF EndsKnown, EndOf
<1>6. \A h \in Session : HasEnded(h)' <=> HasEnded(h)
  BY DEF HasEnded
<1>7. Due'
  <2>1. \A h \in monitor' : HasEnded(h)'
    BY <1>6 DEF Due, HasEnded
  <2>2. ASSUME NEW d \in Peer PROVE \A h \in loop'[d].expired : HasEnded(h)'
    BY <1>1, <1>2 DEF Due, HasEnded
  <2>3. ASSUME NEW d \in Peer, loop'[d].pc = "detach" PROVE HasEnded(loop[d].handle)'
    BY <1>1, <1>2, <2>3 DEF Due, HasEnded
  <2> QED
    BY <2>1, <2>2, <2>3 DEF Due
<1>8. InHand'
  <2> SUFFICES ASSUME NEW d \in Peer
               PROVE  /\ loop'[d].pc \in {"register", "unregister", "detach"} <=> loop'[d].handle \in Session
                      /\ loop'[d].pc \in {"attach", "register"} => loop'[d].thing \in Thing
                      /\ loop'[d].pc = "off" => loop'[d].tracked = {}
                      /\ loop'[d].pc = "register" =>
                           loop'[d].handle \in loop'[d].tracked /\ ends'[loop'[d].handle] = NotBegun
                      /\ loop'[d].pc = "unregister" => held'[loop'[d].handle] = NoPeer
    BY DEF InHand
  <2>1. CASE d = c
    BY <1>2, <2>1
  <2>2. CASE d # c
    <3>1. loop'[d] = loop[d] /\ ends' = ends
      BY <1>1, <2>2
    <3>2. /\ loop[d].pc \in {"register", "unregister", "detach"} <=> loop[d].handle \in Session
          /\ loop[d].pc \in {"attach", "register"} => loop[d].thing \in Thing
          /\ loop[d].pc = "off" => loop[d].tracked = {}
          /\ loop[d].pc = "register" =>
               loop[d].handle \in loop[d].tracked /\ ends[loop[d].handle] = NotBegun
          /\ loop[d].pc = "unregister" => held[loop[d].handle] = NoPeer
      BY DEF InHand
    <3> QED
      BY <3>1, <3>2
  <2> QED
    BY <2>1, <2>2
<1>9. TrackedAlone'
  <2>1. \A d \in Peer : loop'[d].tracked \subseteq loop[d].tracked
    BY <1>1, <1>2
  <2>2. ASSUME NEW d \in Peer, NEW h \in loop'[d].tracked
        PROVE  /\ held'[h] \in {d, NoPeer}
               /\ ends'[h] = NotBegun => loop'[d].handle = h
               /\ \A e \in Peer \ {d} : h \notin loop'[e].tracked
    <3>1. h \in loop[d].tracked /\ h \in Session
      BY <1>3, <2>1, <2>2 DEF HandlerRecord
    <3>0. held[h] \in {d, NoPeer}
      BY <3>1 DEF TrackedAlone
    <3>2. /\ held'[h] \in {d, NoPeer}
          /\ \A e \in Peer \ {d} : h \notin loop'[e].tracked
      BY <2>1, <3>0, <3>1 DEF TrackedAlone
    <3>3. ends'[h] = NotBegun => loop[d].handle = h
      BY <3>1 DEF TrackedAlone
    <3>4. ends'[h] = NotBegun => d # c
      BY <3>1, <3>3 DEF TrackedAlone, InHandOf
    <3> QED
      BY <1>1, <3>2, <3>3, <3>4
  <2>3. ASSUME NEW d \in Peer, NEW h \in loop'[d].tracked, NEW e \in Peer, loop'[e].handle = h
        PROVE  IF e = d THEN loop'[d].pc = "register" ELSE loop'[e].pc = "unregister"
    <3>1. h \in loop[d].tracked /\ h \in Session
      BY <1>3, <2>1, <2>3 DEF HandlerRecord
    <3>2. CASE e = c
      <4>1. h = hand /\ d # c /\ pc \in {"unregister", "detach"}
        BY <1>2, <2>3, <3>1, <3>2
      <4>2. pc # "detach"
        BY <3>1, <4>1 DEF TrackedAlone
      <4> QED
        BY <1>2, <3>2, <4>1, <4>2
    <3>3. CASE e # c
      <4>1. loop[e].handle = h /\ loop'[e] = loop[e]
        BY <1>1, <2>3, <3>3
      <4>2. InHandOf(e, d)
        BY <3>1, <4>1 DEF TrackedAlone
      <4> QED
        BY <3>3, <4>1, <4>2 DEF InHandOf
    <3> QED
      BY <3>2, <3>3
  <2> QED
    BY <2>2, <2>3 DEF TrackedAlone, InHandOf
<1>10. SessionKept'
  <2> SUFFICES ASSUME NEW h \in Session, held'[h] # NoPeer, ends'[h] # NotBegun, ~HasEnded(h)'
               PROVE  h \in Registered'
    BY DEF SessionKept
  <2>1. held[h] # NoPeer
    OBVIOUS
  <2>2. h \in Registered
    BY <2>1 DEF SessionKept, HasEnded
  <2>3. h # loop[c].handle
    <3> SUFFICES ASSUME h = loop[c].handle PROVE FALSE
      OBVIOUS
    <3>1. loop[c].pc \in {"unregister", "detach"}
      BY DEF InHand
    <3>2. loop[c].pc # "unregister"
      BY <2>1 DEF InHand
    <3>3. loop[c].pc # "detach"
      BY <1>6 DEF Due
    <3> QED
      BY <3>1, <3>2, <3>3
  <2> QED
    BY <2>2, <2>3
<1>11. WindowRespected'
  BY DEF WindowRespected
<1>12. HeldIsAccountedFor'
  <2> SUFFICES ASSUME NEW d \in Peer, NEW h \in Session, held'[h] = d
               PROVE  h \in loop'[d].tracked \cup {loop'[d].handle} \cup late'
    BY DEF HeldIsAccountedFor
  <2>1. held[h] = d
    BY SessionAssumption
  <2>2. h \in loop[d].tracked \cup {loop[d].handle} \cup late
    BY <2>1 DEF HeldIsAccountedFor
  <2> QED
    BY <1>1, <1>2, <2>2
<1> QED
  BY <1>4, <1>5, <1>7, <1>8, <1>9, <1>10, <1>11, <1>12

\* The handler alone moves.
LEMMA QuietTurn ==
  ASSUME NEW c \in Peer, NEW pc, NEW tracked, NEW thing, NEW hand, NEW expired,
         SessionsInv, Turns(c, pc, tracked, thing, hand, expired),
         UNCHANGED <<now, sessions, monitor, held, late, ends>>,
         loop[c].handle \notin Session,
         tracked \subseteq loop[c].tracked,
         \A h \in expired : HasEnded(h),
         \A h \in loop[c].tracked \ tracked : held[h] # c \/ h = hand,
         pc \notin {"register", "unregister"},
         pc # "detach" => hand \notin Session,
         pc = "detach" => hand \in loop[c].tracked \ tracked /\ HasEnded(hand),
         pc = "attach" => thing \in Thing,
         pc = "off" => tracked = {}
  PROVE  SessionsInv'
<1>1. /\ held' \in [Session -> Peer \cup {NoPeer}] /\ \A h \in Session : held'[h] = held[h]
      /\ late' = late /\ late' \subseteq Session
      /\ Registered' = Registered /\ \A h \in Registered' : sessions'[h] = sessions[h]
  BY DEF SessionsInv, SessionTypeOK, Registered
<1>2. loop[c].pc # "register"
  BY DEF SessionsInv, InHand
<1>3. loop[c].tracked \subseteq Session
  BY DEF SessionsInv, SessionTypeOK
<1>4. \A h \in Session :
        held'[h] = c /\ h \in loop[c].tracked \cup {loop[c].handle} =>
          h \in tracked \cup {hand} \cup late'
  BY <1>1
<1>5. pc \in {"unregister", "detach"} <=> hand \in Session
  BY <1>3
<1>6. Registered \ Registered' \subseteq {loop[c].handle}
  BY <1>1
<1>7. hand \notin tracked
  BY <1>3
<1> QED
  BY <1>1, <1>2, <1>3, <1>4, <1>5, <1>6, <1>7, HandlerTurn

\* The counters of the clock start within their bounds.
LEMMA ZeroCounts == 0 \in 0 .. TimerPeriod /\ 0 \in 0 .. (IdleLimit + 1)
  BY SessionAssumption

\* A new record of a handler is a turn of it.
LEMMA RecordTurns ==
  ASSUME loop \in [Peer -> HandlerRecord], NEW c \in Peer, NEW r \in HandlerRecord,
         loop' = [loop EXCEPT ![c] = r]
  PROVE  Turns(c, r.pc, r.tracked, r.thing, r.handle, r.expired)
<1>1. loop' \in [Peer -> HandlerRecord] /\ loop'[c] = r /\ \A d \in Peer \ {c} : loop'[d] = loop[d]
  OBVIOUS
<1> QED
  BY <1>1 DEF Turns

\* The sessions a scan finds have come to their end.
LEMMA ExpiredHaveEnded ==
  ASSUME SessionTypeOK, EndsKnown
  PROVE  ExpiredSessions \subseteq Session /\ \A h \in ExpiredSessions : HasEnded(h)
<1> SUFFICES ASSUME NEW h \in ExpiredSessions PROVE h \in Session /\ HasEnded(h)
  OBVIOUS
<1>1. h \in Registered /\ h \in Session /\ IsExpired(sessions[h])
  BY DEF ExpiredSessions, SessionTypeOK
<1>2. /\ sessions[h].startedAt \in Nat /\ sessions[h].maxDuration \in Nat \cup {Unlimited}
      /\ sessions[h].windowExpiresAt \in Nat \cup {Unlimited}
  BY <1>1 DEF SessionTypeOK
<1>3. now \in Nat
  BY SessionAssumption DEF SessionTypeOK
<1>4. EndOf(sessions[h]) \in Nat /\ EndOf(sessions[h]) <= now
  BY <1>1, <1>2, <1>3, EndsAre
<1> QED
  BY <1>1, <1>4 DEF HasEnded, EndsKnown

\* A client connects: its handler starts with nothing tracked.
LEMMA PeerConnectsStep ==
  ASSUME SessionsInv, NEW c \in Peer, PeerConnects(c)
  PROVE  SessionsInv'
<1> DEFINE r == [NoLoop EXCEPT !.pc = "ready"]
<1>1. loop \in [Peer -> HandlerRecord] /\ loop[c] \in HandlerRecord
  BY DEF SessionsInv, SessionTypeOK, HandlerRecord
<1>2. loop[c].handle \notin Session
  BY SessionAssumption DEF SessionsInv, InHand, PeerConnects, HandlerRecord
<1>3. r \in HandlerRecord
  BY <1>1, ZeroCounts DEF HandlerRecord, NoLoop
<1>4. loop' = [loop EXCEPT ![c] = r]
  BY DEF PeerConnects
<1>5. /\ r.pc = "ready" /\ r.tracked = {} /\ r.thing = NoThing
      /\ r.handle = NoSession /\ r.expired = {}
  BY <1>1 DEF HandlerRecord, NoLoop
<1> HIDE DEF r
<1>6. Turns(c, "ready", {}, NoThing,
            NoSession, {})
  BY <1>1, <1>3, <1>4, <1>5, RecordTurns
<1>7. UNCHANGED <<now, sessions, monitor, held, late, ends>>
  BY DEF PeerConnects
<1> QED
  BY <1>1, <1>2, <1>6, <1>7, QuietTurn, SessionAssumption DEF SessionsInv, PeerConnects,
         Due, HandlerRecord, InHand, HeldIsAccountedFor

\* A request that changes nothing of the sessions.
LEMMA OtherRequestStep ==
  ASSUME SessionsInv, NEW c \in Peer, OtherRequest(c)
  PROVE  SessionsInv'
<1> DEFINE r == [[loop[c] EXCEPT !.idle = 0] EXCEPT !.pc = "ready", !.quiet = 0]
<1>1. loop \in [Peer -> HandlerRecord] /\ loop[c] \in HandlerRecord
  BY DEF SessionsInv, SessionTypeOK, HandlerRecord
<1>2. loop[c].handle \notin Session
  BY SessionAssumption DEF SessionsInv, InHand, OtherRequest, HandlerRecord
<1>3. r \in HandlerRecord
  BY <1>1, ZeroCounts DEF HandlerRecord
<1>4. loop' = [loop EXCEPT ![c] = r]
  BY DEF OtherRequest, NextTurn
<1>5. /\ r.pc = "ready" /\ r.tracked = loop[c].tracked /\ r.thing = loop[c].thing
      /\ r.handle = loop[c].handle /\ r.expired = loop[c].expired
  BY <1>1 DEF HandlerRecord
<1> HIDE DEF r
<1>6. Turns(c, "ready", loop[c].tracked, loop[c].thing,
            loop[c].handle, loop[c].expired)
  BY <1>1, <1>3, <1>4, <1>5, RecordTurns
<1>7. UNCHANGED <<now, sessions, monitor, held, late, ends>>
  BY DEF OtherRequest
<1> QED
  BY <1>1, <1>2, <1>6, <1>7, QuietTurn, SessionAssumption DEF SessionsInv, OtherRequest,
         Due, HandlerRecord, InHand, HeldIsAccountedFor

\* The policy is asked before the attach.
LEMMA CheckPolicyStep ==
  ASSUME SessionsInv, NEW c \in Peer, NEW dev \in Thing, CheckPolicy(c, dev)
  PROVE  SessionsInv'
<1> DEFINE r == [loop[c] EXCEPT !.pc = "attach", !.thing = dev, !.idle = 0]
<1>1. loop \in [Peer -> HandlerRecord] /\ loop[c] \in HandlerRecord
  BY DEF SessionsInv, SessionTypeOK, HandlerRecord
<1>2. loop[c].handle \notin Session
  BY SessionAssumption DEF SessionsInv, InHand, CheckPolicy, HandlerRecord
<1>3. r \in HandlerRecord
  BY <1>1, ZeroCounts DEF HandlerRecord
<1>4. loop' = [loop EXCEPT ![c] = r]
  BY DEF CheckPolicy
<1>5. /\ r.pc = "attach" /\ r.tracked = loop[c].tracked /\ r.thing = dev
      /\ r.handle = loop[c].handle /\ r.expired = loop[c].expired
  BY <1>1 DEF HandlerRecord
<1> HIDE DEF r
<1>6. Turns(c, "attach", loop[c].tracked, dev,
            loop[c].handle, loop[c].expired)
  BY <1>1, <1>3, <1>4, <1>5, RecordTurns
<1>7. UNCHANGED <<now, sessions, monitor, held, late, ends>>
  BY DEF CheckPolicy
<1> QED
  BY <1>1, <1>2, <1>6, <1>7, QuietTurn, SessionAssumption DEF SessionsInv, CheckPolicy,
         Due, HandlerRecord, InHand, HeldIsAccountedFor

\* The USB side refuses the attach.
LEMMA AttachFailsStep ==
  ASSUME SessionsInv, NEW c \in Peer, AttachFails(c)
  PROVE  SessionsInv'
<1> DEFINE r == [[loop[c] EXCEPT !.thing = NoThing] EXCEPT !.pc = "ready", !.quiet = 0]
<1>1. loop \in [Peer -> HandlerRecord] /\ loop[c] \in HandlerRecord
  BY DEF SessionsInv, SessionTypeOK, HandlerRecord
<1>2. loop[c].handle \notin Session
  BY SessionAssumption DEF SessionsInv, InHand, AttachFails, HandlerRecord
<1>3. r \in HandlerRecord
  BY <1>1, ZeroCounts DEF HandlerRecord
<1>4. loop' = [loop EXCEPT ![c] = r]
  BY DEF AttachFails, NextTurn
<1>5. /\ r.pc = "ready" /\ r.tracked = loop[c].tracked /\ r.thing = NoThing
      /\ r.handle = loop[c].handle /\ r.expired = loop[c].expired
  BY <1>1 DEF HandlerRecord
<1> HIDE DEF r
<1>6. Turns(c, "ready", loop[c].tracked, NoThing,
            loop[c].handle, loop[c].expired)
  BY <1>1, <1>3, <1>4, <1>5, RecordTurns
<1>7. UNCHANGED <<now, sessions, monitor, held, late, ends>>
  BY DEF AttachFails
<1> QED
  BY <1>1, <1>2, <1>6, <1>7, QuietTurn, SessionAssumption DEF SessionsInv, AttachFails,
         Due, HandlerRecord, InHand, HeldIsAccountedFor

\* The device left before its session was registered.
LEMMA DeviceIsGoneStep ==
  ASSUME SessionsInv, NEW c \in Peer, NEW h \in Session, DeviceIsGone(c, h)
  PROVE  SessionsInv'
<1> DEFINE r == [[loop[c] EXCEPT !.tracked = @ \ {h}] EXCEPT !.pc = "ready", !.quiet = 0]
<1>1. loop \in [Peer -> HandlerRecord] /\ loop[c] \in HandlerRecord
  BY DEF SessionsInv, SessionTypeOK, HandlerRecord
<1>2. loop[c].handle \notin Session
  BY SessionAssumption DEF SessionsInv, InHand, DeviceIsGone, HandlerRecord
<1>3. r \in HandlerRecord
  BY <1>1, ZeroCounts DEF HandlerRecord
<1>4. loop' = [loop EXCEPT ![c] = r]
  BY DEF DeviceIsGone, NextTurn
<1>5. /\ r.pc = "ready" /\ r.tracked = loop[c].tracked \ {h} /\ r.thing = loop[c].thing
      /\ r.handle = loop[c].handle /\ r.expired = loop[c].expired
  BY <1>1 DEF HandlerRecord
<1> HIDE DEF r
<1>6. Turns(c, "ready", loop[c].tracked \ {h}, loop[c].thing,
            loop[c].handle, loop[c].expired)
  BY <1>1, <1>3, <1>4, <1>5, RecordTurns
<1>7. UNCHANGED <<now, sessions, monitor, held, late, ends>>
  BY DEF DeviceIsGone
<1> QED
  BY <1>1, <1>2, <1>6, <1>7, QuietTurn, SessionAssumption DEF SessionsInv, DeviceIsGone,
         Due, HandlerRecord, InHand, HeldIsAccountedFor

\* The timer of a handler finds the sessions that are over.
LEMMA TimerFiresStep ==
  ASSUME SessionsInv, NEW c \in Peer, TimerFires(c)
  PROVE  SessionsInv'
<1> DEFINE p == IF loop[c].idle > IdleLimit THEN "cleanup" ELSE "expire"
           E == IF loop[c].idle > IdleLimit THEN {} ELSE ExpiredSessions
<1> DEFINE r == [loop[c] EXCEPT !.pc = p, !.expired = E]
<1>1. loop \in [Peer -> HandlerRecord] /\ loop[c] \in HandlerRecord
  BY DEF SessionsInv, SessionTypeOK, HandlerRecord
<1>2. loop[c].handle \notin Session
  BY SessionAssumption DEF SessionsInv, InHand, TimerFires, HandlerRecord
<1>3. r \in HandlerRecord
  BY <1>1, ZeroCounts, ExpiredHaveEnded DEF HandlerRecord, SessionsInv
<1>4. loop' = [loop EXCEPT ![c] = r]
  BY DEF TimerFires
<1>5. /\ r.pc = p /\ r.tracked = loop[c].tracked /\ r.thing = loop[c].thing
      /\ r.handle = loop[c].handle /\ r.expired = E
  BY <1>1 DEF HandlerRecord
<1> HIDE DEF r
<1>6. Turns(c, p, loop[c].tracked, loop[c].thing,
            loop[c].handle, E)
  BY <1>1, <1>3, <1>4, <1>5, RecordTurns
<1>7. UNCHANGED <<now, sessions, monitor, held, late, ends>>
  BY DEF TimerFires
<1> QED
  BY <1>1, <1>2, <1>6, <1>7, QuietTurn, SessionAssumption, ExpiredHaveEnded
     DEF SessionsInv, TimerFires, Due, HandlerRecord, InHand, HeldIsAccountedFor

\* The handler takes the next expired session.
LEMMA ForceDetachStep ==
  ASSUME SessionsInv, NEW c \in Peer, NEW h \in Session, ForceDetach(c, h)
  PROVE  SessionsInv'
<1> DEFINE r == [loop[c] EXCEPT !.pc = "detach", !.handle = h, !.tracked = @ \ {h}, !.expired = @ \ {h}]
<1>1. loop \in [Peer -> HandlerRecord] /\ loop[c] \in HandlerRecord
  BY DEF SessionsInv, SessionTypeOK, HandlerRecord
<1>2. loop[c].handle \notin Session
  BY SessionAssumption DEF SessionsInv, InHand, ForceDetach, HandlerRecord
<1>3. r \in HandlerRecord
  BY <1>1, ZeroCounts DEF HandlerRecord
<1>4. loop' = [loop EXCEPT ![c] = r]
  BY DEF ForceDetach
<1>5. /\ r.pc = "detach" /\ r.tracked = loop[c].tracked \ {h} /\ r.thing = loop[c].thing
      /\ r.handle = h /\ r.expired = loop[c].expired \ {h}
  BY <1>1 DEF HandlerRecord
<1> HIDE DEF r
<1>6. Turns(c, "detach", loop[c].tracked \ {h}, loop[c].thing,
            h, loop[c].expired \ {h})
  BY <1>1, <1>3, <1>4, <1>5, RecordTurns
<1>7. UNCHANGED <<now, sessions, monitor, held, late, ends>>
  BY DEF ForceDetach
<1>8. HasEnded(h) /\ h \in loop[c].tracked \ (loop[c].tracked \ {h})
  BY DEF SessionsInv, Due, ForceDetach
<1>9. \A e \in loop[c].expired \ {h} : HasEnded(e)
  BY DEF SessionsInv, Due
<1>10. \A e \in loop[c].tracked \ (loop[c].tracked \ {h}) : e = h
  OBVIOUS
<1> QED
  BY <1>2, <1>6, <1>7, <1>8, <1>9, <1>10, QuietTurn

\* No expired session is left.
LEMMA ExpiryDoneStep ==
  ASSUME SessionsInv, NEW c \in Peer, ExpiryDone(c)
  PROVE  SessionsInv'
<1> DEFINE r == [[loop[c] EXCEPT !.expired = {}] EXCEPT !.pc = "ready", !.quiet = 0]
<1>1. loop \in [Peer -> HandlerRecord] /\ loop[c] \in HandlerRecord
  BY DEF SessionsInv, SessionTypeOK, HandlerRecord
<1>2. loop[c].handle \notin Session
  BY SessionAssumption DEF SessionsInv, InHand, ExpiryDone, HandlerRecord
<1>3. r \in HandlerRecord
  BY <1>1, ZeroCounts DEF HandlerRecord
<1>4. loop' = [loop EXCEPT ![c] = r]
  BY DEF ExpiryDone, NextTurn
<1>5. /\ r.pc = "ready" /\ r.tracked = loop[c].tracked /\ r.thing = loop[c].thing
      /\ r.handle = loop[c].handle /\ r.expired = {}
  BY <1>1 DEF HandlerRecord
<1> HIDE DEF r
<1>6. Turns(c, "ready", loop[c].tracked, loop[c].thing,
            loop[c].handle, {})
  BY <1>1, <1>3, <1>4, <1>5, RecordTurns
<1>7. UNCHANGED <<now, sessions, monitor, held, late, ends>>
  BY DEF ExpiryDone
<1> QED
  BY <1>1, <1>2, <1>6, <1>7, QuietTurn, SessionAssumption DEF SessionsInv, ExpiryDone, Due,
         HandlerRecord, InHand, HeldIsAccountedFor

\* A client is gone: its handler goes on to clean up.
LEMMA PeerLostStep ==
  ASSUME SessionsInv, NEW c \in Peer, PeerLost(c)
  PROVE  SessionsInv'
<1> DEFINE r == [loop[c] EXCEPT !.pc = "cleanup"]
<1>1. loop \in [Peer -> HandlerRecord] /\ loop[c] \in HandlerRecord
  BY DEF SessionsInv, SessionTypeOK, HandlerRecord
<1>2. loop[c].handle \notin Session
  BY SessionAssumption DEF SessionsInv, InHand, PeerLost, HandlerRecord
<1>3. r \in HandlerRecord
  BY <1>1, ZeroCounts DEF HandlerRecord
<1>4. loop' = [loop EXCEPT ![c] = r]
  BY DEF PeerLost
<1>5. /\ r.pc = "cleanup" /\ r.tracked = loop[c].tracked /\ r.thing = loop[c].thing
      /\ r.handle = loop[c].handle /\ r.expired = loop[c].expired
  BY <1>1 DEF HandlerRecord
<1> HIDE DEF r
<1>6. Turns(c, "cleanup", loop[c].tracked, loop[c].thing,
            loop[c].handle, loop[c].expired)
  BY <1>1, <1>3, <1>4, <1>5, RecordTurns
<1>7. UNCHANGED <<now, sessions, monitor, held, late, ends>>
  BY DEF PeerLost
<1> QED
  BY <1>1, <1>2, <1>6, <1>7, QuietTurn, SessionAssumption DEF SessionsInv, PeerLost, Due,
         HandlerRecord, InHand, HeldIsAccountedFor

\* The handler has cleaned up.
LEMMA CleanupDoneStep ==
  ASSUME SessionsInv, NEW c \in Peer, CleanupDone(c)
  PROVE  SessionsInv'
<1> DEFINE r == NoLoop
<1>1. loop \in [Peer -> HandlerRecord] /\ loop[c] \in HandlerRecord
  BY DEF SessionsInv, SessionTypeOK, HandlerRecord
<1>2. loop[c].handle \notin Session
  BY SessionAssumption DEF SessionsInv, InHand, CleanupDone, HandlerRecord
<1>3. r \in HandlerRecord
  BY <1>1, ZeroCounts DEF HandlerRecord, NoLoop
<1>4. loop' = [loop EXCEPT ![c] = r]
  BY DEF CleanupDone
<1>5. /\ r.pc = "off" /\ r.tracked = {} /\ r.thing = NoThing
      /\ r.handle = NoSession /\ r.expired = {}
  BY <1>1 DEF HandlerRecord, NoLoop
<1> HIDE DEF r
<1>6. Turns(c, "off", {}, NoThing,
            NoSession, {})
  BY <1>1, <1>3, <1>4, <1>5, RecordTurns
<1>7. UNCHANGED <<now, sessions, monitor, held, late, ends>>
  BY DEF CleanupDone
<1> QED
  BY <1>1, <1>2, <1>6, <1>7, QuietTurn, SessionAssumption DEF SessionsInv, CleanupDone,
         Due, HandlerRecord, InHand, HeldIsAccountedFor

\* A client asks to detach a device.
LEMMA RequestDetachStep ==
  ASSUME SessionsInv, NEW c \in Peer, NEW h \in Session, RequestDetach(c, h)
  PROVE  SessionsInv'
<1>1. loop \in [Peer -> HandlerRecord] /\ loop[c] \in HandlerRecord
  BY DEF SessionsInv, SessionTypeOK, HandlerRecord
<1>2. loop[c].handle \notin Session
  BY SessionAssumption DEF SessionsInv, InHand, RequestDetach, HandlerRecord
<1>3. CASE held[h] # NoPeer
  <2> DEFINE r == [loop[c] EXCEPT !.pc = "unregister", !.handle = h, !.idle = 0, !.tracked = @ \ {h}]
  <2>1. r \in HandlerRecord
    BY <1>1, ZeroCounts DEF HandlerRecord
  <2>2. loop' = [loop EXCEPT ![c] = r] /\ held' = [held EXCEPT ![h] = NoPeer]
    BY <1>3 DEF RequestDetach
  <2>3. /\ r.pc = "unregister" /\ r.tracked = loop[c].tracked \ {h} /\ r.thing = loop[c].thing
        /\ r.handle = h /\ r.expired = loop[c].expired
    BY <1>1 DEF HandlerRecord
  <2> HIDE DEF r
  <2>4. Turns(c, "unregister", loop[c].tracked \ {h}, loop[c].thing, h, loop[c].expired)
    BY <1>1, <2>1, <2>2, <2>3, RecordTurns
  <2>5. /\ held \in [Session -> Peer \cup {NoPeer}] /\ late \subseteq Session
        /\ loop[c].pc = "ready"
        /\ UNCHANGED <<now, sessions, monitor, late, ends>>
    BY DEF SessionsInv, SessionTypeOK, RequestDetach
  <2>6. /\ held' \in [Session -> Peer \cup {NoPeer}] /\ \A x \in Session : held'[x] \in {held[x], NoPeer}
        /\ held'[h] = NoPeer
    BY <2>2, <2>5
  <2>7. Registered' = Registered /\ \A x \in Registered' : sessions'[x] = sessions[x]
    BY <2>5 DEF Registered
  <2>8. \A x \in Session :
          held'[x] = c /\ x \in loop[c].tracked \cup {loop[c].handle} =>
            x \in (loop[c].tracked \ {h}) \cup {h} \cup late'
    BY <1>2
  <2>9. \A x \in loop[c].expired : HasEnded(x)
    BY DEF SessionsInv, Due
  <2>10. Registered \ Registered' \subseteq {loop[c].handle}
    BY <2>7
  <2>11. late \subseteq late' /\ late' \subseteq Session
    BY <2>5
  <2>12. h \notin loop[c].tracked \ {h}
    OBVIOUS
  <2> QED
    BY <2>4, <2>5, <2>6, <2>7, <2>8, <2>9, <2>10, <2>11, <2>12, HandlerTurn
<1>4. CASE held[h] = NoPeer
  <2> DEFINE r == [[loop[c] EXCEPT !.idle = 0] EXCEPT !.pc = "ready", !.quiet = 0]
  <2>1. r \in HandlerRecord
    BY <1>1, ZeroCounts DEF HandlerRecord
  <2>2. loop' = [loop EXCEPT ![c] = r] /\ UNCHANGED <<now, sessions, monitor, held, late,
                                                      ends>>
    BY <1>4 DEF RequestDetach, NextTurn
  <2>3. /\ r.pc = "ready" /\ r.tracked = loop[c].tracked /\ r.thing = loop[c].thing
        /\ r.handle = loop[c].handle /\ r.expired = loop[c].expired
    BY <1>1 DEF HandlerRecord
  <2> HIDE DEF r
  <2>4. Turns(c, "ready", loop[c].tracked, loop[c].thing, loop[c].handle, loop[c].expired)
    BY <1>1, <2>1, <2>2, <2>3, RecordTurns
  <2> QED
    BY <1>2, <2>2, <2>4, QuietTurn DEF SessionsInv, Due
<1> QED
  BY <1>3, <1>4

\* The policy engine forgets the session of the device detached.
LEMMA UnregisterSessionStep ==
  ASSUME SessionsInv, NEW c \in Peer, UnregisterSession(c)
  PROVE  SessionsInv'
<1> DEFINE r == [[loop[c] EXCEPT !.handle = NoSession] EXCEPT !.pc = "ready", !.quiet = 0]
<1>1. loop \in [Peer -> HandlerRecord] /\ loop[c] \in HandlerRecord
  BY DEF SessionsInv, SessionTypeOK, HandlerRecord
<1>2. r \in HandlerRecord
  BY <1>1, ZeroCounts DEF HandlerRecord
<1>3. /\ loop' = [loop EXCEPT ![c] = r] /\ sessions' = Without(sessions, loop[c].handle)
      /\ UNCHANGED <<now, monitor, held, late, ends>> /\ loop[c].pc = "unregister"
  BY DEF UnregisterSession, NextTurn
<1>4. /\ r.pc = "ready" /\ r.tracked = loop[c].tracked /\ r.thing = loop[c].thing
      /\ r.handle = NoSession /\ r.expired = loop[c].expired
  BY <1>1 DEF HandlerRecord
<1> HIDE DEF r
<1>5. Turns(c, "ready", loop[c].tracked, loop[c].thing, NoSession, loop[c].expired)
  BY <1>1, <1>2, <1>3, <1>4, RecordTurns
<1>6. /\ held' \in [Session -> Peer \cup {NoPeer}] /\ \A x \in Session : held'[x] \in {held[x], NoPeer}
      /\ late \subseteq late' /\ late' \subseteq Session
  BY <1>3 DEF SessionsInv, SessionTypeOK
<1>7. /\ Registered' = Registered \ {loop[c].handle}
      /\ \A x \in Registered' : sessions'[x] = sessions[x]
  BY <1>3 DEF Registered, Without
<1>8. loop[c].handle \in Session /\ held[loop[c].handle] = NoPeer
  BY <1>3 DEF SessionsInv, InHand
<1>9. \A x \in Session :
        held'[x] = c /\ x \in loop[c].tracked \cup {loop[c].handle} =>
          x \in loop[c].tracked \cup {NoSession} \cup late'
  BY <1>3, <1>8, SessionAssumption
<1>10. \A x \in loop[c].expired : HasEnded(x)
  BY DEF SessionsInv, Due
<1>11. Registered' \subseteq Registered /\ Registered \ Registered' \subseteq {loop[c].handle}
  BY <1>7
<1>12. NoSession \notin Session
  BY SessionAssumption
<1>13. NoSession \notin loop[c].tracked
  BY <1>1, SessionAssumption DEF HandlerRecord
<1> QED
  BY <1>3, <1>5, <1>6, <1>7, <1>9, <1>10, <1>11, <1>12, <1>13, HandlerTurn

\* The USB side has detached an expired session.
LEMMA ForcedDetachEndsStep ==
  ASSUME SessionsInv, NEW c \in Peer, NEW inTime \in BOOLEAN, ForcedDetachEnds(c, inTime)
  PROVE  SessionsInv'
<1> DEFINE r == [loop[c] EXCEPT !.pc = "expire", !.handle = NoSession]
           h == loop[c].handle
<1>1. loop \in [Peer -> HandlerRecord] /\ loop[c] \in HandlerRecord
  BY DEF SessionsInv, SessionTypeOK, HandlerRecord
<1>2. r \in HandlerRecord
  BY <1>1 DEF HandlerRecord
<1>3. /\ loop' = [loop EXCEPT ![c] = r] /\ sessions' = Without(sessions, h)
      /\ UNCHANGED <<now, monitor, ends>> /\ loop[c].pc = "detach"
  BY DEF ForcedDetachEnds
<1>4. /\ r.pc = "expire" /\ r.tracked = loop[c].tracked /\ r.thing = loop[c].thing
      /\ r.handle = NoSession /\ r.expired = loop[c].expired
  BY <1>1 DEF HandlerRecord
<1> HIDE DEF r
<1>5. Turns(c, "expire", loop[c].tracked, loop[c].thing, NoSession, loop[c].expired)
  BY <1>1, <1>2, <1>3, <1>4, RecordTurns
<1>6. h \in Session
  BY <1>3 DEF SessionsInv, InHand
<1>7. /\ \/ held' = [held EXCEPT ![h] = NoPeer] /\ late' = late
         \/ held' = held /\ late' = late \cup {h}
      /\ held \in [Session -> Peer \cup {NoPeer}] /\ late \subseteq Session
  BY DEF ForcedDetachEnds, SessionsInv, SessionTypeOK
<1>8. /\ held' \in [Session -> Peer \cup {NoPeer}] /\ \A x \in Session : held'[x] \in {held[x], NoPeer}
      /\ late \subseteq late' /\ late' \subseteq Session
      /\ held'[h] = NoPeer \/ h \in late'
  BY <1>6, <1>7
<1>9. Registered' = Registered \ {h} /\ \A x \in Registered' : sessions'[x] = sessions[x]
  BY <1>3 DEF Registered, Without
<1>10. \A x \in Session :
         held'[x] = c /\ x \in loop[c].tracked \cup {loop[c].handle} =>
           x \in loop[c].tracked \cup {NoSession} \cup late'
  BY <1>8, SessionAssumption
<1>11. \A x \in loop[c].expired : HasEnded(x)
  BY DEF SessionsInv, Due
<1>12. Registered' \subseteq Registered /\ Registered \ Registered' \subseteq {loop[c].handle}
  BY <1>9
<1>13. NoSession \notin Session
  BY SessionAssumption
<1>14. NoSession \notin loop[c].tracked
  BY <1>1, SessionAssumption DEF HandlerRecord
<1> QED
  BY <1>3, <1>5, <1>8, <1>9, <1>10, <1>11, <1>12, <1>13, <1>14, HandlerTurn

\* The cleanup detaches a device.
LEMMA CleanupDetachStep ==
  ASSUME SessionsInv, NEW c \in Peer, NEW h \in Session, CleanupDetach(c, h)
  PROVE  SessionsInv'
<1> DEFINE r == [loop[c] EXCEPT !.tracked = @ \ {h}]
<1>1. loop \in [Peer -> HandlerRecord] /\ loop[c] \in HandlerRecord
  BY DEF SessionsInv, SessionTypeOK, HandlerRecord
<1>2. r \in HandlerRecord
  BY <1>1 DEF HandlerRecord
<1>3. /\ loop' = [loop EXCEPT ![c] = r] /\ held' = [held EXCEPT ![h] = NoPeer]
      /\ UNCHANGED <<now, sessions, monitor, late, ends>> /\ loop[c].pc = "cleanup"
  BY DEF CleanupDetach
<1>4. /\ r.pc = "cleanup" /\ r.tracked = loop[c].tracked \ {h} /\ r.thing = loop[c].thing
      /\ r.handle = loop[c].handle /\ r.expired = loop[c].expired
  BY <1>1, <1>3 DEF HandlerRecord
<1> HIDE DEF r
<1>5. Turns(c, "cleanup", loop[c].tracked \ {h}, loop[c].thing, loop[c].handle, loop[c].expired)
  BY <1>1, <1>2, <1>3, <1>4, RecordTurns
<1>6. loop[c].handle \notin Session
  BY <1>3 DEF SessionsInv, InHand
<1>7. held \in [Session -> Peer \cup {NoPeer}] /\ late \subseteq Session
  BY DEF SessionsInv, SessionTypeOK
<1>8. /\ held' \in [Session -> Peer \cup {NoPeer}] /\ \A x \in Session : held'[x] \in {held[x], NoPeer}
      /\ late \subseteq late' /\ late' \subseteq Session
      /\ held'[h] = NoPeer
  BY <1>3, <1>7
<1>9. Registered' = Registered /\ \A x \in Registered' : sessions'[x] = sessions[x]
  BY <1>3 DEF Registered
<1>10. \A x \in Session :
         held'[x] = c /\ x \in loop[c].tracked \cup {loop[c].handle} =>
           x \in (loop[c].tracked \ {h}) \cup {loop[c].handle} \cup late'
  BY <1>8, SessionAssumption
<1>11. \A x \in loop[c].expired : HasEnded(x)
  BY DEF SessionsInv, Due
<1>12. Registered' \subseteq Registered /\ Registered \ Registered' \subseteq {loop[c].handle}
  BY <1>9
<1>13. loop[c].handle \notin loop[c].tracked
  BY <1>1, <1>6 DEF HandlerRecord
<1> QED
  BY <1>3, <1>5, <1>6, <1>8, <1>9, <1>10, <1>11, <1>12, <1>13, HandlerTurn

\* The monitor and the USB thread: they let go of ended sessions and of handles.
LEMMA OutsideTurn ==
  ASSUME SessionsInv, UNCHANGED <<now, loop, ends>>,
         held' \in [Session -> Peer \cup {NoPeer}],
         \A h \in Session : held'[h] \in {held[h], NoPeer},
         late' \subseteq late,
         \A h \in late \ late' : held'[h] = NoPeer,
         monitor' \subseteq Session,
         \A h \in monitor' : HasEnded(h),
         Registered' \subseteq Registered,
         \A h \in Registered' : sessions'[h] = sessions[h],
         \A h \in Registered \ Registered' : HasEnded(h)
  PROVE  SessionsInv'
<1> USE DEF SessionsInv
<1>1. SessionTypeOK'
  <2>1. /\ now' \in 0 .. MaxNow /\ ends' \in [Session -> Nat \cup {Unlimited, NotBegun}]
        /\ late' \subseteq Session /\ Registered' \subseteq Session
    BY DEF SessionTypeOK
  <2>2. loop' \in [Peer -> HandlerRecord]
    BY DEF SessionTypeOK, HandlerRecord
  <2>3. ASSUME NEW h \in Registered'
        PROVE  sessions'[h] \in [client : Peer, thing : Thing, startedAt : Nat,
                                 maxDuration : Nat \cup {Unlimited},
                                 windowExpiresAt : Nat \cup {Unlimited}]
    BY DEF SessionTypeOK
  <2> QED
    BY <2>1, <2>2, <2>3 DEF SessionTypeOK, HandlerRecord
<1>2. EndsKnown'
  BY DEF EndsKnown, EndOf
<1>3. Due'
  BY DEF Due, HasEnded
<1>4. InHand'
  <2>1. \A d \in Peer : loop[d].pc = "unregister" => loop[d].handle \in Session
    BY DEF InHand
  <2> QED
    BY <2>1 DEF InHand
<1>5. TrackedAlone'
  <2>1. \A d \in Peer : loop[d].tracked \subseteq Session
    BY DEF SessionTypeOK
  <2> QED
    BY <2>1 DEF TrackedAlone, InHandOf
<1>6. SessionKept'
  BY DEF SessionKept, HasEnded
<1>7. WindowRespected'
  BY DEF WindowRespected
<1>8. HeldIsAccountedFor'
  <2> SUFFICES ASSUME NEW d \in Peer, NEW h \in Session, held'[h] = d
               PROVE  h \in loop'[d].tracked \cup {loop'[d].handle} \cup late'
    BY DEF HeldIsAccountedFor
  <2>1. held[h] = d /\ held'[h] # NoPeer
    BY SessionAssumption
  <2>2. h \in loop[d].tracked \cup {loop[d].handle} \cup late
    BY <2>1 DEF HeldIsAccountedFor
  <2> QED
    BY <2>1, <2>2
<1> QED
  BY <1>1, <1>2, <1>3, <1>4, <1>5, <1>6, <1>7, <1>8

\* What happens beside the handlers.
LEMMA OutsideStep ==
  ASSUME SessionsInv, NEW h \in Session,
         MonitorScans \/ MonitorForgets(h) \/ LateDetach(h) \/ Unplugged(h)
  PROVE  SessionsInv'
<1>1. /\ held \in [Session -> Peer \cup {NoPeer}] /\ late \subseteq Session /\ monitor \subseteq Session
      /\ \A x \in monitor : HasEnded(x)
  BY DEF SessionsInv, SessionTypeOK, Due
<1>2. CASE MonitorScans
  BY <1>1, <1>2, ExpiredHaveEnded, OutsideTurn DEF MonitorScans, SessionsInv, Registered
<1>3. CASE MonitorForgets(h)
  <2>1. Registered' = Registered \ {h} /\ \A x \in Registered' : sessions'[x] = sessions[x]
    BY <1>3 DEF MonitorForgets, Registered, Without
  <2>2. h \in monitor /\ monitor' = monitor \ {h} /\ UNCHANGED <<now, loop, held, late,
                                                                 ends>>
    BY <1>3 DEF MonitorForgets
  <2> QED
    BY <1>1, <2>1, <2>2, OutsideTurn
<1>4. CASE LateDetach(h)
  BY <1>1, <1>4, OutsideTurn DEF LateDetach, Registered
<1>5. CASE Unplugged(h)
  BY <1>1, <1>5, OutsideTurn DEF Unplugged, Registered
<1> QED
  BY <1>2, <1>3, <1>4, <1>5

\* Time passes: sessions end.
LEMMA TimePassesStep ==
  ASSUME SessionsInv, TimePasses
  PROVE  SessionsInv'
<1> USE DEF SessionsInv
<1>1. /\ now \in 0 .. MaxNow /\ now < MaxNow /\ now' = now + 1 /\ MaxNow \in Nat
      /\ UNCHANGED <<sessions, monitor, held, late, ends>>
  BY SessionAssumption DEF SessionTypeOK, TimePasses
<1>2. \A h \in Session : HasEnded(h) => HasEnded(h)'
  BY <1>1 DEF HasEnded
<1>3. loop \in [Peer -> HandlerRecord]
  BY DEF SessionTypeOK, HandlerRecord
<1>4. ASSUME NEW d \in Peer
      PROVE  /\ loop'[d] \in HandlerRecord /\ loop'[d].pc = loop[d].pc
             /\ loop'[d].tracked = loop[d].tracked /\ loop'[d].thing = loop[d].thing
             /\ loop'[d].handle = loop[d].handle /\ loop'[d].expired = loop[d].expired
  <2> DEFINE r == [loop[d] EXCEPT !.idle = Capped(@, IdleLimit + 1),
                            !.quiet = IF loop[d].pc = "ready" THEN Capped(@, TimerPeriod) ELSE @]
  <2>1. loop'[d] = IF loop[d].pc = "off" THEN loop[d] ELSE r
    BY DEF TimePasses
  <2>2. loop[d] \in HandlerRecord
    BY <1>3
  <2>3. /\ Capped(loop[d].idle, IdleLimit + 1) \in 0 .. (IdleLimit + 1)
        /\ Capped(loop[d].quiet, TimerPeriod) \in 0 .. TimerPeriod
    <3>1. /\ loop[d].idle \in 0 .. (IdleLimit + 1) /\ loop[d].quiet \in 0 .. TimerPeriod
          /\ IdleLimit \in Nat /\ TimerPeriod \in Nat
      BY <2>2, SessionAssumption DEF HandlerRecord
    <3> QED
      BY <3>1 DEF Capped
  <2>4. /\ r \in HandlerRecord /\ r.pc = loop[d].pc
        /\ r.tracked = loop[d].tracked /\ r.thing = loop[d].thing
        /\ r.handle = loop[d].handle /\ r.expired = loop[d].expired
    BY <2>2, <2>3 DEF HandlerRecord
  <2> QED
    BY <2>1, <2>2, <2>4
<1>5. loop' \in [Peer -> HandlerRecord]
  <2>1. loop' = [d \in Peer |-> loop'[d]]
    BY DEF TimePasses
  <2> QED
    BY <1>4, <2>1
<1>6. SessionTypeOK'
  BY <1>1, <1>5 DEF SessionTypeOK, HandlerRecord, Registered
<1>7. EndsKnown'
  BY <1>1 DEF EndsKnown, Registered, EndOf
<1>8. Due'
  <2>1. \A h \in monitor' : HasEnded(h)'
    BY <1>1, <1>2 DEF Due, SessionTypeOK
  <2>2. ASSUME NEW d \in Peer PROVE \A h \in loop'[d].expired : HasEnded(h)'
    BY <1>2, <1>3, <1>4 DEF Due, HandlerRecord
  <2>3. ASSUME NEW d \in Peer, loop'[d].pc = "detach" PROVE HasEnded(loop[d].handle)'
    <3>1. loop[d].handle \in Session /\ HasEnded(loop[d].handle)
      BY <1>4, <2>3 DEF Due, InHand
    <3>2. loop'[d].handle = loop[d].handle
      BY <1>4
    <3> QED
      BY <1>2, <3>1, <3>2 DEF HasEnded
  <2> QED
    BY <2>1, <2>2, <2>3 DEF Due
<1>9. InHand'
  BY <1>1, <1>4 DEF InHand
<1>10. TrackedAlone'
  BY <1>1, <1>4 DEF TrackedAlone, InHandOf
<1>11. SessionKept'
  BY <1>1, <1>2 DEF SessionKept, Registered
<1>12. WindowRespected'
  BY <1>1 DEF WindowRespected, Registered
<1>13. HeldIsAccountedFor'
  BY <1>1, <1>4 DEF HeldIsAccountedFor
<1> QED
  BY <1>6, <1>7, <1>8, <1>9, <1>10, <1>11, <1>12, <1>13

\* The USB side attaches the device under a new handle.
LEMMA AttachSucceedsStep ==
  ASSUME SessionsInv, NEW c \in Peer, NEW h \in Session, AttachSucceeds(c, h)
  PROVE  SessionsInv'
<1> USE DEF SessionsInv
<1> DEFINE r == [loop[c] EXCEPT !.pc = "register", !.handle = h, !.tracked = @ \cup {h}]
<1>1. loop \in [Peer -> HandlerRecord] /\ loop[c] \in HandlerRecord
  BY DEF SessionTypeOK, HandlerRecord
<1>2. /\ loop' = [loop EXCEPT ![c] = r] /\ held' = [held EXCEPT ![h] = c]
      /\ UNCHANGED <<now, sessions, monitor, late, ends>> /\ loop[c].pc = "attach"
      /\ ends[h] = NotBegun /\ \A d \in Peer : loop[d].handle # h
  BY DEF AttachSucceeds
<1>3. r \in HandlerRecord
  BY <1>1 DEF HandlerRecord
<1>4. /\ r.pc = "register" /\ r.tracked = loop[c].tracked \cup {h} /\ r.thing = loop[c].thing
      /\ r.handle = h /\ r.expired = loop[c].expired
  BY <1>1 DEF HandlerRecord
<1> HIDE DEF r
<1>5. Turns(c, "register", loop[c].tracked \cup {h}, loop[c].thing, h, loop[c].expired)
  BY <1>1, <1>2, <1>3, <1>4, RecordTurns
<1>6. /\ loop' \in [Peer -> HandlerRecord] /\ \A d \in Peer \ {c} : loop'[d] = loop[d]
      /\ loop'[c].pc = "register" /\ loop'[c].tracked = loop[c].tracked \cup {h}
      /\ loop'[c].thing = loop[c].thing /\ loop'[c].handle = h /\ loop'[c].expired = loop[c].expired
  BY <1>5 DEF Turns
<1>7. /\ held \in [Session -> Peer \cup {NoPeer}]
      /\ held' \in [Session -> Peer \cup {NoPeer}] /\ held'[h] = c
      /\ \A x \in Session \ {h} : held'[x] = held[x]
  BY <1>2 DEF SessionTypeOK
<1>8. loop[c].handle \notin Session /\ loop[c].thing \in Thing
  BY <1>2 DEF InHand
<1>9. \A d \in Peer : h \notin loop[d].tracked
  BY <1>2 DEF TrackedAlone
<1>10. SessionTypeOK'
  <2>1. now' \in 0 .. MaxNow /\ monitor' \subseteq Session /\ ends' \in [Session -> Nat \cup {Unlimited, NotBegun}]
        /\ late' \subseteq Session
    BY <1>2 DEF SessionTypeOK
  <2>2. Registered' \subseteq Session
    BY <1>2 DEF SessionTypeOK, Registered
  <2>3. \A x \in Registered' : sessions'[x] \in [client : Peer, thing : Thing, startedAt : Nat,
                                 maxDuration : Nat \cup {Unlimited},
                                 windowExpiresAt : Nat \cup {Unlimited}]
    BY <1>2 DEF SessionTypeOK, Registered
  <2> QED
    BY <1>6, <1>7, <2>1, <2>2, <2>3 DEF SessionTypeOK, HandlerRecord
<1>11. EndsKnown'
  BY <1>2 DEF EndsKnown, EndOf, Registered
<1>12. Due'
  BY <1>2, <1>6 DEF Due, HasEnded
<1>13. InHand'
  <2>1. \A d \in Peer : loop[d].pc = "unregister" => loop[d].handle \in Session \ {h}
    BY <1>2 DEF InHand
  <2> SUFFICES ASSUME NEW d \in Peer
               PROVE  /\ loop'[d].pc \in {"register", "unregister", "detach"} <=> loop'[d].handle \in Session
                      /\ loop'[d].pc \in {"attach", "register"} => loop'[d].thing \in Thing
                      /\ loop'[d].pc = "off" => loop'[d].tracked = {}
                      /\ loop'[d].pc = "register" =>
                           loop'[d].handle \in loop'[d].tracked /\ ends'[loop'[d].handle] = NotBegun
                      /\ loop'[d].pc = "unregister" => held'[loop'[d].handle] = NoPeer
    BY DEF InHand
  <2>2. CASE d = c
    BY <1>2, <1>6, <1>8, <2>2
  <2>3. CASE d # c
    <3>1. loop'[d] = loop[d] /\ ends' = ends
      BY <1>2, <1>6, <2>3
    <3> QED
      BY <1>7, <2>1, <3>1 DEF InHand
  <2> QED
    BY <2>2, <2>3
<1>14. TrackedAlone'
  <2> SUFFICES ASSUME NEW d \in Peer, NEW x \in loop'[d].tracked
               PROVE  /\ held'[x] \in {d, NoPeer}
                      /\ ends'[x] = NotBegun => loop'[d].handle = x
                      /\ \A e \in Peer \ {d} : x \notin loop'[e].tracked
                      /\ \A e \in Peer : loop'[e].handle = x =>
                           IF e = d THEN loop'[d].pc = "register" ELSE loop'[e].pc = "unregister"
    BY DEF TrackedAlone, InHandOf
  <2>0. x \in Session
    BY <1>6 DEF HandlerRecord
  <2>1. CASE x = h
    <3>1. d = c
      BY <1>6, <1>9, <2>1
    <3> QED
      BY <1>2, <1>6, <1>7, <1>9, <2>1, <3>1
  <2>2. CASE x # h
    <3>1. x \in loop[d].tracked
      BY <1>6, <2>2
    <3>2. /\ held[x] \in {d, NoPeer}
          /\ ends[x] = NotBegun => loop[d].handle = x
          /\ \A e \in Peer \ {d} : x \notin loop[e].tracked
          /\ \A e \in Peer : loop[e].handle = x =>
               IF e = d THEN loop[d].pc = "register" ELSE loop[e].pc = "unregister"
      BY <3>1 DEF TrackedAlone, InHandOf
    <3>3. held'[x] = held[x] /\ ends' = ends
      BY <1>2, <1>7, <2>0, <2>2
    <3>4. ends[x] # NotBegun \/ d # c
      BY <1>8, <2>0, <3>2
    <3>5. \A e \in Peer : loop'[e].handle = x => e # c /\ loop[e].handle = x
      BY <1>6, <2>2
    <3>6. \A e \in Peer : loop'[e].handle = x =>
            IF e = d THEN loop'[d].pc = "register" ELSE loop'[e].pc = "unregister"
      BY <1>6, <3>2, <3>5
    <3>7. ends'[x] = NotBegun => loop'[d].handle = x
      BY <1>6, <3>2, <3>3, <3>4
    <3>8. \A e \in Peer \ {d} : x \notin loop'[e].tracked
      BY <1>6, <2>2, <3>2
    <3> QED
      BY <3>2, <3>3, <3>6, <3>7, <3>8
  <2> QED
    BY <2>1, <2>2
<1>15. SessionKept'
  BY <1>2, <1>7 DEF SessionKept, HasEnded, Registered
<1>16. WindowRespected'
  BY <1>2 DEF WindowRespected, Registered
<1>17. HeldIsAccountedFor'
  <2> SUFFICES ASSUME NEW d \in Peer, NEW x \in Session, held'[x] = d
               PROVE  x \in loop'[d].tracked \cup {loop'[d].handle} \cup late'
    BY DEF HeldIsAccountedFor
  <2>1. CASE x = h
    BY <1>6, <1>7, <2>1
  <2>2. CASE x # h
    <3>1. x \in loop[d].tracked \cup {loop[d].handle} \cup late
      BY <1>7, <2>2 DEF HeldIsAccountedFor
    <3> QED
      BY <1>2, <1>6, <1>8, <3>1
  <2> QED
    BY <2>1, <2>2
<1> QED
  BY <1>10, <1>11, <1>12, <1>13, <1>14, <1>15, <1>16, <1>17

\* The policy engine registers the session.
LEMMA RegisterSessionStep ==
  ASSUME SessionsInv, NEW c \in Peer, RegisterSession(c)
  PROVE  SessionsInv'
<1> USE DEF SessionsInv
<1> DEFINE r == [[loop[c] EXCEPT !.thing = NoThing, !.handle = NoSession] EXCEPT !.pc = "ready", !.quiet = 0]
           h == loop[c].handle
           dev == loop[c].thing
           minute == now \div MinuteTicks
           limit == WindowLimit(Policies, dev, minute % Day)
           s == [client |-> c, thing |-> dev, startedAt |-> now,
                 maxDuration |-> DurationLimit(Policies, dev),
                 windowExpiresAt |-> IF limit = Unlimited THEN Unlimited
                                     ELSE now + limit * MinuteTicks]
<1>1. loop \in [Peer -> HandlerRecord] /\ loop[c] \in HandlerRecord
  BY DEF SessionTypeOK, HandlerRecord
<1>2. /\ loop' = [loop EXCEPT ![c] = r] /\ ends' = [ends EXCEPT ![h] = EndOf(s)]
      /\ sessions' = [x \in Registered \cup {h} |-> IF x = h THEN s ELSE sessions[x]]
      /\ UNCHANGED <<now, monitor, held, late>> /\ loop[c].pc = "register"
  BY DEF RegisterSession, NextTurn, TimeOfDay, MinuteOfDay
<1>3. r \in HandlerRecord
  BY <1>1, ZeroCounts DEF HandlerRecord
<1>4. /\ r.pc = "ready" /\ r.tracked = loop[c].tracked /\ r.thing = NoThing
      /\ r.handle = NoSession /\ r.expired = loop[c].expired
  BY <1>1 DEF HandlerRecord
<1> HIDE DEF r
<1>5. Turns(c, "ready", loop[c].tracked, NoThing, NoSession, loop[c].expired)
  BY <1>1, <1>2, <1>3, <1>4, RecordTurns
<1>6. /\ loop' \in [Peer -> HandlerRecord] /\ \A d \in Peer \ {c} : loop'[d] = loop[d]
      /\ loop'[c].pc = "ready" /\ loop'[c].tracked = loop[c].tracked
      /\ loop'[c].handle = NoSession /\ loop'[c].expired = loop[c].expired
  BY <1>5 DEF Turns
<1>7. /\ h \in Session /\ dev \in Thing /\ h \in loop[c].tracked /\ ends[h] = NotBegun
      /\ \A d \in Peer \ {c} : loop[d].handle = h => loop[d].pc = "unregister"
  BY <1>2 DEF InHand, TrackedAlone, InHandOf
<1>8. now \in Nat /\ NoSession \notin Session /\ MinuteTicks \in Nat \ {0} /\ minute \in Nat
  <2>1. now \in Nat /\ NoSession \notin Session /\ MinuteTicks \in Nat \ {0}
    BY SessionAssumption DEF SessionTypeOK
  <2> QED
    BY <2>1
<1>9. /\ DurationLimit(Policies, dev) \in Nat \cup {Unlimited}
      /\ limit \in Nat \cup {Unlimited}
      /\ PolicyFor(Policies, dev) # 0 /\ WindowsAt(minute % Day, Policies[PolicyFor(Policies, dev)].windows) # {} =>
           /\ limit \in Nat \ {0}
           /\ \A b \in minute .. (minute + limit - 1) :
                WindowsAt(b % Day, Policies[PolicyFor(Policies, dev)].windows) # {}
  BY <1>8, LimitsHold
<1>9a. limit \in Nat => now + limit * MinuteTicks \in Nat
  BY <1>8
<1> HIDE DEF limit, dev, h, minute
<1>10. /\ s.client = c /\ s.thing = dev /\ s.startedAt = now /\ s.maxDuration \in Nat \cup {Unlimited}
       /\ s.windowExpiresAt = IF limit = Unlimited THEN Unlimited ELSE now + limit * MinuteTicks
       /\ s.windowExpiresAt \in Nat \cup {Unlimited}
  BY <1>8, <1>9, <1>9a DEF Unlimited
<1>11. s \in [client : Peer, thing : Thing, startedAt : Nat, maxDuration : Nat \cup {Unlimited},
              windowExpiresAt : Nat \cup {Unlimited}]
  BY <1>7, <1>8, <1>10
<1>12. EndOf(s) \in Nat \cup {Unlimited}
  BY <1>8, <1>10, EndsAre
<1> HIDE DEF s
<1>13. /\ Registered' = Registered \cup {h} /\ sessions'[h] = s
       /\ \A x \in Registered \ {h} : sessions'[x] = sessions[x]
  BY <1>2 DEF Registered
<1>14. /\ ends' \in [Session -> Nat \cup {Unlimited, NotBegun}]
       /\ ends'[h] = EndOf(s) /\ ends'[h] # NotBegun
       /\ \A x \in Session \ {h} : ends'[x] = ends[x]
  BY <1>2, <1>7, <1>12 DEF SessionTypeOK, NotBegun, Unlimited
<1>15. \A x \in Session : HasEnded(x) => x # h /\ HasEnded(x)'
  BY <1>2, <1>7, <1>14 DEF HasEnded, NotBegun
<1>16. Registered \subseteq Session
  BY DEF SessionTypeOK
<1>17. SessionTypeOK'
  <2>1. /\ now' \in 0 .. MaxNow /\ monitor' \subseteq Session
        /\ held' \in [Session -> Peer \cup {NoPeer}] /\ late' \subseteq Session
    BY <1>2 DEF SessionTypeOK
  <2>2. Registered' \subseteq Session
    BY <1>7, <1>13, <1>16
  <2>3. \A x \in Registered' : sessions'[x] \in [client : Peer, thing : Thing, startedAt : Nat,
                                 maxDuration : Nat \cup {Unlimited},
                                 windowExpiresAt : Nat \cup {Unlimited}]
    BY <1>11, <1>13 DEF SessionTypeOK
  <2> QED
    BY <1>6, <1>14, <2>1, <2>2, <2>3 DEF SessionTypeOK, HandlerRecord
<1>18. EndsKnown'
  <2> SUFFICES ASSUME NEW x \in Registered' PROVE ends'[x] = EndOf(sessions'[x])
    BY DEF EndsKnown, EndOf
  <2>1. CASE x = h
    BY <1>13, <1>14, <2>1
  <2>2. CASE x # h
    <3>1. x \in Registered /\ x \in Session \ {h} /\ sessions'[x] = sessions[x]
      BY <1>13, <1>16, <2>2
    <3> QED
      BY <1>14, <3>1 DEF EndsKnown
  <2> QED
    BY <2>1, <2>2
<1>19. Due'
  <2>1. \A x \in monitor' : HasEnded(x)'
    BY <1>2, <1>15 DEF Due, SessionTypeOK
  <2>2. ASSUME NEW d \in Peer PROVE \A x \in loop'[d].expired : HasEnded(x)'
    BY <1>1, <1>6, <1>15 DEF Due, HandlerRecord
  <2>3. ASSUME NEW d \in Peer, loop'[d].pc = "detach" PROVE HasEnded(loop[d].handle)'
    <3>1. loop'[d] = loop[d] /\ loop[d].handle \in Session /\ HasEnded(loop[d].handle)
      BY <1>6, <2>3 DEF Due, InHand
    <3> QED
      BY <1>15, <3>1 DEF HasEnded
  <2> QED
    BY <2>1, <2>2, <2>3 DEF Due
<1>20. InHand'
  <2> SUFFICES ASSUME NEW d \in Peer
               PROVE  /\ loop'[d].pc \in {"register", "unregister", "detach"} <=> loop'[d].handle \in Session
                      /\ loop'[d].pc \in {"attach", "register"} => loop'[d].thing \in Thing
                      /\ loop'[d].pc = "off" => loop'[d].tracked = {}
                      /\ loop'[d].pc = "register" =>
                           loop'[d].handle \in loop'[d].tracked /\ ends'[loop'[d].handle] = NotBegun
                      /\ loop'[d].pc = "unregister" => held'[loop'[d].handle] = NoPeer
    BY DEF InHand
  <2>1. CASE d = c
    BY <1>6, <1>8, <2>1
  <2>2. CASE d # c
    <3>1. loop'[d] = loop[d] /\ held' = held
      BY <1>2, <1>6, <2>2
    <3>2. loop[d].pc = "register" => loop[d].handle \in Session \ {h}
      BY <1>7, <2>2 DEF InHand
    <3> QED
      BY <1>14, <3>1, <3>2 DEF InHand
  <2> QED
    BY <2>1, <2>2
<1>21. TrackedAlone'
  <2> SUFFICES ASSUME NEW d \in Peer, NEW x \in loop'[d].tracked
               PROVE  /\ held'[x] \in {d, NoPeer}
                      /\ ends'[x] = NotBegun => loop'[d].handle = x
                      /\ \A e \in Peer \ {d} : x \notin loop'[e].tracked
                      /\ \A e \in Peer : loop'[e].handle = x =>
                           IF e = d THEN loop'[d].pc = "register" ELSE loop'[e].pc = "unregister"
    BY DEF TrackedAlone, InHandOf
  <2>1. x \in Session /\ x \in loop[d].tracked
    BY <1>6 DEF HandlerRecord
  <2>2. /\ held[x] \in {d, NoPeer}
        /\ ends[x] = NotBegun => loop[d].handle = x
        /\ \A e \in Peer \ {d} : x \notin loop[e].tracked
        /\ \A e \in Peer : loop[e].handle = x =>
             IF e = d THEN loop[d].pc = "register" ELSE loop[e].pc = "unregister"
    BY <2>1 DEF TrackedAlone, InHandOf
  <2>3. held'[x] = held[x]
    BY <1>2
  <2>4. \A e \in Peer : loop'[e].tracked = loop[e].tracked
    BY <1>6
  <2>5. ASSUME NEW e \in Peer, loop'[e].handle = x
        PROVE  IF e = d THEN loop'[d].pc = "register" ELSE loop'[e].pc = "unregister"
    <3>1. e # c
      BY <1>6, <1>8, <2>1, <2>5
    <3> QED
      BY <1>6, <2>2, <2>5, <3>1
  <2>6. ASSUME ends'[x] = NotBegun PROVE loop'[d].handle = x
    <3>1. x # h /\ ends[x] = NotBegun
      BY <1>14, <2>1, <2>6
    <3>2. loop[d].handle = x
      BY <2>2, <3>1
    <3>3. d # c
      BY <3>1, <3>2 DEF h
    <3> QED
      BY <1>6, <3>2, <3>3
  <2> QED
    BY <2>2, <2>3, <2>4, <2>5, <2>6
<1>22. SessionKept'
  <2> SUFFICES ASSUME NEW x \in Session, held'[x] # NoPeer, ends'[x] # NotBegun
               PROVE  x \in Registered' \/ HasEnded(x)'
    BY DEF SessionKept
  <2>2. CASE x = h
    BY <1>13, <2>2
  <2>3. CASE x # h
    BY <1>2, <1>13, <1>14, <1>15, <2>3 DEF SessionKept
  <2> QED
    BY <2>2, <2>3
<1>23. WindowRespected'
  <2> SUFFICES ASSUME NEW x \in Registered'
               PROVE  LET t == sessions'[x]
                          i == PolicyFor(Policies, t.thing)
                      IN i # 0 /\ WindowsAt(MinuteOfDay(t.startedAt), Policies[i].windows) # {} =>
                           /\ t.windowExpiresAt # Unlimited
                           /\ \A b \in t.startedAt .. (t.windowExpiresAt - MinuteTicks) :
                                WindowsAt(MinuteOfDay(b), Policies[i].windows) # {}
    BY DEF WindowRespected
  <2>1. CASE x = h
    <3> DEFINE i == PolicyFor(Policies, dev)
               inside(b) == WindowsAt(b % Day, Policies[i].windows) # {}
    <3>1. limit \in Nat => limit # Unlimited /\ now + limit * MinuteTicks # Unlimited
      BY <1>8, <1>9a DEF Unlimited
    <3>2. i # 0 /\ inside(minute) =>
            limit \in Nat \ {0} /\ \A b \in minute .. (minute + limit - 1) : inside(b)
      BY <1>9
    <3>3. sessions'[x].thing = dev /\ sessions'[x].startedAt = now
      BY <1>10, <1>13, <2>1
    <3>4. limit \in Nat => sessions'[x].windowExpiresAt = now + limit * MinuteTicks
      BY <1>10, <1>13, <2>1, <3>1
    <3>5. \A b : (WindowsAt(MinuteOfDay(b), Policies[i].windows) # {}) = inside(b \div MinuteTicks)
      BY DEF MinuteOfDay
    <3>6. inside(now \div MinuteTicks) = inside(minute)
      BY DEF minute
    <3> HIDE DEF inside
    <3>7. i # 0 /\ inside(sessions'[x].startedAt \div MinuteTicks) =>
            /\ sessions'[x].windowExpiresAt # Unlimited
            /\ \A b \in sessions'[x].startedAt .. (sessions'[x].windowExpiresAt - MinuteTicks) :
                 inside(b \div MinuteTicks)
      <4>1. ASSUME i # 0, inside(minute)
            PROVE  /\ sessions'[x].windowExpiresAt # Unlimited
                   /\ \A b \in now .. (sessions'[x].windowExpiresAt - MinuteTicks) :
                        inside(b \div MinuteTicks)
        <5>1. limit \in Nat \ {0}
          BY <3>2, <4>1
        <5> DEFINE end == now + limit * MinuteTicks
        <5>2. sessions'[x].windowExpiresAt = end /\ end # Unlimited
          BY <3>1, <3>4, <5>1
        <5>3. end - MinuteTicks = now + (limit - 1) * MinuteTicks
          BY <1>8, <5>1
        <5>4. ASSUME NEW b \in now .. (now + (limit - 1) * MinuteTicks)
              PROVE  inside(b \div MinuteTicks)
          <6>1. limit - 1 \in Nat
            BY <5>1
          <6>2. (b \div MinuteTicks) \in minute .. (minute + (limit - 1))
            BY <1>8, <6>1, MinutesPass DEF minute
          <6>3. minute + (limit - 1) = minute + limit - 1
            BY <1>8, <5>1
          <6> QED
            BY <3>2, <4>1, <6>2, <6>3
        <5> HIDE DEF end
        <5>5. sessions'[x].windowExpiresAt - MinuteTicks = now + (limit - 1) * MinuteTicks
          BY ONLY <5>2, <5>3
        <5>6. \A b \in now .. (sessions'[x].windowExpiresAt - MinuteTicks) : inside(b \div MinuteTicks)
          BY ONLY <5>4, <5>5
        <5>7. sessions'[x].windowExpiresAt # Unlimited
          BY ONLY <5>2
        <5> QED
          BY ONLY <5>6, <5>7
      <4> QED
        BY <3>3, <3>6, <4>1
    <3>8. PolicyFor(Policies, sessions'[x].thing) = i
      BY <3>3
    <3> HIDE DEF i
    <3> QED
      BY <3>5, <3>7, <3>8, Zenon
  <2>2. CASE x # h
    <3>1. x \in Registered /\ sessions'[x] = sessions[x]
      BY <1>13, <2>2
    <3> QED
      BY <3>1 DEF WindowRespected
  <2> QED
    BY <2>1, <2>2
<1>24. HeldIsAccountedFor'
  <2> SUFFICES ASSUME NEW d \in Peer, NEW x \in Session, held'[x] = d
               PROVE  x \in loop'[d].tracked \cup {loop'[d].handle} \cup late'
    BY DEF HeldIsAccountedFor
  <2>1. x \in loop[d].tracked \cup {loop[d].handle} \cup late
    BY <1>2 DEF HeldIsAccountedFor
  <2>2. late' = late /\ h = loop[c].handle
    BY <1>2 DEF h
  <2>3. CASE d = c
    BY <1>6, <1>7, <2>1, <2>2, <2>3
  <2>4. CASE d # c
    BY <1>6, <2>1, <2>2, <2>4
  <2> QED
    BY <2>3, <2>4
<1> QED
  BY <1>17, <1>18, <1>19, <1>20, <1>21, <1>22, <1>23, <1>24

\* It holds when the server starts.
LEMMA SessionsStart == SessionInit => SessionsInv
<1> SUFFICES ASSUME SessionInit PROVE SessionsInv
  OBVIOUS
<1>1. Registered = {}
  BY DEF SessionInit, Registered
<1>2. /\ now \in 0 .. MaxNow /\ monitor = {} /\ late = {}
      /\ ends = [h \in Session |-> NotBegun] /\ held = [h \in Session |-> NoPeer]
      /\ loop = [c \in Peer |-> NoLoop]
  BY DEF SessionInit
<1>3. /\ NoLoop \in HandlerRecord /\ NoLoop.pc = "off" /\ NoLoop.tracked = {}
      /\ NoLoop.handle = NoSession /\ NoLoop.expired = {}
  BY ZeroCounts DEF NoLoop, HandlerRecord
<1>4. loop \in [Peer -> HandlerRecord] /\ \A c \in Peer : loop[c] = NoLoop
  BY <1>2, <1>3
<1>5. \A c \in Peer : /\ loop[c].pc = "off" /\ loop[c].tracked = {} /\ loop[c].handle = NoSession
                      /\ loop[c].expired = {}
  BY <1>3, <1>4
<1>6. SessionTypeOK
  BY <1>1, <1>2, <1>4 DEF SessionTypeOK, HandlerRecord
<1>7. EndsKnown /\ WindowRespected
  BY <1>1 DEF EndsKnown, WindowRespected
<1>8. Due
  BY <1>2, <1>5 DEF Due
<1>9. InHand /\ TrackedAlone /\ SessionKept
  BY <1>2, <1>5, SessionAssumption DEF InHand, TrackedAlone, SessionKept
<1>10. HeldIsAccountedFor
  BY <1>2, SessionAssumption DEF HeldIsAccountedFor
<1> QED
  BY <1>6, <1>7, <1>8, <1>9, <1>10 DEF SessionsInv

\* And whatever the handlers, the clock and the USB side do.
LEMMA SessionsStep == SessionsInv /\ [SessionNext]_sessionVars => SessionsInv'
<1> SUFFICES ASSUME SessionsInv, [SessionNext]_sessionVars PROVE SessionsInv'
  OBVIOUS
<1>1. CASE UNCHANGED sessionVars
  <2>1. UNCHANGED <<now, sessions, monitor, loop, held, late, ends>>
    BY <1>1 DEF sessionVars
  <2>2. SessionTypeOK' /\ EndsKnown' /\ WindowRespected'
    <3>1. Registered' = Registered
      BY <2>1 DEF Registered
    <3>2. SessionTypeOK'
      BY <2>1, <3>1 DEF SessionsInv, SessionTypeOK
    <3>3. EndsKnown'
      BY <2>1, <3>1 DEF SessionsInv, EndsKnown, EndOf
    <3>4. WindowRespected'
      BY <2>1, <3>1 DEF SessionsInv, WindowRespected
    <3> QED
      BY <3>2, <3>3, <3>4
  <2>3. Due' /\ InHand' /\ TrackedAlone'
    BY <2>1 DEF SessionsInv, Due, HasEnded, InHand, TrackedAlone, InHandOf
  <2>4. SessionKept' /\ HeldIsAccountedFor'
    BY <2>1 DEF SessionsInv, SessionKept, HeldIsAccountedFor, HasEnded, Registered
  <2> QED
    BY <2>2, <2>3, <2>4 DEF SessionsInv
<1>2. ASSUME NEW c \in Peer,
             PeerConnects(c) \/ OtherRequest(c) \/ PeerLost(c) \/ TimerFires(c) \/ AttachFails(c)
      PROVE  SessionsInv'
  BY <1>2, PeerConnectsStep, OtherRequestStep, PeerLostStep, TimerFiresStep, AttachFailsStep
<1>3. ASSUME NEW c \in Peer, NEW dev \in Thing, CheckPolicy(c, dev)
      PROVE  SessionsInv'
  BY <1>3, CheckPolicyStep
<1>4. ASSUME NEW c \in Peer, NEW h \in Session,
             RequestDetach(c, h) \/ DeviceIsGone(c, h) \/ AttachSucceeds(c, h)
      PROVE  SessionsInv'
  BY <1>4, RequestDetachStep, DeviceIsGoneStep, AttachSucceedsStep
<1>5. ASSUME NEW c \in Peer, HandlerStep(c)
      PROVE  SessionsInv'
  BY <1>5, RegisterSessionStep, UnregisterSessionStep, ForceDetachStep, CleanupDetachStep,
     ForcedDetachEndsStep, ExpiryDoneStep, CleanupDoneStep DEF HandlerStep
<1>6. CASE MonitorScans
  <2>1. PICK h \in Session : TRUE
    BY <1>6, ExpiredHaveEnded DEF MonitorScans, SessionsInv
  <2> QED
    BY <1>6, <2>1, OutsideStep
<1>7. ASSUME NEW h \in Session, MonitorForgets(h) \/ LateDetach(h) \/ Unplugged(h)
      PROVE  SessionsInv'
  BY <1>7, OutsideStep
<1>8. CASE TimePasses
  BY <1>8, TimePassesStep
<1> QED
  BY <1>1, <1>2, <1>3, <1>4, <1>5, <1>6, <1>7, <1>8 DEF SessionNext, AttachEnds

\* Every reachable state satisfies the inductive invariant.
THEOREM SessionsStaySound == SessionSpec => []SessionsInv
<1>1. SessionInit => SessionsInv
  BY SessionsStart
<1>2. SessionsInv /\ [SessionNext]_sessionVars => SessionsInv'
  BY SessionsStep
<1> QED
  BY <1>1, <1>2, PTL DEF SessionSpec

\* While a device is attached and allowed its session is not forgotten, a session
\* outlives its time windows by less than a minute, and a handle the USB side holds is
\* tracked by its handler or on its way to be detached.
THEOREM SessionsStayAllowed == SessionSpec => [](SessionTypeOK /\ SessionsAreAllowed)
<1>1. SessionsInv => SessionTypeOK /\ SessionsAreAllowed
  BY DEF SessionsInv, SessionsAreAllowed
<1> QED
  BY <1>1, SessionsStaySound, PTL

\* A handler takes a device away by force only when its session is over, and only from
\* its own client.
THEOREM ForcedOnlyAtTheEnd == SessionSpec => ForcedOnlyWhenDue
<1> DEFINE InTime(c) ==
      loop[c].pc = "expire" /\ loop'[c].pc = "detach" =>
        HasEnded(loop'[c].handle) /\ held[loop'[c].handle] \in {c, NoPeer}
<1>1. SessionsInv /\ [SessionNext]_sessionVars => [\A c \in Peer : InTime(c)]_sessionVars
  <2> SUFFICES ASSUME SessionsInv, SessionNext, NEW c \in Peer,
                      loop[c].pc = "expire", loop'[c].pc = "detach"
               PROVE  HasEnded(loop'[c].handle) /\ held[loop'[c].handle] \in {c, NoPeer}
    OBVIOUS
  <2>1. loop \in [Peer -> HandlerRecord]
    BY DEF SessionsInv, SessionTypeOK, HandlerRecord
  <2>3. ASSUME NEW d \in Peer, NEW r, loop' = [loop EXCEPT ![d] = r], loop[d].pc # "expire" \/ r.pc # "detach"
        PROVE  FALSE
    BY <2>1, <2>3
  <2>4. PICK h \in Session : ForceDetach(c, h)
    <3>1. ASSUME NEW d \in Peer, PeerConnects(d) \/ OtherRequest(d) \/ PeerLost(d) \/ TimerFires(d)
          PROVE  FALSE
      BY <2>1, <3>1 DEF PeerConnects, OtherRequest, PeerLost, TimerFires, NextTurn
    <3>2. ASSUME NEW d \in Peer, NEW dev \in Thing, CheckPolicy(d, dev)
          PROVE  FALSE
      BY <2>1, <3>2 DEF CheckPolicy
    <3>3. ASSUME NEW d \in Peer, NEW h \in Session, RequestDetach(d, h) \/ DeviceIsGone(d, h)
          PROVE  FALSE
      BY <2>1, <3>3 DEF RequestDetach, DeviceIsGone, NextTurn
    <3>4. ASSUME NEW d \in Peer, AttachEnds(d)
          PROVE  FALSE
      BY <2>1, <3>4 DEF AttachEnds, AttachFails, AttachSucceeds, NextTurn
    <3>5. ASSUME NEW d \in Peer, RegisterSession(d) \/ UnregisterSession(d)
          PROVE  FALSE
      BY <2>1, <3>5 DEF RegisterSession, UnregisterSession, NextTurn
    <3>6. ASSUME NEW d \in Peer, NEW h \in Session, CleanupDetach(d, h)
          PROVE  FALSE
      <4>1. loop' = [loop EXCEPT ![d] = [loop[d] EXCEPT !.tracked = @ \ {h}]] /\ loop[d].pc = "cleanup"
        BY <3>6 DEF CleanupDetach
      <4>2. [loop[d] EXCEPT !.tracked = @ \ {h}].pc = loop[d].pc
        BY <2>1 DEF HandlerRecord
      <4> QED
        BY <2>3, <4>1, <4>2
    <3>7. ASSUME NEW d \in Peer, NEW inTime \in BOOLEAN, ForcedDetachEnds(d, inTime)
          PROVE  FALSE
      BY <2>1, <3>7 DEF ForcedDetachEnds
    <3>8. ASSUME NEW d \in Peer, ExpiryDone(d) \/ CleanupDone(d)
          PROVE  FALSE
      <4>1. CASE ExpiryDone(d)
        BY <2>1, <4>1 DEF ExpiryDone, NextTurn
      <4>2. CASE CleanupDone(d)
        BY <2>1, <4>2 DEF CleanupDone
      <4> QED
        BY <3>8, <4>1, <4>2
    <3>9. ASSUME NEW d \in Peer, NEW h \in Session, ForceDetach(d, h)
          PROVE  d = c
      <4>1. d # c => loop'[c] = loop[c]
        BY <2>1, <3>9 DEF ForceDetach
      <4> QED
        BY <4>1
    <3>10. ASSUME MonitorScans \/ \E h \in Session : MonitorForgets(h) \/ LateDetach(h) \/ Unplugged(h)
           PROVE  FALSE
      BY <3>10 DEF MonitorScans, MonitorForgets, LateDetach, Unplugged
    <3>11. ASSUME TimePasses
           PROVE  FALSE
      <4>1. loop'[c] = [loop[c] EXCEPT !.idle = Capped(@, IdleLimit + 1),
                            !.quiet = IF loop[c].pc = "ready" THEN Capped(@, TimerPeriod) ELSE @]
        BY <3>11 DEF TimePasses
      <4>2. loop[c] \in HandlerRecord
        BY <2>1
      <4> QED
        BY <4>1, <4>2 DEF HandlerRecord
    <3> QED
      BY <3>1, <3>2, <3>3, <3>4, <3>5, <3>6, <3>7, <3>8, <3>9, <3>10, <3>11
         DEF SessionNext, HandlerStep
  <2>5. h \in loop[c].expired /\ h \in loop[c].tracked /\ loop'[c].handle = h
    <3>1. loop[c] \in HandlerRecord
      BY <2>1
    <3> QED
      BY <2>1, <2>4, <3>1 DEF ForceDetach, HandlerRecord
  <2> QED
    BY <2>5 DEF SessionsInv, Due, TrackedAlone
<1> QED
  BY <1>1, SessionsStaySound, PTL DEF SessionSpec, ForcedOnlyWhenDue

-----------------------------------------------------------------------------
(* Limits of bandwidth *)

(* The sum of the weights of a finite set *)

Chosen(s) == CHOOSE x \in s : TRUE

\* f sums the weights w over the subsets of S, one chosen element after the other.
Sums(f, S, w) ==
  f = [s \in SUBSET S |-> IF s = {} THEN 0 ELSE w[Chosen(s)] + f[s \ {Chosen(s)}]]

SumOf(w, S) == MapThenSumSet(LAMBDA c : w[c], S)

\* A non-empty set of finite sets has a smallest one.
LEMMA SmallestOf ==
  ASSUME NEW F, F # {}, \A s \in F : IsFiniteSet(s)
  PROVE  \E s \in F : \A t \in F : Cardinality(s) <= Cardinality(t)
<1> DEFINE N == {Cardinality(s) : s \in F}
<1>1. N \in SUBSET Nat /\ N # {}
  BY FS_CardinalityType
<1>2. PICK p \in N : \A q \in N : p <= q
  BY <1>1, LeastOf
<1> QED
  BY <1>2

\* Without one of its elements a finite set is smaller.
LEMMA SmallerWithout ==
  ASSUME NEW s, IsFiniteSet(s), NEW x \in s
  PROVE  IsFiniteSet(s \ {x}) /\ Cardinality(s \ {x}) < Cardinality(s)
<1>1. Cardinality(s) \in Nat
  BY FS_CardinalityType
<1>2. IsFiniteSet(s \ {x}) /\ Cardinality(s \ {x}) = Cardinality(s) - 1
  BY FS_RemoveElement
<1> QED
  BY <1>1, <1>2

\* Two such functions agree where both are defined.
LEMMA SumsAgree ==
  ASSUME NEW S, NEW T, IsFiniteSet(S), NEW f, NEW g, NEW w, Sums(f, S, w), Sums(g, T, w),
         NEW u \in SUBSET (S \cap T)
  PROVE  f[u] = g[u]
<1> DEFINE D == {s \in SUBSET (S \cap T) : f[s] # g[s]}
<1> SUFFICES ASSUME D # {} PROVE FALSE
  OBVIOUS
<1>1. \A s \in D : IsFiniteSet(s)
  BY FS_Subset
<1>2. PICK s \in D : \A t \in D : Cardinality(s) <= Cardinality(t)
  BY <1>1, SmallestOf
<1>3. f[s] = IF s = {} THEN 0 ELSE w[Chosen(s)] + f[s \ {Chosen(s)}]
  BY DEF Sums
<1>4. g[s] = IF s = {} THEN 0 ELSE w[Chosen(s)] + g[s \ {Chosen(s)}]
  BY DEF Sums
<1>5. s # {} /\ f[s \ {Chosen(s)}] # g[s \ {Chosen(s)}]
  BY <1>3, <1>4
<1>6. Chosen(s) \in s
  BY <1>5 DEF Chosen
<1>7. s \ {Chosen(s)} \in D
  BY <1>5
<1>8. Cardinality(s \ {Chosen(s)}) < Cardinality(s)
  BY <1>1, <1>6, SmallerWithout
<1>9. Cardinality(s) \in Nat /\ Cardinality(s \ {Chosen(s)}) \in Nat
  BY <1>1, <1>7, FS_CardinalityType
<1> QED
  BY <1>2, <1>7, <1>8, <1>9

\* Every finite set has such a function.
LEMMA SumsExist ==
  ASSUME NEW S, IsFiniteSet(S), NEW w
  PROVE  \E f : Sums(f, S, w)
<1> DEFINE D == {T \in SUBSET S : ~ \E f : Sums(f, T, w)}
<1> SUFFICES ASSUME D # {} PROVE FALSE
  OBVIOUS
<1>1. \A T \in SUBSET S : IsFiniteSet(T) /\ Cardinality(T) \in Nat
  BY FS_Subset, FS_CardinalityType
<1>2. PICK T \in D : \A U \in D : Cardinality(T) <= Cardinality(U)
  BY <1>1, SmallestOf
<1>3. ASSUME NEW U \in SUBSET T, U # T PROVE \E f : Sums(f, U, w)
  <2>1. PICK x \in T : x \notin U
    BY <1>3
  <2>2. U \subseteq T \ {x} /\ T \ {x} \in SUBSET S /\ U \in SUBSET S
    BY <2>1
  <2>3. Cardinality(U) <= Cardinality(T \ {x})
    BY <1>1, <2>2, FS_Subset
  <2>4. Cardinality(T \ {x}) < Cardinality(T)
    BY <1>1, <2>1, SmallerWithout
  <2> QED
    BY <1>1, <1>2, <2>2, <2>3, <2>4
<1> DEFINE Fun(U) == CHOOSE f : Sums(f, U, w)
           total(U) == Fun(U)[U]
           f == [s \in SUBSET T |-> IF s = {} THEN 0 ELSE w[Chosen(s)] + total(s \ {Chosen(s)})]
<1>4. \A U \in SUBSET T : U # T => Sums(Fun(U), U, w)
  BY <1>3
<1>5. \A s \in SUBSET T : s # {} => Chosen(s) \in s
  BY DEF Chosen
<1> HIDE DEF Fun
<1>6. ASSUME NEW U \in SUBSET T, U # T, U # {}
      PROVE  total(U) = w[Chosen(U)] + total(U \ {Chosen(U)})
  <2> DEFINE V == U \ {Chosen(U)}
  <2>1. Sums(Fun(U), U, w)
    BY <1>4, <1>6
  <2>2. Sums(Fun(V), V, w)
    BY <1>4, <1>5, <1>6
  <2>3. Fun(U)[U] = w[Chosen(U)] + Fun(U)[V]
    BY <2>1, <1>6 DEF Sums
  <2>4. IsFiniteSet(U)
    BY <1>1
  <2>5. V \in SUBSET (U \cap V)
    OBVIOUS
  <2> HIDE DEF V
  <2>6. Fun(U)[V] = Fun(V)[V]
    BY <2>1, <2>2, <2>4, <2>5, SumsAgree
  <2> QED
    BY <2>3, <2>6 DEF V
<1>7. ASSUME NEW U \in SUBSET T, U # T, U = {}
      PROVE  total(U) = 0
  BY <1>4, <1>7 DEF Sums
<1>8. ASSUME NEW U \in SUBSET T, U # T
      PROVE  f[U] = total(U)
  <2>1. f[U] = IF U = {} THEN 0 ELSE w[Chosen(U)] + total(U \ {Chosen(U)})
    OBVIOUS
  <2> HIDE DEF total, f
  <2> QED
    BY <1>6, <1>7, <1>8, <2>1
<1> HIDE DEF total
<1>9. \A s \in SUBSET T : s # {} => f[s \ {Chosen(s)}] = total(s \ {Chosen(s)})
  BY <1>5, <1>8
<1>10. f = [s \in SUBSET T |-> IF s = {} THEN 0 ELSE w[Chosen(s)] + f[s \ {Chosen(s)}]]
  BY <1>9
<1>11. Sums(f, T, w)
  BY <1>10 DEF Sums
<1> QED
  BY <1>2, <1>11

\* The sum does not depend on the order.
LEMMA SumsRemove ==
  ASSUME NEW S, IsFiniteSet(S), NEW w, \A x \in S : w[x] \in Nat, NEW f, Sums(f, S, w)
  PROVE  \A s \in SUBSET S : f[s] \in Nat /\ \A x \in s : f[s] = w[x] + f[s \ {x}]
<1> DEFINE Right(s) == f[s] \in Nat /\ \A x \in s : f[s] = w[x] + f[s \ {x}]
           D == {s \in SUBSET S : ~Right(s)}
<1> SUFFICES ASSUME D # {} PROVE FALSE
  OBVIOUS
<1>1. \A T \in SUBSET S : IsFiniteSet(T) /\ Cardinality(T) \in Nat
  BY FS_Subset, FS_CardinalityType
<1>2. PICK s \in D : \A t \in D : Cardinality(s) <= Cardinality(t)
  BY <1>1, SmallestOf
<1>3. ASSUME NEW x \in s PROVE Right(s \ {x})
  <2>1. Cardinality(s \ {x}) < Cardinality(s) /\ s \ {x} \in SUBSET S
    BY <1>1, SmallerWithout
  <2> HIDE DEF Right
  <2> QED
    BY <1>1, <1>2, <2>1
<1> DEFINE y == Chosen(s)
<1>4. f[s] = IF s = {} THEN 0 ELSE w[y] + f[s \ {y}]
  BY DEF Sums
<1>5. CASE s = {}
  BY <1>4, <1>5
<1>6. CASE s # {}
  <2>1. y \in s
    BY <1>6 DEF Chosen
  <2> HIDE DEF y
  <2>2. f[s] = w[y] + f[s \ {y}] /\ f[s \ {y}] \in Nat /\ w[y] \in Nat
    BY <1>3, <1>4, <1>6, <2>1
  <2>3. ASSUME NEW x \in s, x # y PROVE f[s] = w[x] + f[s \ {x}]
    <3>1. f[s \ {y}] = w[x] + f[(s \ {y}) \ {x}] /\ f[s \ {x}] = w[y] + f[(s \ {x}) \ {y}]
      BY <1>3, <2>1, <2>3
    <3>2. (s \ {y}) \ {x} = (s \ {x}) \ {y} /\ (s \ {x}) \ {y} \in SUBSET S
      OBVIOUS
    <3>3. Right((s \ {x}) \ {y})
      <4>1. Cardinality(s \ {x}) < Cardinality(s) /\ Cardinality((s \ {x}) \ {y}) < Cardinality(s \ {x})
        BY <1>1, <2>1, <2>3, SmallerWithout
      <4> HIDE DEF Right
      <4> QED
        BY <1>1, <1>2, <3>2, <4>1
    <3> DEFINE z == f[(s \ {x}) \ {y}]
    <3>4. w[x] \in Nat /\ z \in Nat
      BY <3>3
    <3>5. f[s \ {y}] = w[x] + z /\ f[s \ {x}] = w[y] + z
      BY <3>1, <3>2
    <3> HIDE DEF z
    <3> QED
      BY <2>2, <3>4, <3>5
  <2>4. \A x \in s : f[s] = w[x] + f[s \ {x}]
    BY <2>2, <2>3
  <2>5. f[s] \in Nat
    BY <2>2
  <2>6. Right(s)
    BY <2>4, <2>5
  <2> HIDE DEF Right
  <2> QED
    BY <2>6
<1> QED
  BY <1>5, <1>6

\* What a sum is, for a finite set and weights that are numbers.
LEMMA SumIs ==
  ASSUME NEW S, IsFiniteSet(S), NEW w
  PROVE  \E f : Sums(f, S, w) /\ SumOf(w, S) = f[S]
<1> DEFINE f == CHOOSE f : Sums(f, S, w)
<1>1. Sums(f, S, w)
  BY SumsExist
<1>2. SumOf(w, S) = f[S]
  BY DEF SumOf, Sums, Chosen, MapThenSumSet, MapThenFoldSet
<1> QED
  BY <1>1, <1>2

\* Nothing weighs nothing.
LEMMA SumEmpty ==
  ASSUME NEW w, NEW S, S = {}
  PROVE  SumOf(w, S) = 0
<1>1. IsFiniteSet(S)
  BY FS_EmptySet
<1>2. PICK f : Sums(f, S, w) /\ SumOf(w, S) = f[S]
  BY <1>1, SumIs
<1> QED
  BY <1>2 DEF Sums

\* One element more adds its weight.
LEMMA SumRemove ==
  ASSUME NEW S, IsFiniteSet(S), NEW w, \A y \in S : w[y] \in Nat, NEW x \in S
  PROVE  SumOf(w, S) \in Nat /\ SumOf(w, S \ {x}) \in Nat
         /\ SumOf(w, S) = w[x] + SumOf(w, S \ {x})
<1> DEFINE T == S \ {x}
<1>1. PICK f : Sums(f, S, w) /\ SumOf(w, S) = f[S]
  BY SumIs
<1>2. IsFiniteSet(T)
  BY FS_Subset
<1> HIDE DEF T
<1>3. PICK g : Sums(g, T, w) /\ SumOf(w, T) = g[T]
  BY <1>2, SumIs
<1>4. T \in SUBSET (S \cap T)
  BY DEF T
<1>5. f[T] = g[T]
  BY <1>1, <1>3, <1>4, SumsAgree
<1>6. f[S] \in Nat /\ f[T] \in Nat /\ f[S] = w[x] + f[T]
  <2>1. \A s \in SUBSET S : f[s] \in Nat /\ \A y \in s : f[s] = w[y] + f[s \ {y}]
    BY <1>1, SumsRemove
  <2>2. S \in SUBSET S /\ T \in SUBSET S /\ T = S \ {x}
    BY DEF T
  <2> QED
    BY <2>1, <2>2
<1> QED
  BY <1>1, <1>3, <1>5, <1>6 DEF T

\* A sum is a number.
LEMMA SumTyped ==
  ASSUME NEW S, IsFiniteSet(S), NEW w, \A y \in S : w[y] \in Nat
  PROVE  SumOf(w, S) \in Nat
<1>1. CASE S = {}
  BY <1>1, SumEmpty
<1>2. CASE S # {}
  <2>1. PICK x \in S : TRUE
    BY <1>2
  <2> QED
    BY <2>1, SumRemove
<1> QED
  BY <1>1, <1>2

\* A sum depends on the weights of its elements only.
LEMMA SumSame ==
  ASSUME NEW S, IsFiniteSet(S), NEW w, NEW v, \A y \in S : w[y] = v[y]
  PROVE  SumOf(w, S) = SumOf(v, S)
<1>1. PICK f : Sums(f, S, w) /\ SumOf(w, S) = f[S]
  BY SumIs
<1>2. PICK g : Sums(g, S, v) /\ SumOf(v, S) = g[S]
  BY SumIs
<1>3. Sums(f, S, v)
  <2>1. \A s \in SUBSET S : s # {} => w[Chosen(s)] = v[Chosen(s)]
    BY DEF Chosen
  <2>2. \A s \in SUBSET S : (IF s = {} THEN 0 ELSE w[Chosen(s)] + f[s \ {Chosen(s)}])
                            = IF s = {} THEN 0 ELSE v[Chosen(s)] + f[s \ {Chosen(s)}]
    BY <2>1
  <2> QED
    BY <1>1, <2>2 DEF Sums
<1>4. S \in SUBSET (S \cap S)
  OBVIOUS
<1>5. f[S] = g[S]
  BY <1>2, <1>3, <1>4, SumsAgree
<1> QED
  BY <1>1, <1>2, <1>5

\* The sum of the bytes of some transfers, as the property writes it.
LEMMA BytesSum ==
  ASSUME NEW t, NEW S \in SUBSET Sender, IsFiniteSet(S)
  PROVE  MapThenSumSet(LAMBDA c : t[c].bytes, S) = SumOf([c \in Sender |-> t[c].bytes], S)
<1> DEFINE w == [c \in Sender |-> t[c].bytes]
           OK(f) == f = [s \in SUBSET S |->
                           IF s = {} THEN 0 ELSE t[Chosen(s)].bytes + f[s \ {Chosen(s)}]]
           g == CHOOSE f : OK(f)
<1>1. MapThenSumSet(LAMBDA c : t[c].bytes, S) = g[S]
  BY DEF MapThenSumSet, MapThenFoldSet, Chosen
<1>2. ASSUME NEW f PROVE OK(f) <=> Sums(f, S, w)
  <2>1. \A s \in SUBSET S : s # {} => w[Chosen(s)] = t[Chosen(s)].bytes
    BY DEF Chosen
  <2> HIDE DEF w
  <2>2. \A s \in SUBSET S : (IF s = {} THEN 0 ELSE w[Chosen(s)] + f[s \ {Chosen(s)}])
                            = IF s = {} THEN 0 ELSE t[Chosen(s)].bytes + f[s \ {Chosen(s)}]
    BY <2>1
  <2> QED
    BY <2>2 DEF Sums
<1> HIDE DEF OK, w
<1>3. PICK f : Sums(f, S, w) /\ SumOf(w, S) = f[S]
  BY SumIs
<1>4. OK(g)
  BY <1>2, <1>3
<1>5. Sums(g, S, w)
  BY <1>2, <1>4
<1>6. S \in SUBSET (S \cap S)
  OBVIOUS
<1>7. g[S] = f[S]
  BY <1>3, <1>5, <1>6, SumsAgree
<1> QED
  BY <1>1, <1>3, <1>7 DEF w

\* Where a transfer is says what it has been charged for so far.
ChargesOf(c) ==
  LET t == transfer[c] IN
  /\ t.at \in 1 .. (Len(Path[c]) + 1)
  /\ t.pc \in {"idle", "check", "sleep"} => charged[c] = {}
  /\ t.pc = "acquire" => charged[c] = {Path[c][i] : i \in 1 .. (t.at - 1)}
  /\ t.pc = "refund" => /\ t.failed \in 1 .. Len(Path[c])
                        /\ t.at \in 1 .. t.failed
                        /\ charged[c] = {Path[c][i] : i \in t.at .. (t.failed - 1)}

Charges == \A c \in Sender : ChargesOf(c)

\* The bytes of some transfers.
BytesOf(t, S) == MapThenSumSet(LAMBDA x : t[x].bytes, S)

\* TokensConserved, in terms of BytesOf.
Conserved ==
  \A b \in Bucket :
    /\ tokens[b] + paid[b] <= Burst[b] + Rate[b] * tick
    /\ BytesOf(transfer, TakenBy(b)) <= paid[b]

\* The sum over charges that TokensConserved states is the one reasoned about here.
LEMMA ConservedIs == Conserved => TokensConserved
  BY Zenon DEF Conserved, TokensConserved, BytesOf

LimiterInv == LimiterTypeOK /\ Conserved /\ Charges

TransferRecord ==
  [pc : {"idle", "check", "acquire", "refund", "sleep", "record", "pass"},
   bytes : Nat, at : Nat, wait : Nat, failed : Nat]

\* What a transfer has taken from a bucket and may still give back.
Share(c, b) ==
  IF b \in charged[c] /\ transfer[c].pc \in {"acquire", "refund"} THEN transfer[c].bytes ELSE 0

PartOf(w, T, c) == IF c \in T THEN w[c] ELSE 0

\* One element apart, two sums are of the same elements.
LEMMA SumApart ==
  ASSUME NEW w, NEW v, \A d \in Sender : w[d] \in Nat /\ v[d] \in Nat,
         NEW T \in SUBSET Sender, NEW U \in SUBSET Sender, NEW c \in Sender,
         \A d \in Sender \ {c} : v[d] = w[d] /\ (d \in T <=> d \in U)
  PROVE  \E n \in Nat : SumOf(w, T) = n + PartOf(w, T, c) /\ SumOf(v, U) = n + PartOf(v, U, c)
<1> DEFINE S == T \ {c}
<1>1. /\ IsFiniteSet(T) /\ IsFiniteSet(U) /\ IsFiniteSet(S)
      /\ S = U \ {c} /\ S \subseteq Sender
  <2>1. \A X \in SUBSET Sender : IsFiniteSet(X)
    BY LimiterAssumption, FS_Subset
  <2>2. S \in SUBSET Sender
    OBVIOUS
  <2> QED
    BY <2>1, <2>2
<1>5. ASSUME NEW X \in SUBSET Sender, IsFiniteSet(X), X \ {c} = S, NEW y, \A d \in Sender : y[d] \in Nat
      PROVE  SumOf(y, S) \in Nat /\ SumOf(y, X) = SumOf(y, S) + PartOf(y, X, c)
  <2> HIDE DEF S
  <2>1. SumOf(y, S) \in Nat
    BY <1>1, <1>5, SumTyped
  <2>2. CASE c \in X
    <3>1. SumOf(y, X) = y[c] + SumOf(y, X \ {c}) /\ y[c] \in Nat
      BY <1>5, <2>2, SumRemove
    <3>2. SumOf(y, X) = y[c] + SumOf(y, S)
      BY <1>5, <3>1, Zenon
    <3> QED
      BY <2>1, <2>2, <3>1, <3>2 DEF PartOf
  <2>3. CASE c \notin X
    <3>1. X = S
      BY <1>5, <2>3
    <3> QED
      BY <2>1, <2>3, <3>1 DEF PartOf
  <2> QED
    BY <2>1, <2>2, <2>3
<1>6. /\ SumOf(w, S) \in Nat
      /\ SumOf(w, T) = SumOf(w, S) + PartOf(w, T, c)
      /\ SumOf(v, U) = SumOf(v, S) + PartOf(v, U, c)
  BY <1>1, <1>5
<1>7. SumOf(v, S) = SumOf(w, S)
  <2>1. \A y \in S : v[y] = w[y]
    BY <1>1
  <2> HIDE DEF S
  <2> QED
    BY <1>1, <2>1, SumSame
<1> QED
  BY <1>6, <1>7

\* When one transfer moves and its bucket is paid at least what its share of it grows,
\* what is taken stays paid for.
LEMMA StaysCovered ==
  ASSUME LimiterInv, NEW c \in Sender,
         transfer' \in [Sender -> TransferRecord],
         \A d \in Sender \ {c} : transfer'[d] = transfer[d] /\ charged'[d] = charged[d],
         NEW b \in Bucket, paid'[b] \in Int,
         paid'[b] - paid[b] >= Share(c, b)' - Share(c, b)
  PROVE  /\ paid'[b] \in Nat
         /\ BytesOf(transfer', TakenBy(b)') <= paid'[b]
<1>1. transfer \in [Sender -> TransferRecord] /\ paid[b] \in Nat
  BY DEF LimiterInv, LimiterTypeOK, TransferRecord
<1>2. \A d \in Sender : transfer[d].bytes \in Nat /\ transfer'[d].bytes \in Nat
  BY <1>1 DEF TransferRecord
<1>3. TakenBy(b) \in SUBSET Sender /\ TakenBy(b)' \in SUBSET Sender
  BY DEF TakenBy
<1>4. \A d \in Sender \ {c} : transfer'[d].bytes = transfer[d].bytes
                              /\ (d \in TakenBy(b) <=> d \in TakenBy(b)')
  BY DEF TakenBy
<1>5. /\ Share(c, b) = IF c \in TakenBy(b) THEN transfer[c].bytes ELSE 0
      /\ Share(c, b)' = IF c \in TakenBy(b)' THEN transfer'[c].bytes ELSE 0
  BY DEF Share, TakenBy
<1>6. BytesOf(transfer, TakenBy(b)) <= paid[b]
  BY DEF LimiterInv, Conserved
<1>7. PICK t, u, T, U : t = transfer /\ u = transfer' /\ T = TakenBy(b) /\ U = TakenBy(b)'
  OBVIOUS
<1>8. PICK w, v : w = [d \in Sender |-> t[d].bytes] /\ v = [d \in Sender |-> u[d].bytes]
  OBVIOUS
<1>9. /\ BytesOf(transfer, TakenBy(b)) = SumOf(w, T)
      /\ BytesOf(transfer', TakenBy(b)') = SumOf(v, U)
  <2>1. T \in SUBSET Sender /\ U \in SUBSET Sender /\ IsFiniteSet(T) /\ IsFiniteSet(U)
    BY <1>3, <1>7, LimiterAssumption, FS_Subset
  <2>2. /\ BytesOf(t, T) = SumOf([d \in Sender |-> t[d].bytes], T)
        /\ BytesOf(u, U) = SumOf([d \in Sender |-> u[d].bytes], U)
    BY <2>1, BytesSum, Zenon DEF BytesOf
  <2> QED
    BY <1>7, <1>8, <2>2, Zenon
<1>10. PICK n \in Nat : SumOf(w, T) = n + PartOf(w, T, c) /\ SumOf(v, U) = n + PartOf(v, U, c)
  <2>1. \A d \in Sender : w[d] \in Nat /\ v[d] \in Nat
    BY <1>2, <1>7, <1>8
  <2>2. T \in SUBSET Sender /\ U \in SUBSET Sender
    BY <1>3, <1>7
  <2>3. \A d \in Sender \ {c} : v[d] = w[d] /\ (d \in T <=> d \in U)
    BY <1>4, <1>7, <1>8
  <2> QED
    BY <2>1, <2>2, <2>3, SumApart
<1>11. PartOf(w, T, c) = Share(c, b) /\ PartOf(v, U, c) = Share(c, b)'
  BY <1>5, <1>7, <1>8 DEF PartOf
<1>12. Share(c, b) \in Nat /\ Share(c, b)' \in Nat
  BY <1>2, <1>5
<1>13. n + Share(c, b) <= paid[b]
  <2>1. SumOf(w, T) <= paid[b]
    BY <1>6, <1>9, Zenon
  <2> QED
    BY <1>10, <1>11, <2>1
<1>14. SumOf(v, U) <= paid'[b] /\ paid'[b] \in Nat
  BY <1>1, <1>10, <1>11, <1>12, <1>13
<1> QED
  BY <1>9, <1>14, Zenon

\* Products of numbers.
LEMMA NatTimes ==
  ASSUME NEW m \in Nat, NEW n \in Nat
  PROVE  m * n \in Nat
OBVIOUS

\* What is assumed of the buckets and the paths.
LEMMA Constants ==
  /\ \A b \in Bucket : Burst[b] \in Nat /\ Rate[b] \in Nat \ {0} /\ Rate[b] \in Nat
  /\ \A c \in Sender : Path[c] \in Seq(Bucket) /\ Len(Path[c]) \in Nat
  /\ \A c \in Sender : \A i \in 1 .. Len(Path[c]) : Path[c][i] \in Bucket
  /\ \A c \in Sender : \A i, j \in 1 .. Len(Path[c]) : Path[c][i] = Path[c][j] => i = j
<1>1. \A b \in Bucket : Burst[b] \in Nat /\ Rate[b] \in Nat \ {0} /\ Rate[b] \in Nat
  BY LimiterAssumption
<1>2. \A c \in Sender : Path[c] \in Seq(Bucket)
  BY LimiterAssumption
<1>3. \A c \in Sender : Len(Path[c]) \in Nat /\ DOMAIN Path[c] = 1 .. Len(Path[c])
  BY <1>2
<1>4. \A c \in Sender : \A i \in 1 .. Len(Path[c]) : Path[c][i] \in Bucket
  BY <1>2, <1>3
<1>5. \A c \in Sender : \A i, j \in DOMAIN Path[c] : Path[c][i] = Path[c][j] => i = j
  BY LimiterAssumption
<1> QED
  BY <1>1, <1>2, <1>3, <1>4, <1>5

\* One transfer moves.  The invariant is kept when the buckets stay within their sizes,
\* what is taken is paid, and the charges of the transfer fit where it now is.
LEMMA OneMoves ==
  ASSUME LimiterInv, NEW c \in Sender, tick' = tick,
         transfer' \in [Sender -> TransferRecord],
         charged' \in [Sender -> SUBSET Bucket],
         \A d \in Sender \ {c} : transfer'[d] = transfer[d] /\ charged'[d] = charged[d],
         ChargesOf(c)',
         tokens' \in [Bucket -> Int], paid' \in [Bucket -> Int],
         \A b \in Bucket : /\ 0 <= tokens'[b]
                           /\ tokens'[b] <= Burst[b]
                           /\ tokens'[b] + paid'[b] <= tokens[b] + paid[b]
                           /\ paid'[b] - paid[b] >= Share(c, b)' - Share(c, b)
  PROVE  LimiterInv'
<1>1. \A b \in Bucket : paid'[b] \in Nat /\ BytesOf(transfer', TakenBy(b)') <= paid'[b]
  BY StaysCovered
<1>2. \A b \in Bucket : tokens'[b] \in Nat
  OBVIOUS
<1>3. tokens' \in [Bucket -> Nat] /\ paid' \in [Bucket -> Nat]
  BY <1>1, <1>2
<1>4. tick' \in 0 .. MaxTick
  BY DEF LimiterInv, LimiterTypeOK
<1>5. LimiterTypeOK'
  BY <1>3, <1>4 DEF LimiterTypeOK, TransferRecord
<1>6. \A b \in Bucket : tokens'[b] + paid'[b] <= Burst[b] + Rate[b] * tick'
  <2> SUFFICES ASSUME NEW b \in Bucket PROVE tokens'[b] + paid'[b] <= Burst[b] + Rate[b] * tick'
    OBVIOUS
  <2>1. tokens[b] + paid[b] <= Burst[b] + Rate[b] * tick
    BY DEF LimiterInv, Conserved
  <2>2. tokens[b] \in Nat /\ paid[b] \in Nat /\ tick \in Nat
    BY LimiterAssumption DEF LimiterInv, LimiterTypeOK
  <2>3. Burst[b] + Rate[b] * tick \in Nat
    <3>1. Rate[b] \in Nat /\ Burst[b] \in Nat
      BY Constants
    <3>2. Rate[b] * tick \in Nat
      BY <2>2, <3>1, NatTimes
    <3> QED
      BY <3>1, <3>2
  <2>4. PICK m : m = Burst[b] + Rate[b] * tick
    OBVIOUS
  <2>5. Burst[b] + Rate[b] * tick' = m
    BY <2>4
  <2>7. tokens[b] + paid[b] <= m /\ m \in Nat
    BY <2>1, <2>3, <2>4
  <2>8. tokens'[b] + paid'[b] <= tokens[b] + paid[b] /\ tokens'[b] \in Nat /\ paid'[b] \in Nat
    BY <1>3
  <2>6. tokens'[b] + paid'[b] <= m
    BY <2>2, <2>7, <2>8
  <2> QED
    BY <2>5, <2>6
<1>7. Conserved'
  BY <1>1, <1>6 DEF Conserved
<1>8. Charges'
  <2>1. \A d \in Sender \ {c} : ChargesOf(d)'
    BY DEF ChargesOf, Charges, LimiterInv
  <2>2. \A d \in Sender : ChargesOf(d)'
    BY <2>1
  <2> QED
    BY <2>2, Zenon DEF Charges
<1> QED
  BY <1>5, <1>7, <1>8 DEF LimiterInv

\* The same where no bucket is touched.
LEMMA OneMovesOn ==
  ASSUME LimiterInv, NEW c \in Sender, UNCHANGED <<tick, tokens, paid>>,
         transfer' \in [Sender -> TransferRecord],
         charged' \in [Sender -> SUBSET Bucket],
         \A d \in Sender \ {c} : transfer'[d] = transfer[d] /\ charged'[d] = charged[d],
         ChargesOf(c)',
         \A b \in Bucket : Share(c, b)' <= Share(c, b)
  PROVE  LimiterInv'
<1>1. /\ tokens \in [Bucket -> Nat]
      /\ paid \in [Bucket -> Nat]
      /\ \A b \in Bucket : tokens[b] <= Burst[b]
      /\ transfer \in [Sender -> TransferRecord]
  BY DEF LimiterInv, LimiterTypeOK, TransferRecord
<1>2. \A b \in Bucket : Share(c, b) \in Nat /\ Share(c, b)' \in Nat
  BY <1>1 DEF Share, TransferRecord
<1>3. \A b \in Bucket : /\ 0 <= tokens'[b]
                        /\ tokens'[b] <= Burst[b]
                        /\ tokens'[b] + paid'[b] <= tokens[b] + paid[b]
                        /\ paid'[b] - paid[b] >= Share(c, b)' - Share(c, b)
  <2> SUFFICES ASSUME NEW b \in Bucket
               PROVE  /\ 0 <= tokens'[b]
                      /\ tokens'[b] <= Burst[b]
                      /\ tokens'[b] + paid'[b] <= tokens[b] + paid[b]
                      /\ paid'[b] - paid[b] >= Share(c, b)' - Share(c, b)
    OBVIOUS
  <2>1. tokens'[b] = tokens[b] /\ paid'[b] = paid[b] /\ tokens[b] \in Nat /\ paid[b] \in Nat
    BY <1>1
  <2>2. PICK m, n : m = Share(c, b) /\ n = Share(c, b)'
    OBVIOUS
  <2>3. m \in Nat /\ n \in Nat /\ n <= m
    BY <1>2, <2>2
  <2>4. paid'[b] - paid[b] >= n - m
    BY <2>1, <2>3
  <2> QED
    BY <1>1, <2>1, <2>2, <2>4
<1>4. tokens' \in [Bucket -> Int] /\ paid' \in [Bucket -> Int]
  BY <1>1
<1> QED
  BY <1>3, <1>4, OneMoves

\* A quotient rounded up is a number.
LEMMA CeilDivNat ==
  ASSUME NEW m \in Nat, NEW n \in Nat \ {0}
  PROVE  CeilDiv(m, n) \in Nat
<1>1. PICK k \in Nat : k = m + n - 1
  OBVIOUS
<1>2. k \div n \in Nat
  BY Z3
<1> QED
  BY <1>1, <1>2 DEF CeilDiv

\* What the invariant says of one transfer and of the buckets.
LEMMA SenderNow ==
  ASSUME LimiterInv, NEW c \in Sender
  PROVE  /\ transfer \in [Sender -> TransferRecord]
         /\ transfer[c] \in TransferRecord
         /\ charged \in [Sender -> SUBSET Bucket]
         /\ tokens \in [Bucket -> Nat]
         /\ paid \in [Bucket -> Nat]
         /\ \A b \in Bucket : tokens[b] <= Burst[b]
         /\ ChargesOf(c)
  BY DEF LimiterInv, LimiterTypeOK, TransferRecord, Charges

\* The bucket a transfer is at.
LEMMA HereIs ==
  ASSUME LimiterInv, NEW c \in Sender, transfer[c].at \in 1 .. Len(Path[c])
  PROVE  Here(c) \in Bucket
  BY Constants DEF Here

\* A transfer that is not at the end of its path is at one of its buckets.
LEMMA NotAtEnd ==
  ASSUME LimiterInv, NEW c \in Sender, ~AtEnd(c)
  PROVE  transfer[c].at \in 1 .. Len(Path[c])
<1>1. transfer[c].at \in 1 .. (Len(Path[c]) + 1)
  BY SenderNow DEF ChargesOf
<1>2. Len(Path[c]) \in Nat
  BY Constants
<1> QED
  BY <1>1, <1>2 DEF AtEnd

\* Zero is a number.
LEMMA NatZero == 0 \in Nat /\ 1 \in Nat
  OBVIOUS

\* A transfer starts.
LEMMA StartTransferStep ==
  ASSUME LimiterInv, NEW c \in Sender, NEW bytes \in Sizes, StartTransfer(c, bytes)
  PROVE  LimiterInv'
<1>1. transfer'[c] = [pc |-> "check", bytes |-> bytes, at |-> 1, wait |-> 0, failed |-> 0]
  BY SenderNow DEF StartTransfer, NoTransfer
<1>2. bytes \in Nat
  BY LimiterAssumption
<1>3. transfer'[c] \in TransferRecord
  BY <1>1, <1>2, NatZero DEF TransferRecord
<1>4. transfer' \in [Sender -> TransferRecord]
  BY <1>3, SenderNow DEF StartTransfer
<1>5. charged' \in [Sender -> SUBSET Bucket] /\ charged'[c] = {}
  BY SenderNow DEF StartTransfer
<1>6. ChargesOf(c)'
  <2>1. 1 \in 1 .. (Len(Path[c]) + 1)
    BY Constants
  <2> QED
    BY <1>1, <1>5, <2>1 DEF ChargesOf
<1>7. \A d \in Sender \ {c} : transfer'[d] = transfer[d] /\ charged'[d] = charged[d]
  BY SenderNow DEF StartTransfer
<1>8. \A b \in Bucket : Share(c, b) = 0 /\ Share(c, b)' = 0
  BY <1>1 DEF Share, StartTransfer
<1>9. \A b \in Bucket : Share(c, b)' <= Share(c, b)
  BY <1>8
<1>10. UNCHANGED <<tick, tokens, paid>>
  BY DEF StartTransfer
<1> QED
  BY <1>4, <1>5, <1>6, <1>7, <1>9, <1>10, OneMovesOn

\* A wait is a number of ticks.
LEMMA WaitTyped ==
  ASSUME LimiterInv, NEW c \in Sender, NEW b \in Bucket
  PROVE  WaitTime(b, transfer[c].bytes) \in Nat
<1>1. transfer[c].bytes \in Nat
  BY SenderNow DEF TransferRecord
<1>2. tokens[b] \in Nat /\ Rate[b] \in Nat \ {0}
  BY SenderNow, Constants
<1>3. CASE tokens[b] >= transfer[c].bytes
  BY <1>3, NatZero DEF WaitTime
<1>4. CASE tokens[b] < transfer[c].bytes
  <2>1. transfer[c].bytes - tokens[b] \in Nat
    BY <1>1, <1>2, <1>4
  <2>2. CeilDiv(transfer[c].bytes - tokens[b], Rate[b]) \in Nat
    BY <1>2, <2>1, CeilDivNat
  <2>3. ~(tokens[b] >= transfer[c].bytes)
    BY <1>1, <1>2, <1>4
  <2> QED
    BY <2>2, <2>3 DEF WaitTime
<1> QED
  BY <1>1, <1>2, <1>3, <1>4

\* A look at a bucket, which refills it and charges it when there is enough.
LEMMA CheckBucketStep ==
  ASSUME LimiterInv, NEW c \in Sender, CheckBucket(c)
  PROVE  LimiterInv'
<1>1. transfer[c].at \in 1 .. Len(Path[c]) /\ Here(c) \in Bucket
  BY NotAtEnd, HereIs DEF CheckBucket
<1>2. PICK w \in Nat : w = WaitTime(Here(c), transfer[c].bytes)
  BY <1>1, WaitTyped
<1>3. AtLeast(transfer[c].wait, w) \in Nat
  BY SenderNow DEF AtLeast, TransferRecord
<1>4. transfer'[c] = [transfer[c] EXCEPT !.at = @ + 1, !.wait = AtLeast(@, w)]
  BY <1>2, SenderNow DEF CheckBucket
<1>5. transfer[c].at + 1 \in Nat
  BY <1>1
<1>6. transfer'[c] \in TransferRecord
  BY <1>3, <1>4, <1>5, SenderNow DEF TransferRecord
<1>7. transfer' \in [Sender -> TransferRecord]
  BY <1>6, SenderNow DEF CheckBucket
<1>8. transfer'[c].pc = "check" /\ transfer[c].pc = "check" /\ transfer'[c].at = transfer[c].at + 1
  BY <1>4, SenderNow DEF TransferRecord, CheckBucket
<1>9. charged' = charged
  BY DEF CheckBucket
<1>10. ChargesOf(c)'
  <2>1. transfer[c].at + 1 \in 1 .. (Len(Path[c]) + 1)
    BY <1>1, Constants
  <2>2. charged[c] = {}
    BY <1>8, SenderNow DEF ChargesOf
  <2> QED
    BY <1>8, <1>9, <2>1, <2>2 DEF ChargesOf
<1>11. \A d \in Sender \ {c} : transfer'[d] = transfer[d] /\ charged'[d] = charged[d]
  BY <1>9, SenderNow DEF CheckBucket
<1>12. \A b \in Bucket : Share(c, b)' <= Share(c, b)
  BY <1>8 DEF Share
<1>13. UNCHANGED <<tick, tokens, paid>>
  BY DEF CheckBucket
<1> QED
  BY <1>7, <1>9, <1>10, <1>11, <1>12, <1>13, SenderNow, OneMovesOn

\* A step that only takes a transfer to another point of its course.
LEMMA CourseStep ==
  ASSUME LimiterInv, NEW c \in Sender, UNCHANGED <<tick, tokens, paid>>,
         NEW t \in TransferRecord, t.bytes = transfer[c].bytes,
         transfer' = [transfer EXCEPT ![c] = t],
         charged' = charged,
         ChargesOf(c)',
         t.pc \in {"acquire", "refund"} =>
           \/ charged[c] = {}
           \/ transfer[c].pc \in {"acquire", "refund"}
  PROVE  LimiterInv'
<1>1. transfer'[c] = t
  BY SenderNow
<1>4. transfer' \in [Sender -> TransferRecord]
  BY SenderNow
<1>5. \A d \in Sender \ {c} : transfer'[d] = transfer[d] /\ charged'[d] = charged[d]
  BY SenderNow
<1>6. transfer[c].bytes \in Nat
  BY SenderNow DEF TransferRecord
<1>7. \A b \in Bucket : Share(c, b)' <= Share(c, b)
  BY <1>1, <1>6 DEF Share
<1> QED
  BY <1>4, <1>5, <1>7, SenderNow, OneMovesOn

\* Every bucket of the path was charged.
LEMMA CheckEndsStep ==
  ASSUME LimiterInv, NEW c \in Sender, CheckEnds(c)
  PROVE  LimiterInv'
<1> DEFINE p == IF transfer[c].wait = 0 THEN "acquire" ELSE "sleep"
           t == [transfer[c] EXCEPT !.pc = p, !.at = 1]
<1>1. /\ t \in TransferRecord
      /\ t.bytes = transfer[c].bytes
      /\ t.at = 1
      /\ t.pc \in {"acquire", "sleep"}
  BY NatZero, SenderNow DEF TransferRecord
<1>2. transfer' = [transfer EXCEPT ![c] = t]
  BY SenderNow DEF CheckEnds
<1>3. charged' = charged /\ UNCHANGED <<tick, tokens, paid>> /\ transfer[c].pc = "check"
  BY DEF CheckEnds
<1> HIDE DEF t
<1>4. transfer'[c] = t
  BY <1>2, SenderNow
<1>5. charged[c] = {}
  BY <1>3, SenderNow DEF ChargesOf
<1>6. ChargesOf(c)'
  <2>1. 1 \in 1 .. (Len(Path[c]) + 1)
    BY Constants
  <2>2. {Path[c][i] : i \in 1 .. (1 - 1)} = {}
    OBVIOUS
  <2> QED
    BY <1>1, <1>3, <1>4, <1>5, <2>1, <2>2 DEF ChargesOf
<1> QED
  BY <1>1, <1>2, <1>3, <1>5, <1>6, CourseStep

\* Every bucket before the one that refused was given its tokens back.
LEMMA RefundEndsStep ==
  ASSUME LimiterInv, NEW c \in Sender, RefundEnds(c)
  PROVE  LimiterInv'
<1> DEFINE t == [transfer[c] EXCEPT !.pc = "pass"]
<1>1. t \in TransferRecord /\ t.bytes = transfer[c].bytes /\ t.at = transfer[c].at /\ t.pc = "pass"
  BY SenderNow DEF TransferRecord
<1>2. transfer' = [transfer EXCEPT ![c] = t] /\ charged' = charged /\ UNCHANGED <<tick,
                                                                                  tokens,
                                                                                  paid>>
  BY SenderNow DEF RefundEnds
<1> HIDE DEF t
<1>3. transfer'[c] = t
  BY <1>2, SenderNow
<1>4. ChargesOf(c)'
  BY <1>1, <1>3, SenderNow DEF ChargesOf
<1> QED
  BY <1>1, <1>2, <1>4, CourseStep

\* Every bucket let the transfer through.
LEMMA AcquireEndsStep ==
  ASSUME LimiterInv, NEW c \in Sender, AcquireEnds(c)
  PROVE  LimiterInv'
<1> DEFINE t == [transfer[c] EXCEPT !.pc = "pass"]
<1>1. t \in TransferRecord /\ t.bytes = transfer[c].bytes /\ t.at = transfer[c].at /\ t.pc = "pass"
  BY SenderNow DEF TransferRecord
<1>2. transfer' = [transfer EXCEPT ![c] = t] /\ charged' = charged /\ UNCHANGED <<tick,
                                                                                  tokens,
                                                                                  paid>>
  BY SenderNow DEF AcquireEnds
<1> HIDE DEF t
<1>3. transfer'[c] = t
  BY <1>2, SenderNow
<1>4. ChargesOf(c)'
  BY <1>1, <1>3, SenderNow DEF ChargesOf
<1> QED
  BY <1>1, <1>2, <1>4, CourseStep

\* The sleep of a transfer is over.
LEMMA WakesStep ==
  ASSUME LimiterInv, NEW c \in Sender, Wakes(c)
  PROVE  LimiterInv'
<1> DEFINE t == [transfer[c] EXCEPT !.pc = "record"]
<1>1. t \in TransferRecord /\ t.bytes = transfer[c].bytes /\ t.at = transfer[c].at /\ t.pc = "record"
  BY SenderNow DEF TransferRecord
<1>2. transfer' = [transfer EXCEPT ![c] = t] /\ charged' = charged /\ UNCHANGED <<tick,
                                                                                  tokens,
                                                                                  paid>>
  BY SenderNow DEF Wakes
<1> HIDE DEF t
<1>3. transfer'[c] = t
  BY <1>2, SenderNow
<1>4. ChargesOf(c)'
  BY <1>1, <1>3, SenderNow DEF ChargesOf
<1> QED
  BY <1>1, <1>2, <1>4, CourseStep

\* The transfer is recorded along its path.
LEMMA RecordEndsStep ==
  ASSUME LimiterInv, NEW c \in Sender, RecordEnds(c)
  PROVE  LimiterInv'
<1> DEFINE t == [transfer[c] EXCEPT !.pc = "pass"]
<1>1. t \in TransferRecord /\ t.bytes = transfer[c].bytes /\ t.at = transfer[c].at /\ t.pc = "pass"
  BY SenderNow DEF TransferRecord
<1>2. transfer' = [transfer EXCEPT ![c] = t] /\ charged' = charged /\ UNCHANGED <<tick,
                                                                                  tokens,
                                                                                  paid>>
  BY SenderNow DEF RecordEnds
<1> HIDE DEF t
<1>3. transfer'[c] = t
  BY <1>2, SenderNow
<1>4. ChargesOf(c)'
  BY <1>1, <1>3, SenderNow DEF ChargesOf
<1> QED
  BY <1>1, <1>2, <1>4, CourseStep

\* A step that leaves the buckets alone.
LEMMA PassOnStep ==
  ASSUME LimiterInv, NEW c \in Sender, PassOn(c)
  PROVE  LimiterInv'
<1>1. transfer'[c] = [pc |-> "idle", bytes |-> 0, at |-> 1, wait |-> 0, failed |-> 0]
  BY SenderNow DEF PassOn, NoTransfer
<1>2. transfer'[c] \in TransferRecord
  BY <1>1, NatZero DEF TransferRecord
<1>3. transfer' \in [Sender -> TransferRecord]
  BY <1>2, SenderNow DEF PassOn
<1>4. charged' \in [Sender -> SUBSET Bucket] /\ charged'[c] = {}
  BY SenderNow DEF PassOn
<1>5. ChargesOf(c)'
  <2>1. 1 \in 1 .. (Len(Path[c]) + 1)
    BY Constants
  <2> QED
    BY <1>1, <1>4, <2>1 DEF ChargesOf
<1>6. \A d \in Sender \ {c} : transfer'[d] = transfer[d] /\ charged'[d] = charged[d]
  BY SenderNow DEF PassOn
<1>7. \A b \in Bucket : Share(c, b)' <= Share(c, b)
  BY <1>1, SenderNow DEF Share, PassOn
<1>8. UNCHANGED <<tick, tokens, paid>>
  BY DEF PassOn
<1> QED
  BY <1>3, <1>4, <1>5, <1>6, <1>7, <1>8, OneMovesOn

\* What one access to a bucket does to it.
LEMMA AcquireBucketStep ==
  ASSUME LimiterInv, NEW c \in Sender, AcquireBucket(c)
  PROVE  LimiterInv'
<1>1. transfer[c].at \in 1 .. Len(Path[c]) /\ Here(c) \in Bucket
  BY NotAtEnd, HereIs DEF AcquireBucket
<1>2. transfer[c].pc = "acquire" /\ tick' = tick /\ transfer[c].bytes \in Nat
  BY SenderNow DEF AcquireBucket, TransferRecord
<1>3. charged[c] = {Path[c][i] : i \in 1 .. (transfer[c].at - 1)}
  BY <1>2, SenderNow DEF ChargesOf
<1>4. CASE /\ TryConsume(Here(c), transfer[c].bytes)
           /\ transfer' = [transfer EXCEPT ![c].at = @ + 1]
           /\ charged' = [charged EXCEPT ![c] = @ \cup {Here(c)}]
  <2>0. transfer[c].at + 1 \in Nat
    BY <1>1
  <2>1. transfer'[c] = [transfer[c] EXCEPT !.at = @ + 1]
    BY <1>4, SenderNow
  <2>2. /\ transfer'[c] \in TransferRecord
        /\ transfer'[c].at = transfer[c].at + 1
        /\ transfer'[c].pc = "acquire"
        /\ transfer'[c].bytes = transfer[c].bytes
    BY <1>2, <2>0, <2>1, SenderNow DEF TransferRecord
  <2>3. transfer' \in [Sender -> TransferRecord]
    BY <1>4, <2>2, SenderNow
  <2>4. charged' \in [Sender -> SUBSET Bucket] /\ charged'[c] = charged[c] \cup {Here(c)}
    BY <1>1, <1>4, SenderNow
  <2>5. ChargesOf(c)'
    <3>1. transfer[c].at + 1 \in 1 .. (Len(Path[c]) + 1)
      BY <1>1, Constants
    <3>2. 1 .. (transfer'[c].at - 1) = (1 .. (transfer[c].at - 1)) \cup {transfer[c].at}
      BY <1>1, <2>2, Constants
    <3>3. charged'[c] = {Path[c][i] : i \in 1 .. (transfer'[c].at - 1)}
      BY <1>3, <2>4, <3>2 DEF Here
    <3> QED
      BY <2>2, <3>1, <3>3 DEF ChargesOf
  <2>6. \A d \in Sender \ {c} : transfer'[d] = transfer[d] /\ charged'[d] = charged[d]
    BY <1>4, SenderNow
  <2>7. /\ tokens' = [tokens EXCEPT ![Here(c)] = @ - transfer[c].bytes]
        /\ paid' = [paid EXCEPT ![Here(c)] = @ + transfer[c].bytes]
        /\ tokens[Here(c)] >= transfer[c].bytes
    BY <1>4 DEF TryConsume
  <2>8. tokens' \in [Bucket -> Int] /\ paid' \in [Bucket -> Int]
    BY <1>1, <1>2, <2>7, SenderNow
  <2>9. ASSUME NEW b \in Bucket
        PROVE  /\ 0 <= tokens'[b]
               /\ tokens'[b] <= Burst[b]
               /\ tokens'[b] + paid'[b] <= tokens[b] + paid[b]
               /\ paid'[b] - paid[b] >= Share(c, b)' - Share(c, b)
    <3>1. tokens[b] \in Nat /\ paid[b] \in Nat /\ tokens[b] <= Burst[b] /\ Burst[b] \in Nat
      BY SenderNow, Constants
    <3>2. CASE b = Here(c)
      <4>1. tokens'[b] = tokens[b] - transfer[c].bytes /\ paid'[b] = paid[b] + transfer[c].bytes
        BY <1>1, <2>7, <3>2, SenderNow
      <4>2. PICK m \in Nat, n \in Nat : Share(c, b) = m /\ Share(c, b)' = n /\ n <= transfer[c].bytes
        BY <1>2, <2>2 DEF Share
      <4> QED
        BY <1>2, <2>7, <3>1, <3>2, <4>1, <4>2
    <3>3. CASE b # Here(c)
      <4>1. tokens'[b] = tokens[b] /\ paid'[b] = paid[b]
        BY <2>7, <3>3, SenderNow
      <4>2. PICK m \in Nat : Share(c, b) = m /\ Share(c, b)' = m
        BY <1>2, <2>2, <2>4, <3>3 DEF Share
      <4> QED
        BY <3>1, <4>1, <4>2
    <3> QED
      BY <3>2, <3>3
  <2> QED
    BY <1>2, <2>3, <2>4, <2>5, <2>6, <2>8, <2>9, OneMoves
<1>5. CASE /\ tokens[Here(c)] < transfer[c].bytes
           /\ transfer' = [transfer EXCEPT ![c].pc = "refund", ![c].failed = transfer[c].at,
                                           ![c].at = 1]
           /\ UNCHANGED <<tokens, paid, charged>>
  <2> DEFINE t == [transfer[c] EXCEPT !.pc = "refund", !.failed = transfer[c].at, !.at = 1]
  <2>1. /\ t \in TransferRecord
        /\ t.bytes = transfer[c].bytes
        /\ t.at = 1
        /\ t.failed = transfer[c].at
        /\ t.pc = "refund"
    BY NatZero, SenderNow DEF TransferRecord
  <2>2. transfer' = [transfer EXCEPT ![c] = t]
    BY <1>5, SenderNow
  <2> HIDE DEF t
  <2>3. transfer'[c] = t
    BY <2>2, SenderNow
  <2>4. ChargesOf(c)'
    <3>1. 1 \in 1 .. (Len(Path[c]) + 1) /\ 1 \in 1 .. transfer[c].at
      BY <1>1, Constants
    <3>2. charged'[c] = charged[c]
      BY <1>5
    <3> QED
      BY <1>1, <1>3, <2>1, <2>3, <3>1, <3>2 DEF ChargesOf
  <2> QED
    BY <1>2, <1>5, <2>1, <2>2, <2>4, CourseStep
<1> QED
  BY <1>4, <1>5 DEF AcquireBucket

\* Products one further.
LEMMA TimesNext ==
  ASSUME NEW m \in Nat, NEW n \in Nat
  PROVE  m * (n + 1) = m * n + m
OBVIOUS

\* A bucket gets its tokens back, up to its burst.
LEMMA RefundBucketStep ==
  ASSUME LimiterInv, NEW c \in Sender, RefundBucket(c)
  PROVE  LimiterInv'
<1>1. /\ transfer[c].pc = "refund" /\ tick' = tick
      /\ transfer[c].bytes \in Nat
      /\ transfer[c].failed \in 1 .. Len(Path[c])
      /\ transfer[c].at \in 1 .. transfer[c].failed
      /\ transfer[c].at < transfer[c].failed
      /\ charged[c] = {Path[c][i] : i \in transfer[c].at .. (transfer[c].failed - 1)}
  BY SenderNow DEF RefundBucket, TransferRecord, ChargesOf
<1>2. Len(Path[c]) \in Nat /\ transfer[c].at \in 1 .. Len(Path[c])
  BY <1>1, Constants
<1>3. Here(c) \in Bucket
  BY <1>2, HereIs
<1>4. Here(c) \in charged[c]
  <2>1. transfer[c].at \in transfer[c].at .. (transfer[c].failed - 1)
    BY <1>1, <1>2
  <2> QED
    BY <1>1, <2>1 DEF Here
<1>5. transfer[c].at + 1 \in Nat
  BY <1>2
<1>6. transfer'[c] = [transfer[c] EXCEPT !.at = @ + 1]
  BY SenderNow DEF RefundBucket
<1>7. /\ transfer'[c] \in TransferRecord
      /\ transfer'[c].at = transfer[c].at + 1
      /\ transfer'[c].failed = transfer[c].failed
      /\ transfer'[c].pc = "refund"
      /\ transfer'[c].bytes = transfer[c].bytes
  BY <1>1, <1>5, <1>6, SenderNow DEF TransferRecord
<1>8. transfer' \in [Sender -> TransferRecord]
  BY <1>7, SenderNow DEF RefundBucket
<1>9. charged' \in [Sender -> SUBSET Bucket] /\ charged'[c] = charged[c] \ {Here(c)}
  BY SenderNow DEF RefundBucket
<1>10. ChargesOf(c)'
  <2>1. /\ transfer[c].at + 1 \in 1 .. (Len(Path[c]) + 1)
        /\ transfer[c].at + 1 \in 1 .. transfer[c].failed
    BY <1>1, <1>2
  <2>2. /\ transfer'[c].at .. (transfer'[c].failed - 1)
             = (transfer[c].at .. (transfer[c].failed - 1)) \ {transfer[c].at}
        /\ transfer[c].at .. (transfer[c].failed - 1) \subseteq 1 .. Len(Path[c])
    BY <1>1, <1>2, <1>7
  <2>3. \A i, j \in 1 .. Len(Path[c]) : Path[c][i] = Path[c][j] => i = j
    BY Constants
  <2>4. charged'[c] = {Path[c][i] : i \in transfer'[c].at .. (transfer'[c].failed - 1)}
    BY <1>1, <1>2, <1>9, <2>2, <2>3 DEF Here
  <2> QED
    BY <1>1, <1>7, <2>1, <2>4 DEF ChargesOf
<1>11. \A d \in Sender \ {c} : transfer'[d] = transfer[d] /\ charged'[d] = charged[d]
  BY SenderNow DEF RefundBucket
<1>12. PICK h : h = Here(c)
  OBVIOUS
<1>13. /\ tokens' = [tokens EXCEPT ![h] = AtMost(@ + transfer[c].bytes, Burst[h])]
       /\ paid' = [paid EXCEPT ![h] = @ - transfer[c].bytes]
  BY <1>12 DEF RefundBucket, Refund
<1>14. /\ tokens[h] \in Nat /\ paid[h] \in Nat /\ Burst[h] \in Nat
       /\ tokens'[h] = AtMost(tokens[h] + transfer[c].bytes, Burst[h])
       /\ paid'[h] = paid[h] - transfer[c].bytes
  BY <1>3, <1>12, <1>13, SenderNow, Constants
<1>15. PICK k : k = tokens'[h]
  OBVIOUS
<1>16. k \in Nat /\ k <= Burst[h] /\ k <= tokens[h] + transfer[c].bytes
  BY <1>1, <1>14, <1>15 DEF AtMost
<1>17. tokens' \in [Bucket -> Int] /\ paid' \in [Bucket -> Int]
  <2>1. PICK p : p = paid[h] - transfer[c].bytes
    OBVIOUS
  <2>2. p \in Int
    BY <1>1, <1>14, <2>1
  <2>3. tokens' = [tokens EXCEPT ![h] = k] /\ paid' = [paid EXCEPT ![h] = p]
    BY <1>13, <1>14, <1>15, <2>1
  <2>4. tokens \in [Bucket -> Int] /\ paid \in [Bucket -> Int] /\ k \in Int
    BY <1>16, SenderNow
  <2> QED
    BY <2>2, <2>3, <2>4
<1>18. ASSUME NEW b \in Bucket
       PROVE  /\ 0 <= tokens'[b]
              /\ tokens'[b] <= Burst[b]
              /\ tokens'[b] + paid'[b] <= tokens[b] + paid[b]
              /\ paid'[b] - paid[b] >= Share(c, b)' - Share(c, b)
  <2>1. tokens[b] \in Nat /\ paid[b] \in Nat /\ tokens[b] <= Burst[b] /\ Burst[b] \in Nat
    BY SenderNow, Constants
  <2>2. CASE b = h
    <3>1. Share(c, b) = transfer[c].bytes /\ Share(c, b)' = 0
      BY <1>1, <1>4, <1>7, <1>9, <1>12, <2>2 DEF Share
    <3> QED
      BY <1>1, <1>14, <1>15, <1>16, <2>1, <2>2, <3>1
  <2>3. CASE b # h
    <3>1. tokens'[b] = tokens[b] /\ paid'[b] = paid[b]
      BY <1>13, <2>3, SenderNow
    <3>2. PICK m \in Nat : Share(c, b) = m /\ Share(c, b)' = m
      BY <1>1, <1>7, <1>9, <1>12, <2>3 DEF Share
    <3> QED
      BY <2>1, <3>1, <3>2
  <2> QED
    BY <2>2, <2>3
<1> QED
  BY <1>1, <1>8, <1>9, <1>10, <1>11, <1>17, <1>18, OneMoves

\* A bucket is charged for bytes that have been sent.
LEMMA RecordBucketStep ==
  ASSUME LimiterInv, NEW c \in Sender, RecordBucket(c)
  PROVE  LimiterInv'
<1>1. /\ transfer[c].pc = "record" /\ tick' = tick
      /\ transfer[c].bytes \in Nat
      /\ transfer[c].at \in 1 .. Len(Path[c])
  BY NotAtEnd, SenderNow DEF RecordBucket, TransferRecord
<1>3. Here(c) \in Bucket
  BY <1>1, HereIs
<1>5. transfer[c].at + 1 \in Nat
  BY <1>1
<1>6. transfer'[c] = [transfer[c] EXCEPT !.at = @ + 1]
  BY SenderNow DEF RecordBucket
<1>7. /\ transfer'[c] \in TransferRecord
      /\ transfer'[c].at = transfer[c].at + 1
      /\ transfer'[c].pc = "record"
  BY <1>1, <1>5, <1>6, SenderNow DEF TransferRecord
<1>8. transfer' \in [Sender -> TransferRecord]
  BY <1>7, SenderNow DEF RecordBucket
<1>9. charged' \in [Sender -> SUBSET Bucket]
  BY <1>3, SenderNow DEF RecordBucket
<1>10. ChargesOf(c)'
  <2>1. transfer[c].at + 1 \in 1 .. (Len(Path[c]) + 1)
    BY <1>1, Constants
  <2> QED
    BY <1>7, <2>1 DEF ChargesOf
<1>11. \A d \in Sender \ {c} : transfer'[d] = transfer[d] /\ charged'[d] = charged[d]
  BY SenderNow DEF RecordBucket
<1>12. PICK h : h = Here(c)
  OBVIOUS
<1>13. /\ tokens' = [tokens EXCEPT ![h] = AtLeast(@ - transfer[c].bytes, 0)]
       /\ paid' = [paid EXCEPT ![h] = @ + AtMost(tokens[h], transfer[c].bytes)]
  BY <1>12 DEF RecordBucket, Record
<1>14. /\ tokens[h] \in Nat /\ paid[h] \in Nat /\ tokens[h] <= Burst[h] /\ Burst[h] \in Nat
       /\ tokens'[h] = AtLeast(tokens[h] - transfer[c].bytes, 0)
       /\ paid'[h] = paid[h] + AtMost(tokens[h], transfer[c].bytes)
  BY <1>3, <1>12, <1>13, SenderNow, Constants
<1>15. PICK k, p : k = tokens'[h] /\ p = paid'[h]
  OBVIOUS
<1>16. k \in Nat /\ k <= tokens[h] /\ p \in Nat /\ k + p = tokens[h] + paid[h] /\ paid[h] <= p
  <2>1. CASE tokens[h] <= transfer[c].bytes
    BY <1>1, <1>14, <1>15, <2>1 DEF AtMost, AtLeast
  <2>2. CASE ~(tokens[h] <= transfer[c].bytes)
    BY <1>1, <1>14, <1>15, <2>2 DEF AtMost, AtLeast
  <2> QED
    BY <2>1, <2>2
<1>17. tokens' \in [Bucket -> Int] /\ paid' \in [Bucket -> Int]
  <2>1. tokens' = [tokens EXCEPT ![h] = k] /\ paid' = [paid EXCEPT ![h] = p]
    BY <1>13, <1>14, <1>15
  <2>2. tokens \in [Bucket -> Int] /\ paid \in [Bucket -> Int] /\ k \in Int /\ p \in Int
    BY <1>16, SenderNow
  <2> QED
    BY <2>1, <2>2
<1>18. ASSUME NEW b \in Bucket
       PROVE  /\ 0 <= tokens'[b]
              /\ tokens'[b] <= Burst[b]
              /\ tokens'[b] + paid'[b] <= tokens[b] + paid[b]
              /\ paid'[b] - paid[b] >= Share(c, b)' - Share(c, b)
  <2>1. tokens[b] \in Nat /\ paid[b] \in Nat /\ tokens[b] <= Burst[b] /\ Burst[b] \in Nat
    BY SenderNow, Constants
  <2>2. Share(c, b) = 0 /\ Share(c, b)' = 0
    BY <1>1, <1>7 DEF Share
  <2>3. CASE b = h
    BY <1>14, <1>15, <1>16, <2>1, <2>2, <2>3
  <2>4. CASE b # h
    <3>1. tokens'[b] = tokens[b] /\ paid'[b] = paid[b]
      BY <1>13, <2>4, SenderNow
    <3> QED
      BY <2>1, <2>2, <3>1
  <2> QED
    BY <2>3, <2>4
<1> QED
  BY <1>1, <1>8, <1>9, <1>10, <1>11, <1>17, <1>18, OneMoves

\* Time refills the buckets, at their rate and up to their size.
LEMMA TickStep ==
  ASSUME LimiterInv, Tick
  PROVE  LimiterInv'
<1>1. /\ tick \in Nat /\ tick' = tick + 1 /\ tick' \in 0 .. MaxTick
      /\ charged' = charged /\ paid' = paid
      /\ charged \in [Sender -> SUBSET Bucket] /\ paid \in [Bucket -> Nat]
      /\ tokens \in [Bucket -> Nat]
      /\ transfer \in [Sender -> TransferRecord]
  BY LimiterAssumption DEF Tick, LimiterInv, LimiterTypeOK, TransferRecord
<1>2. ASSUME NEW b \in Bucket
      PROVE  /\ tokens'[b] \in Nat
             /\ tokens'[b] <= Burst[b]
             /\ tokens'[b] + paid'[b] <= Burst[b] + Rate[b] * tick'
  <2>1. tokens'[b] = AtMost(tokens[b] + Rate[b], Burst[b])
    BY DEF Tick
  <2>2. tokens[b] \in Nat /\ paid[b] \in Nat /\ Burst[b] \in Nat /\ Rate[b] \in Nat
    BY <1>1, Constants
  <2>3. PICK k : k = tokens'[b]
    OBVIOUS
  <2>4. k \in Nat /\ k <= Burst[b] /\ k <= tokens[b] + Rate[b]
    BY <2>1, <2>2, <2>3 DEF AtMost
  <2>5. PICK m \in Nat : m = Rate[b] * tick
    BY <1>1, <2>2, NatTimes
  <2>6. Rate[b] * tick' = m + Rate[b]
    BY <1>1, <2>2, <2>5, TimesNext
  <2>7. tokens[b] + paid[b] <= Burst[b] + m
    BY <2>5 DEF LimiterInv, Conserved
  <2> QED
    BY <1>1, <2>2, <2>3, <2>4, <2>6, <2>7
<1>3. tokens' \in [Bucket -> Nat]
  BY <1>2 DEF Tick
<1>4. ASSUME NEW d \in Sender
      PROVE  /\ transfer'[d] \in TransferRecord
             /\ transfer'[d].pc = transfer[d].pc
             /\ transfer'[d].at = transfer[d].at
             /\ transfer'[d].failed = transfer[d].failed
             /\ transfer'[d].bytes = transfer[d].bytes
  <2>1. transfer[d] \in TransferRecord /\ transfer[d].wait \in Nat
    BY <1>1 DEF TransferRecord
  <2>2. CASE transfer[d].pc = "sleep"
    <3>1. PICK w \in Nat : w = AtLeast(transfer[d].wait - 1, 0)
      BY <2>1 DEF AtLeast
    <3>2. transfer'[d] = [transfer[d] EXCEPT !.wait = w]
      BY <2>1, <2>2, <3>1 DEF Tick, TransferRecord
    <3> QED
      BY <2>1, <3>2 DEF TransferRecord
  <2>3. CASE transfer[d].pc # "sleep"
    BY <2>1, <2>3 DEF Tick
  <2> QED
    BY <2>2, <2>3
<1>5. transfer' \in [Sender -> TransferRecord]
  BY <1>4 DEF Tick
<1>6. LimiterTypeOK'
  BY <1>1, <1>2, <1>3, <1>5 DEF LimiterTypeOK, TransferRecord
<1>7. ASSUME NEW b \in Bucket
      PROVE  BytesOf(transfer', TakenBy(b)') <= paid'[b]
  <2>1. TakenBy(b)' = TakenBy(b)
    BY <1>1, <1>4 DEF TakenBy
  <2>2. PICK t, u, S : t = transfer /\ u = transfer' /\ S = TakenBy(b)
    OBVIOUS
  <2>3. S \in SUBSET Sender /\ IsFiniteSet(S)
    BY <2>2, LimiterAssumption, FS_Subset DEF TakenBy
  <2>4. PICK w, v : w = [d \in Sender |-> t[d].bytes] /\ v = [d \in Sender |-> u[d].bytes]
    OBVIOUS
  <2>5. BytesOf(t, S) = SumOf(w, S) /\ BytesOf(u, S) = SumOf(v, S)
    <3>1. /\ BytesOf(t, S) = SumOf([d \in Sender |-> t[d].bytes], S)
          /\ BytesOf(u, S) = SumOf([d \in Sender |-> u[d].bytes], S)
      BY <2>3, BytesSum, Zenon DEF BytesOf
    <3> QED
      BY <2>4, <3>1, Zenon
  <2>6. w = v
    BY <1>4, <2>2, <2>4
  <2>7. BytesOf(transfer, TakenBy(b)) <= paid[b]
    BY DEF LimiterInv, Conserved
  <2>8. BytesOf(transfer', TakenBy(b)') = BytesOf(transfer, TakenBy(b))
    BY <2>1, <2>2, <2>5, <2>6, Zenon
  <2> QED
    BY <1>1, <2>7, <2>8
<1>8. Conserved'
  BY <1>2, <1>7 DEF Conserved
<1>9. Charges'
  <2>1. \A d \in Sender : ChargesOf(d)'
    BY <1>1, <1>4 DEF LimiterInv, Charges, ChargesOf
  <2> QED
    BY <2>1, Zenon DEF Charges
<1> QED
  BY <1>6, <1>8, <1>9 DEF LimiterInv

\* It holds when the buckets are full and nothing is sent.
LEMMA LimiterStart == LimiterInit => LimiterInv
<1> SUFFICES ASSUME LimiterInit PROVE LimiterInv
  OBVIOUS
<1>1. /\ transfer = [d \in Sender |-> NoTransfer]
      /\ charged = [d \in Sender |-> {}]
      /\ tokens = Burst /\ tick = 0 /\ paid = [b \in Bucket |-> 0]
  BY DEF LimiterInit
<1>2. NoTransfer \in TransferRecord /\ NoTransfer.at = 1 /\ NoTransfer.pc = "idle"
  BY NatZero DEF NoTransfer, TransferRecord
<1>3. LimiterTypeOK
  <2>1. tokens \in [Bucket -> Nat] /\ \A b \in Bucket : tokens[b] <= Burst[b]
    BY <1>1, LimiterAssumption
  <2>2. transfer \in [Sender -> TransferRecord]
    BY <1>1, <1>2
  <2>3. charged \in [Sender -> SUBSET Bucket] /\ paid \in [Bucket -> Nat] /\ tick \in 0 .. MaxTick
    BY <1>1, LimiterAssumption
  <2> QED
    BY <2>1, <2>2, <2>3 DEF LimiterTypeOK, TransferRecord
<1>4. ASSUME NEW b \in Bucket
      PROVE  /\ tokens[b] + paid[b] <= Burst[b] + Rate[b] * tick
             /\ BytesOf(transfer, TakenBy(b)) <= paid[b]
  <2>1. tokens[b] = Burst[b] /\ paid[b] = 0 /\ Burst[b] \in Nat /\ Rate[b] \in Nat
    BY <1>1, Constants
  <2>2. Rate[b] * tick = 0
    BY <1>1, <2>1
  <2>3. PICK t, S : t = transfer /\ S = TakenBy(b)
    OBVIOUS
  <2>4. S = {}
    BY <1>1, <2>3 DEF TakenBy
  <2>5. S \in SUBSET Sender /\ IsFiniteSet(S)
    BY <2>4, LimiterAssumption, FS_Subset
  <2>6. BytesOf(t, S) = SumOf([d \in Sender |-> t[d].bytes], S)
    BY <2>5, BytesSum, Zenon DEF BytesOf
  <2>7. PICK w : w = [d \in Sender |-> t[d].bytes]
    OBVIOUS
  <2>8. BytesOf(t, S) = SumOf(w, S)
    BY <2>6, <2>7, Zenon
  <2>9. SumOf(w, S) = 0
    BY <2>4, SumEmpty
  <2> QED
    BY <2>1, <2>2, <2>3, <2>8, <2>9
<1>5. \A c \in Sender : ChargesOf(c)
  <2>1. \A c \in Sender : 1 \in 1 .. (Len(Path[c]) + 1)
    BY Constants
  <2> QED
    BY <1>1, <1>2, <2>1 DEF ChargesOf
<1> QED
  BY <1>3, <1>4, <1>5 DEF LimiterInv, Conserved, Charges

\* And whatever transfers run side by side.
LEMMA LimiterStep == LimiterInv /\ [LimiterNext]_limiterVars => LimiterInv'
<1> SUFFICES ASSUME LimiterInv, [LimiterNext]_limiterVars PROVE LimiterInv'
  OBVIOUS
<1>1. ASSUME NEW c \in Sender, TransferStep(c) PROVE LimiterInv'
  BY <1>1, CheckBucketStep, CheckEndsStep, AcquireBucketStep, AcquireEndsStep,
     RefundBucketStep,
     RefundEndsStep, WakesStep, RecordBucketStep, RecordEndsStep, PassOnStep DEF TransferStep
<1>2. ASSUME NEW c \in Sender, NEW bytes \in Sizes, StartTransfer(c, bytes) PROVE LimiterInv'
  BY <1>2, StartTransferStep
<1>3. CASE Tick
  BY <1>3, TickStep
<1>4. CASE UNCHANGED limiterVars
  BY <1>4 DEF limiterVars, LimiterInv, LimiterTypeOK, Conserved, Charges, ChargesOf, TakenBy
<1> QED
  BY <1>1, <1>2, <1>3, <1>4 DEF LimiterNext

\* No bucket is overdrawn or overfull, and no tokens are made out of nothing
\* (TokensConserved): refunds, refills and transfers that interleave over three locks
\* never give out more than the burst and the rate of a bucket allow.
THEOREM TokensStayConserved == LimiterSpec => [](LimiterTypeOK /\ TokensConserved)
<1>1. LimiterInv => LimiterTypeOK /\ TokensConserved
  BY ConservedIs DEF LimiterInv
<1> QED
  BY <1>1, LimiterStart, LimiterStep, PTL DEF LimiterSpec

-----------------------------------------------------------------------------
(* The list of the terminal interface *)

(* Lines *)

Different(s) == \A i, j \in DOMAIN s : s[i] = s[j] => i = j

\* f keeps what is not r of the first lines.
Keeps(f, n, s, r) ==
  f = [i \in 0 .. n |-> IF i = 0 THEN <<>> ELSE IF s[i] = r THEN f[i - 1] ELSE Append(f[i - 1], s[i])]

\* The function that retain computes is there.
LEMMA KeepsExists ==
  ASSUME NEW s, NEW r, NEW n \in Nat
  PROVE  \E f : Keeps(f, n, s, r)
<1> DEFINE N == {m \in Nat : ~ \E f : Keeps(f, m, s, r)}
<1> SUFFICES ASSUME N # {} PROVE FALSE
  OBVIOUS
<1>1. N \in SUBSET Nat
  OBVIOUS
<1>2. PICK m \in N : \A q \in N : m <= q
  BY <1>1, LeastOf
<1>3. m # 0
  <2>1. Keeps([i \in 0 .. 0 |-> <<>>], 0, s, r)
    BY DEF Keeps
  <2> QED
    BY <2>1
<1>4. m - 1 \in Nat /\ m - 1 \notin N
  BY <1>2, <1>3
<1>5. PICK f : Keeps(f, m - 1, s, r)
  BY <1>4
<1> DEFINE g == [i \in 0 .. m |-> IF i < m THEN f[i]
                                  ELSE IF s[m] = r THEN f[m - 1] ELSE Append(f[m - 1], s[m])]
<1>6. \A i \in 0 .. (m - 1) : f[i] = IF i = 0 THEN <<>> ELSE IF s[i] = r THEN f[i - 1]
                                                         ELSE Append(f[i - 1], s[i])
  BY <1>4, <1>5 DEF Keeps
<1>7. \A i \in 0 .. (m - 1) : g[i] = f[i]
  BY <1>4
<1>8. g[m] = IF s[m] = r THEN g[m - 1] ELSE Append(g[m - 1], s[m])
  BY <1>3, <1>4
<1>9. \A i \in 0 .. m : g[i] = IF i = 0 THEN <<>> ELSE IF s[i] = r THEN g[i - 1]
                                                       ELSE Append(g[i - 1], s[i])
  <2> HIDE DEF g
  <2> TAKE i \in 0 .. m
  <2>1. CASE i = m
    BY <1>3, <1>8, <2>1
  <2>2. CASE i = 0
    BY <1>4, <1>6, <1>7, <2>2
  <2>3. CASE i # 0 /\ i # m
    <3>1. i \in 0 .. (m - 1) /\ i - 1 \in 0 .. (m - 1)
      BY <1>4, <2>3
    <3>2. g[i] = f[i] /\ g[i - 1] = f[i - 1]
      BY <1>7, <3>1
    <3>3. f[i] = IF i = 0 THEN <<>> ELSE IF s[i] = r THEN f[i - 1] ELSE Append(f[i - 1], s[i])
      BY <1>6, <3>1
    <3> QED
      BY <3>2, <3>3
  <2> QED
    BY <2>1, <2>2, <2>3
<1>10. Keeps(g, m, s, r)
  BY <1>9 DEF Keeps
<1> QED
  BY <1>2, <1>10

\* It is the one Retained is defined by.
LEMMA RetainedIs ==
  ASSUME NEW S, NEW s \in Seq(S), NEW r
  PROVE  \E f : Keeps(f, Len(s), s, r) /\ Retained(s, r) = f[Len(s)]
<1>1. Len(s) \in Nat
  OBVIOUS
<1>2. \E f : Keeps(f, Len(s), s, r)
  BY <1>1, KeepsExists
<1> DEFINE f == CHOOSE f : Keeps(f, Len(s), s, r)
<1>3. Keeps(f, Len(s), s, r)
  BY <1>2
<1>4. Retained(s, r) = f[Len(s)]
  BY DEF Retained, Keeps
<1> QED
  BY <1>3, <1>4

\* Without a device its line is gone, and the others are there once each.
LEMMA RetainedOne ==
  ASSUME NEW S, NEW s \in Seq(S), Different(s), NEW r
  PROVE  /\ Retained(s, r) \in Seq(S)
         /\ Lines(Retained(s, r)) = Lines(s) \ {r}
         /\ Different(Retained(s, r))
<1>1. PICK f : Keeps(f, Len(s), s, r) /\ Retained(s, r) = f[Len(s)]
  BY RetainedIs
<1>2. Len(s) \in Nat /\ DOMAIN s = 1 .. Len(s) /\ \A i \in 1 .. Len(s) : s[i] \in S
  OBVIOUS
<1> DEFINE Good(n) == /\ f[n] \in Seq(S)
                      /\ Lines(f[n]) = {s[i] : i \in 1 .. n} \ {r}
                      /\ Different(f[n])
           N == {n \in 0 .. Len(s) : ~Good(n)}
<1>3. f[0] = <<>>
  BY <1>1, <1>2 DEF Keeps
<1>4. ASSUME NEW n \in 1 .. Len(s)
      PROVE  f[n] = IF s[n] = r THEN f[n - 1] ELSE Append(f[n - 1], s[n])
  <2>1. n \in 0 .. Len(s) /\ n # 0
    BY <1>2, <1>4
  <2>2. f[n] = IF n = 0 THEN <<>> ELSE IF s[n] = r THEN f[n - 1] ELSE Append(f[n - 1], s[n])
    BY <1>1, <2>1, Zenon DEF Keeps
  <2> QED
    BY <2>1, <2>2
<1>5. Good(0)
  <2>1. f[0] \in Seq(S)
    BY <1>3
  <2>2. DOMAIN f[0] = {} /\ {s[i] : i \in 1 .. 0} = {}
    BY <1>3
  <2>3. Lines(f[0]) = {} /\ Different(f[0])
    BY <2>2 DEF Lines, Different
  <2> QED
    BY <2>1, <2>2, <2>3
<1>6. ASSUME NEW n \in 1 .. Len(s), Good(n - 1) PROVE Good(n)
  <2> DEFINE t == f[n - 1]
  <2>1. t \in Seq(S) /\ Lines(t) = {s[i] : i \in 1 .. (n - 1)} \ {r} /\ Different(t)
    BY <1>6
  <2>2. {s[i] : i \in 1 .. n} = {s[i] : i \in 1 .. (n - 1)} \cup {s[n]}
    BY <1>2
  <2>3. CASE s[n] = r
    <3>1. f[n] = t
      BY <1>4, <2>3
    <3> QED
      BY <2>1, <2>2, <2>3, <3>1
  <2>4. CASE s[n] # r
    <3>1. f[n] = Append(t, s[n]) /\ s[n] \in S
      BY <1>2, <1>4, <2>4
    <3>2. s[n] \notin {s[i] : i \in 1 .. (n - 1)}
      BY <1>2 DEF Different
    <3> HIDE DEF t
    <3>3. f[n] \in Seq(S)
      BY <2>1, <3>1
    <3>4. /\ Len(f[n]) = Len(t) + 1 /\ Len(t) \in Nat
          /\ DOMAIN t = 1 .. Len(t) /\ DOMAIN f[n] = 1 .. (Len(t) + 1)
          /\ \A i \in 1 .. Len(t) : f[n][i] = t[i]
          /\ f[n][Len(t) + 1] = s[n]
      BY <2>1, <3>1
    <3>5. Lines(f[n]) = Lines(t) \cup {s[n]}
      BY <3>4 DEF Lines
    <3>6. s[n] \notin Lines(t)
      BY <2>1, <3>2
    <3>7. Different(f[n])
      BY <2>1, <3>4, <3>6 DEF Different, Lines
    <3>8. Lines(f[n]) = {s[i] : i \in 1 .. n} \ {r}
      BY <2>1, <2>2, <2>4, <3>5
    <3> QED
      BY <3>3, <3>7, <3>8
  <2> QED
    BY <2>3, <2>4
<1>7. N = {}
  <2> SUFFICES ASSUME N # {} PROVE FALSE
    OBVIOUS
  <2> HIDE DEF Good
  <2>1. N \in SUBSET Nat
    OBVIOUS
  <2>2. PICK n \in N : \A q \in N : n <= q
    BY <2>1, LeastOf
  <2>3. n \in 1 .. Len(s)
    BY <1>5, <2>2
  <2>4. n - 1 \in 0 .. Len(s) /\ n - 1 \notin N
    BY <2>2, <2>3
  <2> QED
    BY <1>6, <2>2, <2>3, <2>4
<1>8. Good(Len(s))
  <2> HIDE DEF Good
  <2> QED
    BY <1>2, <1>7
<1>9. {s[i] : i \in 1 .. Len(s)} = Lines(s)
  BY <1>2 DEF Lines
<1> QED
  BY <1>1, <1>8, <1>9

\* Lines that differ are as many as the devices they show.
LEMMA DifferentCount ==
  ASSUME NEW S, NEW s \in Seq(S), Different(s)
  PROVE  IsFiniteSet(Lines(s)) /\ Len(s) = Cardinality(Lines(s))
<1>1. Len(s) \in Nat /\ DOMAIN s = 1 .. Len(s) /\ s \in [1 .. Len(s) -> Lines(s)]
  BY DEF Lines
<1>2. IsFiniteSet(1 .. Len(s)) /\ Cardinality(1 .. Len(s)) = Len(s)
  BY <1>1, FS_Interval
<1>3. /\ \A t \in Lines(s) : \E i \in 1 .. Len(s) : s[i] = t
      /\ \A i, j \in 1 .. Len(s) : s[i] = s[j] => i = j
  BY <1>1 DEF Lines, Different
<1>4. s \in Surjection(1 .. Len(s), Lines(s)) /\ s \in Injection(1 .. Len(s), Lines(s))
  BY <1>1, <1>3 DEF Surjection, Injection, IsInjective
<1> QED
  BY <1>2, <1>4, FS_Surjection

\* An answer that lists a set in as many lines as it has elements repeats none.
LEMMA CountDifferent ==
  ASSUME NEW S, IsFiniteSet(S), NEW s \in [1 .. Cardinality(S) -> S], Lines(s) = S
  PROVE  s \in Seq(S) /\ Different(s) /\ Len(s) = Cardinality(S)
<1>1. Cardinality(S) \in Nat
  BY FS_CardinalityType
<1>2. s \in Seq(S) /\ Len(s) = Cardinality(S) /\ DOMAIN s = 1 .. Cardinality(S)
  BY <1>1
<1>3. IsFiniteSet(1 .. Cardinality(S)) /\ Cardinality(1 .. Cardinality(S)) = Cardinality(S)
  BY <1>1, FS_Interval
<1>6. \A t \in S : \E i \in 1 .. Cardinality(S) : s[i] = t
  BY <1>2 DEF Lines
<1>4. s \in Surjection(1 .. Cardinality(S), S)
  BY <1>6, Zenon DEF Surjection
<1>5. s \in Injection(1 .. Cardinality(S), S)
  BY <1>3, <1>4, FS_SurjSameCardinalityImpliesInj
<1>7. \A i, j \in 1 .. Cardinality(S) : s[i] = s[j] => i = j
  BY <1>5 DEF Injection, IsInjective
<1> QED
  BY <1>2, <1>7 DEF Different

\* What the list shows, or will once the answer at hand has replaced it.
Shown == IF uiLoop.pc = "refresh" THEN Lines(uiLoop.answer) ELSE Listed

UsbEvent == [kind : {"arrived", "left"}, row : Nat]

LinesHold ==
  /\ order \in Seq(Nat) /\ Different(order) /\ Lines(order) = Listed
  /\ uiLoop.pc = "refresh" =>
       /\ uiLoop.answer \in Seq(Nat) /\ Different(uiLoop.answer)
       /\ Lines(uiLoop.answer) \subseteq 1 .. rows

\* A device that came and is gone has its going behind its coming, and one that
\* went does not come back: ids are used once.
EventsHold ==
  /\ events \in Seq(UsbEvent)
  /\ \A i \in DOMAIN events : events[i].row \in 1 .. rows
  /\ \A i \in DOMAIN events :
       events[i].kind = "arrived" /\ events[i].row \notin onBus =>
         \E j \in DOMAIN events : i < j /\ events[j] = Went(events[i].row)
  /\ \A i \in DOMAIN events : events[i].kind = "left" => events[i].row \notin onBus

ShownHolds ==
  /\ \A r \in Shown \ onBus : Went(r) \in Pending
  /\ \A r \in onBus \ Shown : Came(r) \in Pending

TuiInv == TuiTypeOK /\ LinesHold /\ EventsHold /\ ShownHolds

\* A list with one more line at its end.
LEMMA LinesAppend ==
  ASSUME NEW S, NEW s \in Seq(S), NEW e \in S
  PROVE  /\ Append(s, e) \in Seq(S)
         /\ Len(s) \in Nat /\ DOMAIN s = 1 .. Len(s) /\ Len(Append(s, e)) = Len(s) + 1
         /\ DOMAIN Append(s, e) = 1 .. (Len(s) + 1)
         /\ \A i \in 1 .. Len(s) : Append(s, e)[i] = s[i]
         /\ Append(s, e)[Len(s) + 1] = e
         /\ Lines(Append(s, e)) = Lines(s) \cup {e}
<1>1. /\ Append(s, e) \in Seq(S)
      /\ Len(s) \in Nat /\ DOMAIN s = 1 .. Len(s) /\ Len(Append(s, e)) = Len(s) + 1
      /\ DOMAIN Append(s, e) = 1 .. (Len(s) + 1)
      /\ \A i \in 1 .. Len(s) : Append(s, e)[i] = s[i]
      /\ Append(s, e)[Len(s) + 1] = e
  OBVIOUS
<1> QED
  BY <1>1 DEF Lines

\* A new line is not there twice.
LEMMA AppendDifferent ==
  ASSUME NEW S, NEW s \in Seq(S), NEW e \in S, Different(s), e \notin Lines(s)
  PROVE  Different(Append(s, e))
<1>1. \A i \in 1 .. Len(s) : s[i] # e
  BY LinesAppend DEF Lines
<1>2. \A i \in 1 .. (Len(s) + 1) : i \in 1 .. Len(s) \/ i = Len(s) + 1
  BY LinesAppend
<1> QED
  BY <1>1, <1>2, LinesAppend DEF Different

\* A list without its first line.
LEMMA LinesTail ==
  ASSUME NEW S, NEW s \in Seq(S), s # <<>>
  PROVE  /\ Head(s) \in S /\ Tail(s) \in Seq(S)
         /\ Len(s) \in Nat \ {0} /\ Len(Tail(s)) = Len(s) - 1
         /\ DOMAIN s = 1 .. Len(s) /\ DOMAIN Tail(s) = 1 .. (Len(s) - 1)
         /\ Head(s) = s[1]
         /\ \A i \in 1 .. (Len(s) - 1) : Tail(s)[i] = s[i + 1]
         /\ Lines(s) = Lines(Tail(s)) \cup {Head(s)}
<1>1. /\ Head(s) \in S /\ Tail(s) \in Seq(S)
      /\ Len(s) \in Nat \ {0} /\ Len(Tail(s)) = Len(s) - 1
      /\ DOMAIN s = 1 .. Len(s) /\ DOMAIN Tail(s) = 1 .. (Len(s) - 1)
      /\ Head(s) = s[1]
      /\ \A i \in 1 .. (Len(s) - 1) : Tail(s)[i] = s[i + 1]
  OBVIOUS
<1>2. \A i \in 1 .. Len(s) : i = 1 \/ i - 1 \in 1 .. (Len(s) - 1)
  BY <1>1
<1> HIDE DEF Lines
<1>3. Lines(s) \subseteq Lines(Tail(s)) \cup {Head(s)}
  <2> SUFFICES ASSUME NEW i \in 1 .. Len(s) PROVE s[i] \in Lines(Tail(s)) \cup {Head(s)}
    BY <1>1 DEF Lines
  <2>1. CASE i = 1
    BY <1>1, <2>1
  <2>2. CASE i - 1 \in 1 .. (Len(s) - 1)
    <3>1. Tail(s)[i - 1] = s[i]
      BY <1>1, <2>2
    <3> QED
      BY <1>1, <2>2, <3>1 DEF Lines
  <2> QED
    BY <1>2, <2>1, <2>2
<1>4. Lines(Tail(s)) \cup {Head(s)} \subseteq Lines(s)
  BY <1>1 DEF Lines
<1> QED
  BY <1>1, <1>3, <1>4

\* Events name a device and whether it came or went.
LEMMA EventNames ==
  /\ \A r \in Nat : Came(r) \in UsbEvent /\ Went(r) \in UsbEvent
  /\ \A r, q : (Came(r) = Came(q) => r = q) /\ (Went(r) = Went(q) => r = q) /\ Came(r) # Went(q)
  /\ \A r : Came(r).kind = "arrived" /\ Came(r).row = r /\ Went(r).kind = "left" /\ Went(r).row = r
  /\ \A e \in UsbEvent : e.kind = "arrived" => e = Came(e.row)
  /\ \A e \in UsbEvent : e.kind = "left" => e = Went(e.row)
  BY DEF Came, Went, UsbEvent

\* One number further.
LEMMA OneAnother ==
  ASSUME NEW n \in Nat
  PROVE  1 .. n \subseteq 1 .. (n + 1) /\ n + 1 \in 1 .. (n + 1) /\ n + 1 \notin 1 .. n
  OBVIOUS

\* One more event at the end of the channel.
LEMMA EventAdded ==
  ASSUME EventsHold, NEW e \in UsbEvent, events' = Append(events, e),
         rows \in Nat, rows' \in Nat, rows <= rows', e.row \in 1 .. rows',
         \A r \in 1 .. rows : r \in onBus' <=> r \in onBus /\ e # Went(r),
         e.kind = "arrived" => e.row \in onBus',
         e.kind = "left" => e.row \notin onBus'
  PROVE  EventsHold' /\ Pending \subseteq Lines(events') \cup stolen /\ e \in Lines(events')
<1>1. /\ events' \in Seq(UsbEvent)
      /\ Len(events) \in Nat /\ DOMAIN events = 1 .. Len(events)
      /\ DOMAIN events' = 1 .. (Len(events) + 1)
      /\ \A i \in 1 .. Len(events) : events'[i] = events[i]
      /\ events'[Len(events) + 1] = e
      /\ Lines(events') = Lines(events) \cup {e}
  BY LinesAppend DEF EventsHold
<1>2. \A i \in DOMAIN events' : i \in DOMAIN events \/ i = Len(events) + 1
  BY <1>1
<1>3. \A i \in DOMAIN events' : events'[i].row \in 1 .. rows'
  BY <1>1, <1>2 DEF EventsHold
<1>4. \A i \in DOMAIN events' : events'[i].kind = "left" => events'[i].row \notin onBus'
  BY <1>1, <1>2 DEF EventsHold
<1>5. ASSUME NEW i \in DOMAIN events', events'[i].kind = "arrived", events'[i].row \notin onBus'
      PROVE  \E j \in DOMAIN events' : i < j /\ events'[j] = Went(events'[i].row)
  <2>1. i \in DOMAIN events
    BY <1>1, <1>2, <1>5
  <2>2. events'[i] = events[i] /\ events[i].row \in 1 .. rows /\ i < Len(events) + 1
    BY <1>1, <2>1 DEF EventsHold
  <2>3. CASE events[i].row \notin onBus
    <3>1. PICK j \in DOMAIN events : i < j /\ events[j] = Went(events[i].row)
      BY <1>5, <2>1, <2>2, <2>3 DEF EventsHold
    <3> QED
      BY <1>1, <2>2, <3>1
  <2>4. CASE e = Went(events[i].row)
    BY <1>1, <2>2, <2>4
  <2> QED
    BY <1>5, <2>2, <2>3, <2>4
<1> QED
  BY <1>1, <1>3, <1>4, <1>5 DEF EventsHold, Pending

\* One event less at the head of it.
LEMMA EventTaken ==
  ASSUME EventsHold, events # <<>>, events' = Tail(events), onBus' = onBus, rows' = rows
  PROVE  /\ EventsHold'
         /\ Head(events) \in UsbEvent /\ Head(events).row \in 1 .. rows
         /\ Lines(events) = Lines(events') \cup {Head(events)}
         /\ Head(events).kind = "left" => Head(events).row \notin onBus
         /\ Head(events).kind = "arrived" /\ Head(events).row \notin onBus =>
              Went(Head(events).row) \in Lines(events')
<1>1. /\ Head(events) \in UsbEvent /\ events' \in Seq(UsbEvent)
      /\ Len(events) \in Nat \ {0} /\ DOMAIN events = 1 .. Len(events)
      /\ DOMAIN events' = 1 .. (Len(events) - 1)
      /\ Head(events) = events[1]
      /\ \A i \in 1 .. (Len(events) - 1) : events'[i] = events[i + 1]
      /\ Lines(events) = Lines(events') \cup {Head(events)}
  BY LinesTail DEF EventsHold
<1>2. 1 \in DOMAIN events /\ \A i \in DOMAIN events' : i + 1 \in DOMAIN events
  BY <1>1
<1>3. \A i, j \in DOMAIN events : i < j => j - 1 \in DOMAIN events' /\ events'[j - 1] = events[j]
                                           /\ (i # 1 => i - 1 < j - 1)
  BY <1>1
<1>4. /\ \A i \in DOMAIN events' : events'[i].row \in 1 .. rows'
      /\ \A i \in DOMAIN events' : events'[i].kind = "left" => events'[i].row \notin onBus'
  BY <1>1, <1>2 DEF EventsHold
<1>5. ASSUME NEW i \in DOMAIN events', events'[i].kind = "arrived", events'[i].row \notin onBus'
      PROVE  \E j \in DOMAIN events' : i < j /\ events'[j] = Went(events'[i].row)
  <2>1. events'[i] = events[i + 1] /\ i + 1 \in DOMAIN events
    BY <1>1, <1>2
  <2>2. PICK j \in DOMAIN events : i + 1 < j /\ events[j] = Went(events[i + 1].row)
    BY <1>5, <2>1 DEF EventsHold
  <2>3. j - 1 \in DOMAIN events' /\ events'[j - 1] = events[j] /\ i < j - 1
    BY <1>1, <2>1, <2>2
  <2> QED
    BY <2>1, <2>2, <2>3
<1>6. EventsHold'
  BY <1>1, <1>4, <1>5 DEF EventsHold
<1>7. ASSUME Head(events).kind = "arrived", Head(events).row \notin onBus
      PROVE  Went(Head(events).row) \in Lines(events')
  <2>1. PICK j \in DOMAIN events : 1 < j /\ events[j] = Went(events[1].row)
    BY <1>1, <1>2, <1>7 DEF EventsHold
  <2>2. j - 1 \in DOMAIN events' /\ events'[j - 1] = Went(Head(events).row)
    BY <1>1, <1>2, <1>3, <2>1
  <2> QED
    BY <2>2 DEF Lines
<1> QED
  BY <1>1, <1>2, <1>6, <1>7 DEF EventsHold

\* What the invariant says of the devices and the events.
LEMMA RowsNow ==
  ASSUME TuiInv
  PROVE  /\ rows \in Nat /\ keys \in Nat /\ MaxRow \in Nat /\ MaxKey \in Nat
         /\ onBus \subseteq 1 .. rows /\ Listed \subseteq 1 .. rows /\ rows <= MaxRow
         /\ keys <= MaxKey
         /\ selected \in Nat /\ selected <= MaxRow
         /\ Len(events) \in Nat /\ Len(events) <= EventRoom /\ EventRoom \in Nat
         /\ events \in Seq(UsbEvent)
  BY TuiAssumption DEF TuiInv, TuiTypeOK, EventsHold

\* No more lines than devices that ever came.
LEMMA LinesBounded ==
  ASSUME TuiInv
  PROVE  /\ Len(order) \in Nat /\ Len(order) = Cardinality(Listed) /\ Len(order) <= rows
         /\ DOMAIN order = 1 .. Len(order)
<1>1. order \in Seq(Nat) /\ Different(order) /\ Lines(order) = Listed
  BY DEF TuiInv, LinesHold
<1>2. Len(order) = Cardinality(Listed)
  BY <1>1, DifferentCount
<1>5. rows \in Nat
  BY RowsNow
<1>3. IsFiniteSet(1 .. rows) /\ Cardinality(1 .. rows) = rows
  BY <1>5, FS_Interval
<1>4. Cardinality(Listed) <= Cardinality(1 .. rows)
  BY <1>3, RowsNow, FS_Subset
<1> QED
  BY <1>1, <1>2, <1>3, <1>4

\* The list, while the loop or another part goes on without it.
LEMMA ListStays ==
  ASSUME TuiInv, UNCHANGED <<shared, order, uiLoop>>, rows' \in Nat, rows <= rows'
  PROVE  LinesHold' /\ Shown' = Shown /\ Listed' = Listed
<1>1. 1 .. rows \subseteq 1 .. rows'
  BY RowsNow
<1> QED
  BY <1>1 DEF TuiInv, LinesHold, Shown, Listed

\* A device arrives on the bus.
LEMMA RowArrivesStep ==
  ASSUME TuiInv, RowArrives
  PROVE  TuiInv'
<1> USE DEF RowArrives
<1>1. rows' = rows + 1 /\ rows' \in Nat /\ rows <= rows' /\ rows' \in 0 .. MaxRow
  BY RowsNow
<1>2. onBus' = onBus \cup {rows'} /\ rows' \in 1 .. rows' /\ onBus \subseteq 1 .. rows'
      /\ Listed \subseteq 1 .. rows'
  BY <1>1, RowsNow
<1>3. rows' \notin 1 .. rows
  BY <1>1, RowsNow
<1>4. LinesHold' /\ Shown' = Shown /\ Listed' = Listed
  BY <1>1, ListStays
<1>5. EventsHold' /\ Pending \subseteq Lines(events') \cup stolen /\ Came(rows') \in Lines(events')
  <2>1. /\ Came(rows') \in UsbEvent /\ Came(rows').kind = "arrived" /\ Came(rows').row = rows'
        /\ \A r : Came(rows') # Went(r)
    BY <1>1, EventNames
  <2>2. \A r \in 1 .. rows : r \in onBus' <=> r \in onBus /\ Came(rows') # Went(r)
    BY <1>2, <1>3, <2>1
  <2>3. EventsHold /\ events' = Append(events, Came(rows')) /\ rows \in Nat
    BY RowsNow DEF TuiInv
  <2>4. "arrived" # "left"
    OBVIOUS
  <2> QED
    BY <1>1, <1>2, <2>1, <2>2, <2>3, <2>4, EventAdded
<1>6. ShownHolds'
  <2>1. Pending' = Lines(events') \cup stolen
    BY DEF Pending
  <2> QED
    BY <1>2, <1>4, <1>5, <2>1 DEF ShownHolds, TuiInv
<1>7. Len(events') <= EventRoom
  <2>1. Len(events') = Len(events) + 1
    BY RowsNow
  <2> QED
    BY <2>1, RowsNow
<1>8. TuiTypeOK'
  <2>1. /\ keys' = keys /\ opened' = opened /\ shared' = shared /\ selected' = selected
        /\ dialog' = dialog /\ uiLoop' = uiLoop
    OBVIOUS
  <2>2. onBus' \subseteq 1 .. rows' /\ rows' \in 0 .. MaxRow
    BY <1>1, <1>2
  <2>3. \A k \in DOMAIN opened' : opened'[k] \in onBus'
    BY <1>2, <2>1 DEF TuiInv, TuiTypeOK
  <2> QED
    BY <1>2, <1>4, <1>7, <2>1, <2>2, <2>3 DEF TuiInv, TuiTypeOK
<1> QED
  BY <1>4, <1>5, <1>6, <1>8 DEF TuiInv

\* A device leaves the bus.
LEMMA RowLeavesStep ==
  ASSUME TuiInv, NEW r \in onBus, RowLeaves(r)
  PROVE  TuiInv'
<1> USE DEF RowLeaves
<1>1. rows' = rows /\ rows \in Nat /\ r \in 1 .. rows /\ r \in Nat /\ onBus' = onBus \ {r}
  BY RowsNow
<1>4. LinesHold' /\ Shown' = Shown /\ Listed' = Listed
  BY <1>1, ListStays
<1>5. EventsHold' /\ Pending \subseteq Lines(events') \cup stolen /\ Went(r) \in Lines(events')
  <2>1. /\ Went(r) \in UsbEvent /\ Went(r).kind = "left" /\ Went(r).row = r
        /\ \A q : Went(r) = Went(q) => r = q
    BY <1>1, EventNames
  <2>2. \A q \in 1 .. rows : q \in onBus' <=> q \in onBus /\ Went(r) # Went(q)
    BY <1>1, <2>1
  <2>3. EventsHold /\ events' = Append(events, Went(r)) /\ rows \in Nat
    BY RowsNow DEF TuiInv
  <2>4. "arrived" # "left" /\ rows <= rows' /\ rows' \in Nat /\ Went(r).row \in 1 .. rows'
    BY <1>1, <2>1
  <2>5. r \notin onBus'
    BY <1>1
  <2> QED
    BY <2>1, <2>2, <2>3, <2>4, <2>5, EventAdded
<1>6. ShownHolds'
  <2>1. Pending' = Lines(events') \cup stolen
    BY DEF Pending
  <2> QED
    BY <1>1, <1>4, <1>5, <2>1 DEF ShownHolds, TuiInv
<1>7. Len(events') <= EventRoom
  <2>1. Len(events') = Len(events) + 1
    BY RowsNow
  <2> QED
    BY <2>1, RowsNow
<1>8. TuiTypeOK'
  <2>1. keys' = keys /\ shared' = shared /\ selected' = selected /\ dialog' = dialog /\ uiLoop' = uiLoop
    OBVIOUS
  <2>2. DOMAIN opened' \subseteq DOMAIN opened /\ \A k \in DOMAIN opened' : opened'[k] \in onBus'
    BY <1>1 DEF TuiInv, TuiTypeOK
  <2> QED
    BY <1>1, <1>4, <1>7, <2>1, <2>2 DEF TuiInv, TuiTypeOK
<1> QED
  BY <1>4, <1>5, <1>6, <1>8 DEF TuiInv

\* What the clients do to the handles of the USB thread.
LEMMA HandlesStep ==
  ASSUME TuiInv, UNCHANGED <<onBus, rows, events, shared, order, selected, dialog, uiLoop,
                             stolen>>,
         keys' \in 0 .. MaxKey, DOMAIN opened' \subseteq 1 .. keys',
         \A k \in DOMAIN opened' : opened'[k] \in onBus
  PROVE  TuiInv'
<1>1. TuiTypeOK'
  BY DEF TuiInv, TuiTypeOK, Listed
<1>2. LinesHold' /\ EventsHold' /\ ShownHolds'
  BY DEF TuiInv, LinesHold, EventsHold, ShownHolds, Shown, Pending, Listed
<1> QED
  BY <1>1, <1>2 DEF TuiInv

\* A client attaches or detaches a device.
LEMMA ClientsStep ==
  ASSUME TuiInv, (\E r \in onBus : ClientOpens(r)) \/ (\E k \in DOMAIN opened : ClientCloses(k))
  PROVE  TuiInv'
<1>1. ASSUME NEW r \in onBus, ClientOpens(r) PROVE TuiInv'
  <2> USE DEF ClientOpens
  <2>1. keys' = keys + 1 /\ keys' \in 0 .. MaxKey /\ DOMAIN opened \cup {keys'} \subseteq 1 .. keys'
    BY <1>1, RowsNow DEF TuiInv, TuiTypeOK
  <2>2. /\ DOMAIN opened' = DOMAIN opened \cup {keys'}
        /\ \A k \in DOMAIN opened' : opened'[k] = r \/ (k \in DOMAIN opened /\ opened'[k] = opened[k])
    BY <1>1
  <2>3. \A k \in DOMAIN opened' : opened'[k] \in onBus
    BY <1>1, <2>2 DEF TuiInv, TuiTypeOK
  <2> QED
    BY <1>1, <2>1, <2>2, <2>3, HandlesStep
<1>2. ASSUME NEW k \in DOMAIN opened, ClientCloses(k) PROVE TuiInv'
  <2> USE DEF ClientCloses
  <2>1. DOMAIN opened' \subseteq DOMAIN opened /\ \A x \in DOMAIN opened' : opened'[x] = opened[x]
    BY <1>2
  <2>2. keys' = keys /\ keys' \in 0 .. MaxKey /\ DOMAIN opened' \subseteq 1 .. keys'
    BY <1>2, <2>1 DEF TuiInv, TuiTypeOK
  <2>3. \A x \in DOMAIN opened' : opened'[x] \in onBus
    BY <2>1 DEF TuiInv, TuiTypeOK
  <2> QED
    BY <1>2, <2>2, <2>3, HandlesStep
<1> QED
  BY <1>1, <1>2

\* Another receiver takes an event.
LEMMA HandlerTakesStep ==
  ASSUME TuiInv, HandlerTakes
  PROVE  TuiInv'
<1> USE DEF HandlerTakes
<1>1. onBus' = onBus /\ rows' = rows /\ keys' = keys /\ opened' = opened
  BY DEF usbThread
<1>2. /\ EventsHold'
      /\ Lines(events) = Lines(events') \cup {Head(events)}
  BY <1>1, EventTaken DEF TuiInv
<1>3. LinesHold' /\ Shown' = Shown /\ Listed' = Listed
  BY <1>1, RowsNow, ListStays
<1>4. Pending' = Pending
  BY <1>2 DEF Pending
<1>5. ShownHolds'
  BY <1>1, <1>3, <1>4 DEF ShownHolds, TuiInv
<1>6. Len(events') <= EventRoom
  <2>1. Len(events') = Len(events) - 1
    BY RowsNow
  <2> QED
    BY <2>1, RowsNow
<1>7. TuiTypeOK'
  BY <1>1, <1>3, <1>6 DEF TuiInv, TuiTypeOK
<1> QED
  BY <1>2, <1>3, <1>5, <1>7 DEF TuiInv

\* The USB thread answers: the list as it is now, each device once.
LEMMA UsbListsStep ==
  ASSUME TuiInv, UsbLists
  PROVE  TuiInv'
<1> USE DEF UsbLists
<1>1. /\ onBus' = onBus /\ rows' = rows /\ keys' = keys /\ opened' = opened
      /\ UNCHANGED <<events, shared, order, selected, dialog>>
  BY DEF usbThread
<1>2. PICK seq \in [1 .. Cardinality(onBus) -> onBus] :
        Lines(seq) = onBus /\ uiLoop' = Doing("refresh", NoRow, seq)
  OBVIOUS
<1>12. rows \in Nat /\ onBus \subseteq 1 .. rows
  BY RowsNow
<1>3. IsFiniteSet(onBus)
  <2>1. IsFiniteSet(1 .. rows)
    BY <1>12, FS_Interval
  <2> QED
    BY <1>12, <2>1, FS_Subset
<1>4. seq \in Seq(onBus) /\ Different(seq)
  BY <1>2, <1>3, CountDifferent
<1>5. seq \in Seq(Nat)
  <2>1. \A x \in onBus : x \in Nat
    BY RowsNow
  <2> QED
    BY <1>4, <2>1
<1>6. uiLoop'.pc = "refresh" /\ uiLoop'.answer = seq
  BY <1>2 DEF Doing
<1>7. LinesHold'
  BY <1>1, <1>2, <1>4, <1>5, <1>6, RowsNow DEF LinesHold, TuiInv, Listed
<1>8. Shown' = onBus
  BY <1>2, <1>6 DEF Shown
<1>9. ShownHolds'
  BY <1>1, <1>8 DEF ShownHolds
<1>10. EventsHold'
  BY <1>1 DEF TuiInv, EventsHold
<1>11. TuiTypeOK'
  BY <1>1, <1>6 DEF TuiInv, TuiTypeOK, Listed
<1> QED
  BY <1>7, <1>9, <1>10, <1>11 DEF TuiInv

\* A clamped index is not larger than it was.
LEMMA ClampBounded ==
  ASSUME NEW s \in Seq(Nat), NEW n \in Nat, NEW i \in 0 .. n
  PROVE  Clamp(i, s) \in 0 .. n
<1>1. CASE s # <<>> /\ i >= Len(s)
  <2>1. Len(s) \in Nat /\ Len(s) # 0
    BY <1>1
  <2>2. Len(s) - 1 \in 0 .. n
    BY <1>1, <2>1
  <2> QED
    BY <1>1, <2>2 DEF Clamp
<1>2. CASE ~(s # <<>> /\ i >= Len(s))
  BY <1>2 DEF Clamp
<1> QED
  BY <1>1, <1>2

\* The flag of a device is one of the two, if it is known from the list or not.
LEMMA FlagTyped ==
  ASSUME TuiInv, NEW r
  PROVE  Flag(r) \in BOOLEAN
<1>1. AutoShare \in BOOLEAN
  BY TuiAssumption
<1>2. \A x \in Listed : shared[x] \in BOOLEAN
  BY DEF TuiInv, TuiTypeOK
<1>3. CASE r \in Listed
  BY <1>2, <1>3, Zenon DEF Flag
<1>4. CASE r \notin Listed
  BY <1>1, <1>4, Zenon DEF Flag
<1> QED
  BY <1>3, <1>4

\* The interface asks for the devices again.
LEMMA RefreshStep ==
  ASSUME TuiInv, Refresh
  PROVE  TuiInv'
<1> USE DEF Refresh
<1>1. /\ onBus' = onBus /\ rows' = rows /\ keys' = keys /\ opened' = opened
      /\ UNCHANGED <<events, dialog, stolen>> /\ uiLoop.pc = "refresh"
  BY DEF usbThread
<1>2. PICK seq : seq = uiLoop.answer
  OBVIOUS
<1>3. seq \in Seq(Nat) /\ Different(seq) /\ Lines(seq) \subseteq 1 .. rows
  BY <1>1, <1>2 DEF TuiInv, LinesHold
<1>4. uiLoop'.pc = "select"
  BY DEF Selecting, Doing
<1>5. order' = seq /\ Listed' = Lines(seq)
  BY <1>2 DEF Listed
<1>6. Shown = Lines(seq) /\ Shown' = Lines(seq)
  <2>1. "select" # "refresh"
    OBVIOUS
  <2> QED
    BY <1>1, <1>2, <1>4, <1>5, <2>1 DEF Shown
<1>7. LinesHold'
  BY <1>3, <1>4, <1>5 DEF LinesHold
<1>8. EventsHold' /\ ShownHolds'
  BY <1>1, <1>6 DEF TuiInv, EventsHold, ShownHolds, Pending
<1>9. \A r \in Listed' : shared'[r] \in BOOLEAN
  <2>1. \A r \in Lines(seq) : shared'[r] = Flag(r)
    BY <1>2
  <2> QED
    BY <1>5, <2>1, FlagTyped, Zenon
<1>10. selected' \in 0 .. MaxRow
  <2>1. selected' = Clamp(selected, seq)
    BY <1>2
  <2>2. selected \in 0 .. MaxRow /\ MaxRow \in Nat
    BY RowsNow
  <2> QED
    BY <1>3, <2>1, <2>2, ClampBounded
<1>11. TuiTypeOK'
  <2>1. /\ onBus' \subseteq 1 .. rows' /\ rows' \in 0 .. MaxRow /\ keys' \in 0 .. MaxKey
        /\ DOMAIN opened' \subseteq 1 .. keys' /\ \A k \in DOMAIN opened' : opened'[k] \in onBus'
        /\ Len(events') <= EventRoom
        /\ dialog' \in {"none", "reset", "other"}
    BY <1>1 DEF TuiInv, TuiTypeOK
  <2>2. Listed' \subseteq 1 .. rows'
    BY <1>1, <1>3, <1>5
  <2> QED
    BY <1>4, <1>9, <1>10, <2>1, <2>2 DEF TuiTypeOK
<1> QED
  BY <1>7, <1>8, <1>11 DEF TuiInv

\* The USB side resets.
LEMMA UsbResetsStep ==
  ASSUME TuiInv, UsbResets
  PROVE  TuiInv'
<1> USE DEF UsbResets
<1>1. /\ onBus' = onBus /\ rows' = rows /\ keys' = keys /\ opened' = opened
      /\ UNCHANGED <<events, dialog, stolen, shared, order,
                     selected>> /\ uiLoop.pc = "reset"
  BY DEF usbThread
<1>2. uiLoop'.pc = "select"
  BY DEF Selecting, Doing
<1>3. Listed' = Listed /\ Shown' = Listed /\ Shown = Listed
  BY <1>1, <1>2 DEF Shown, Listed
<1>4. LinesHold'
  BY <1>1, <1>2, <1>3 DEF TuiInv, LinesHold
<1>5. EventsHold' /\ ShownHolds'
  BY <1>1, <1>3 DEF TuiInv, EventsHold, ShownHolds, Pending
<1>6. TuiTypeOK'
  BY <1>1, <1>2, <1>3 DEF TuiInv, TuiTypeOK
<1> QED
  BY <1>4, <1>5, <1>6 DEF TuiInv

\* What the loop keeps when it takes an event.
LEMMA TakeTypes ==
  ASSUME TuiInv, UNCHANGED <<usbThread, dialog, uiLoop>>, events # <<>>,
                             events' = Tail(events)
  PROVE  /\ onBus' \subseteq 1 .. rows' /\ rows' \in 0 .. MaxRow /\ keys' \in 0 .. MaxKey
         /\ DOMAIN opened' \subseteq 1 .. keys' /\ \A k \in DOMAIN opened' : opened'[k] \in onBus'
         /\ Len(events') <= EventRoom
         /\ dialog' \in {"none", "reset", "other"}
         /\ uiLoop'.pc \in {"list", "refresh", "reset", "select", "quit"}
<1>1. Len(events') <= EventRoom
  <2>1. Len(events') = Len(events) - 1
    BY RowsNow
  <2> QED
    BY <2>1, RowsNow
<1> QED
  BY <1>1 DEF TuiInv, TuiTypeOK, usbThread

\* The interface takes the event of a device that arrived.
LEMMA TakeCameStep ==
  ASSUME TuiInv, TakeCame
  PROVE  TuiInv'
<1> DEFINE r == Head(events).row
<1>0. /\ uiLoop.pc = "select" /\ events # <<>> /\ Head(events).kind = "arrived"
      /\ events' = Tail(events)
      /\ shared' = [x \in Listed \cup {r} |-> IF x = r THEN AutoShare ELSE shared[x]]
      /\ order' = IF r \in Lines(order) THEN order ELSE Append(order, r)
      /\ UNCHANGED <<usbThread, selected, dialog, uiLoop, stolen>>
  BY DEF TakeCame
<1>1. onBus' = onBus /\ rows' = rows
  BY <1>0 DEF usbThread
<1> HIDE DEF r
<1>2. /\ EventsHold' /\ Head(events) \in UsbEvent
      /\ r \in 1 .. rows
      /\ Lines(events) = Lines(events') \cup {Head(events)}
      /\ r \notin onBus => Went(r) \in Lines(events')
  BY <1>0, <1>1, EventTaken DEF r, TuiInv
<1>3. Head(events) = Came(r)
  BY <1>0, <1>2, EventNames DEF r
<1>4. Listed' = Listed \cup {r}
  BY <1>0 DEF Listed
<1>5. order' \in Seq(Nat) /\ Different(order') /\ Lines(order') = Listed'
  <2>1. order \in Seq(Nat) /\ Different(order) /\ Lines(order) = Listed /\ r \in Nat
    BY <1>2, RowsNow DEF TuiInv, LinesHold
  <2>2. CASE r \in Lines(order)
    <3>1. order' = order
      BY <1>0, <2>2
    <3>2. Listed' = Listed
      BY <1>4, <2>1, <2>2
    <3> QED
      BY <2>1, <3>1, <3>2
  <2>3. CASE r \notin Lines(order)
    <3>1. order' = Append(order, r)
      BY <1>0, <2>3
    <3>2. /\ order' \in Seq(Nat)
          /\ Len(order) \in Nat /\ DOMAIN order = 1 .. Len(order)
          /\ DOMAIN order' = 1 .. (Len(order) + 1)
          /\ \A i \in 1 .. Len(order) : order'[i] = order[i]
          /\ order'[Len(order) + 1] = r
          /\ Lines(order') = Lines(order) \cup {r}
      BY <2>1, <3>1, LinesAppend
    <3>3. Different(order')
      BY <2>1, <2>3, <3>1, AppendDifferent
    <3> QED
      BY <1>4, <2>1, <3>2, <3>3
  <2> QED
    BY <2>2, <2>3
<1>6. LinesHold'
  BY <1>0, <1>5 DEF LinesHold
<1>7. Shown = Listed /\ Shown' = Listed'
  BY <1>0 DEF Shown
<1>8. ShownHolds'
  <2>1. Pending = Pending' \cup {Came(r)} /\ Lines(events') \subseteq Pending'
    BY <1>0, <1>2, <1>3 DEF Pending
  <2>2. ASSUME NEW x \in Shown' \ onBus' PROVE Went(x) \in Pending'
    <3>1. CASE x = r
      BY <1>1, <1>2, <2>1, <2>2, <3>1
    <3>2. CASE x # r
      <4>1. Went(x) \in Pending
        BY <1>1, <1>4, <1>7, <2>2, <3>2 DEF TuiInv, ShownHolds
      <4> QED
        BY <2>1, <4>1, EventNames
    <3> QED
      BY <3>1, <3>2
  <2>3. ASSUME NEW x \in onBus' \ Shown' PROVE Came(x) \in Pending'
    <3>1. Came(x) \in Pending /\ x # r
      BY <1>1, <1>4, <1>7, <2>3 DEF TuiInv, ShownHolds
    <3> QED
      BY <2>1, <3>1, EventNames
  <2> QED
    BY <2>2, <2>3 DEF ShownHolds
<1>9. \A x \in Listed' : shared'[x] \in BOOLEAN
  <2>1. \A x \in Listed : shared[x] \in BOOLEAN
    BY DEF TuiInv, TuiTypeOK
  <2>2. AutoShare \in BOOLEAN
    BY TuiAssumption
  <2>3. \A x \in Listed' : (x = r /\ shared'[x] = AutoShare) \/ (x \in Listed /\ shared'[x] = shared[x])
    BY <1>0, <1>4
  <2> QED
    BY <2>1, <2>2, <2>3, Zenon
<1>10. Listed' \subseteq 1 .. rows' /\ selected' \in 0 .. MaxRow
  BY <1>0, <1>1, <1>2, <1>4, RowsNow
<1>11. TuiTypeOK'
  BY <1>0, <1>9, <1>10, TakeTypes DEF TuiTypeOK
<1> QED
  BY <1>2, <1>6, <1>8, <1>11 DEF TuiInv

\* The interface takes the event of a device that left.
LEMMA TakeWentStep ==
  ASSUME TuiInv, TakeWent
  PROVE  TuiInv'
<1> DEFINE r == Head(events).row
<1>0. /\ uiLoop.pc = "select" /\ events # <<>> /\ Head(events).kind = "left"
      /\ events' = Tail(events)
      /\ shared' = [x \in Listed \ {r} |-> shared[x]]
      /\ order' = Retained(order, r)
      /\ selected' = Clamp(selected, order')
      /\ UNCHANGED <<usbThread, dialog, uiLoop, stolen>>
  BY DEF TakeWent
<1>1. onBus' = onBus /\ rows' = rows
  BY <1>0 DEF usbThread
<1> HIDE DEF r
<1>2. /\ EventsHold' /\ Head(events) \in UsbEvent
      /\ Lines(events) = Lines(events') \cup {Head(events)}
      /\ r \notin onBus
  BY <1>0, <1>1, EventTaken DEF r, TuiInv
<1>3. Head(events) = Went(r)
  BY <1>0, <1>2, EventNames DEF r
<1>4. Listed' = Listed \ {r}
  BY <1>0 DEF Listed
<1>5. order' \in Seq(Nat) /\ Different(order') /\ Lines(order') = Listed'
  <2>1. order \in Seq(Nat) /\ Different(order) /\ Lines(order) = Listed
    BY DEF TuiInv, LinesHold
  <2>2. /\ Retained(order, r) \in Seq(Nat)
        /\ Lines(Retained(order, r)) = Lines(order) \ {r}
        /\ Different(Retained(order, r))
    BY <2>1, RetainedOne
  <2> QED
    BY <1>0, <1>4, <2>1, <2>2
<1>6. LinesHold'
  BY <1>0, <1>5 DEF LinesHold
<1>7. Shown = Listed /\ Shown' = Listed'
  BY <1>0 DEF Shown
<1>8. ShownHolds'
  <2>1. Pending = Pending' \cup {Went(r)}
    BY <1>0, <1>2, <1>3 DEF Pending
  <2>2. ASSUME NEW x \in Shown' \ onBus' PROVE Went(x) \in Pending'
    <3>1. Went(x) \in Pending /\ x # r
      BY <1>1, <1>4, <1>7, <2>2 DEF TuiInv, ShownHolds
    <3> QED
      BY <2>1, <3>1, EventNames
  <2>3. ASSUME NEW x \in onBus' \ Shown' PROVE Came(x) \in Pending'
    <3>1. Came(x) \in Pending
      BY <1>1, <1>2, <1>4, <1>7, <2>3 DEF TuiInv, ShownHolds
    <3> QED
      BY <2>1, <3>1, EventNames
  <2> QED
    BY <2>2, <2>3 DEF ShownHolds
<1>9. \A x \in Listed' : shared'[x] \in BOOLEAN
  <2>1. \A x \in Listed : shared[x] \in BOOLEAN
    BY DEF TuiInv, TuiTypeOK
  <2>3. \A x \in Listed' : x \in Listed /\ shared'[x] = shared[x]
    BY <1>0, <1>4
  <2> QED
    BY <2>1, <2>3, Zenon
<1>10. Listed' \subseteq 1 .. rows'
  BY <1>1, <1>4, RowsNow
<1>12. selected' \in 0 .. MaxRow
  <2>1. selected \in 0 .. MaxRow /\ MaxRow \in Nat
    BY RowsNow
  <2> QED
    BY <1>0, <1>5, <2>1, ClampBounded
<1>11. TuiTypeOK'
  BY <1>0, <1>9, <1>10, <1>12, TakeTypes DEF TuiTypeOK
<1> QED
  BY <1>2, <1>6, <1>8, <1>11 DEF TuiInv

\* The interface takes a key.
LEMMA TakeKeyStep ==
  ASSUME TuiInv, TakeKey
  PROVE  TuiInv'
<1>1. /\ onBus' = onBus /\ rows' = rows /\ keys' = keys /\ opened' = opened
      /\ UNCHANGED <<events, order, stolen>> /\ uiLoop.pc = "select"
  BY DEF TakeKey, usbThread
<1>2. /\ Listed' = Listed
      /\ \A r \in Listed : shared'[r] \in BOOLEAN
      /\ selected' \in 0 .. MaxRow
      /\ dialog' \in {"none", "reset", "other"}
      /\ uiLoop'.pc \in {"list", "reset", "select", "quit"}
  <2>1. /\ \A r \in Listed : shared[r] \in BOOLEAN
        /\ selected \in 0 .. MaxRow
        /\ dialog \in {"none", "reset", "other"}
        /\ uiLoop.pc \in {"list", "reset", "select", "quit"}
    BY <1>1 DEF TuiInv, TuiTypeOK
  <2>2. CASE Move
    <3>1. shared' = shared /\ dialog' = dialog /\ uiLoop' = uiLoop
      BY <2>2 DEF Move
    <3>2. selected' \in 0 .. MaxRow
      <4>1. Len(order) \in Nat /\ Len(order) <= rows /\ rows \in Nat /\ rows <= MaxRow /\ MaxRow \in Nat
        BY LinesBounded, RowsNow
      <4> QED
        BY <2>1, <2>2, <4>1 DEF Move
    <3> QED
      BY <2>1, <3>1, <3>2 DEF Listed
  <2>3. CASE Toggle
    <3>1. SelectedRow \in Listed
      <4>1. selected + 1 \in DOMAIN order
        BY <2>1, <2>3, LinesBounded DEF Toggle, HasSelected
      <4>2. Lines(order) = Listed
        BY DEF TuiInv, LinesHold
      <4> QED
        BY <4>1, <4>2 DEF SelectedRow, Lines
    <3>2. PICK q : q = SelectedRow
      OBVIOUS
    <3>3. shared' = [shared EXCEPT ![q] = ~@] /\ selected' = selected /\ dialog' = dialog
          /\ uiLoop' = uiLoop
      BY <2>3, <3>2 DEF Toggle
    <3>4. DOMAIN shared' = DOMAIN shared
          /\ \A r \in DOMAIN shared : shared'[r] = IF r = q THEN ~shared[r] ELSE shared[r]
      BY <3>3
    <3>5. \A r \in Listed : shared'[r] \in BOOLEAN
      BY <2>1, <3>4 DEF Listed
    <3> QED
      BY <2>1, <3>3, <3>4, <3>5 DEF Listed
  <2>4. CASE OpenDialog
    <3>1. shared' = shared /\ selected' = selected /\ uiLoop' = uiLoop
      BY <2>4 DEF OpenDialog
    <3>2. dialog' \in {"none", "reset", "other"}
      BY <2>4 DEF OpenDialog
    <3> QED
      BY <2>1, <3>1, <3>2 DEF Listed
  <2>5. CASE CloseDialog
    BY <2>1, <2>5 DEF CloseDialog, Doing, Listed
  <2>6. CASE Confirm
    BY <2>1, <2>6 DEF Confirm, Doing, Listed
  <2>7. CASE AskList
    BY <2>1, <2>7 DEF AskList, Doing, Listed
  <2> QED
    BY <2>2, <2>3, <2>4, <2>5, <2>6, <2>7 DEF TakeKey
<1>3. uiLoop'.pc # "refresh"
  BY <1>2
<1>4. Shown = Listed /\ Shown' = Listed'
  BY <1>1, <1>3 DEF Shown
<1>5. LinesHold'
  BY <1>1, <1>2, <1>3 DEF TuiInv, LinesHold
<1>6. EventsHold' /\ ShownHolds'
  BY <1>1, <1>2, <1>4 DEF TuiInv, EventsHold, ShownHolds, Pending
<1>7. TuiTypeOK'
  BY <1>1, <1>2 DEF TuiInv, TuiTypeOK
<1> QED
  BY <1>5, <1>6, <1>7 DEF TuiInv

\* It holds when the interface starts.
LEMMA TuiStart == TuiInit => TuiInv
<1> SUFFICES ASSUME TuiInit PROVE TuiInv
  OBVIOUS
<1> USE DEF TuiInit
<1>1. Listed = {} /\ DOMAIN opened = {} /\ DOMAIN events = {} /\ DOMAIN order = {}
  BY DEF Listed
<1>2. uiLoop.pc = "list"
  BY DEF Doing
<1>3. TuiTypeOK
  <2>1. MaxRow \in Nat /\ MaxKey \in Nat /\ EventRoom \in Nat /\ Len(events) = 0
    BY TuiAssumption
  <2> QED
    BY <1>1, <1>2, <2>1 DEF TuiTypeOK
<1>4. LinesHold
  BY <1>1, <1>2 DEF LinesHold, Different, Lines
<1>5. EventsHold
  BY <1>1 DEF EventsHold
<1>6. ShownHolds
  BY <1>1, <1>2 DEF ShownHolds, Shown
<1> QED
  BY <1>3, <1>4, <1>5, <1>6 DEF TuiInv

\* And whatever the bus, the USB side, the handlers and the user do.
LEMMA TuiStep == TuiInv /\ [TuiNext]_tuiVars => TuiInv'
<1> SUFFICES ASSUME TuiInv, [TuiNext]_tuiVars PROVE TuiInv'
  OBVIOUS
<1>1. CASE RowArrives \/ (\E r \in onBus : RowLeaves(r) \/ ClientOpens(r))
  BY <1>1, RowArrivesStep, RowLeavesStep, ClientsStep
<1>2. CASE \E k \in DOMAIN opened : ClientCloses(k)
  BY <1>2, ClientsStep
<1>3. CASE HandlerTakes \/ UsbLists \/ Refresh \/ UsbResets
  BY <1>3, HandlerTakesStep, UsbListsStep, RefreshStep, UsbResetsStep
<1>4. CASE TakeCame \/ TakeWent \/ TakeKey
  BY <1>4, TakeCameStep, TakeWentStep, TakeKeyStep
<1>5. CASE UNCHANGED tuiVars
  BY <1>5 DEF tuiVars, TuiInv, TuiTypeOK, LinesHold, EventsHold, ShownHolds, Shown,
         Pending, Listed
<1> QED
  BY <1>1, <1>2, <1>3, <1>4, <1>5 DEF TuiNext

\* The list of the server's interface shows each device once, and is wrong about the bus
\* only where an event is on its way, or was taken by a connection's handler since the
\* last answer, for any room of the channel and any number of devices.
THEOREM ListStaysInStep == TuiSpec => [](TuiTypeOK /\ ListCatchesUp)
<1>1. TuiInv => TuiTypeOK /\ ListCatchesUp
  <2> SUFFICES ASSUME TuiInv PROVE TuiTypeOK /\ ListCatchesUp
    OBVIOUS
  <2>1. Lines(order) = Listed /\ Len(order) = Cardinality(Listed)
    BY LinesBounded DEF TuiInv, LinesHold
  <2>2. uiLoop.pc # "refresh" => Shown = Listed
    BY DEF Shown
  <2> QED
    BY <2>1, <2>2 DEF TuiInv, ShownHolds, ListCatchesUp
<1> QED
  BY <1>1, TuiStart, TuiStep, PTL DEF TuiSpec

-----------------------------------------------------------------------------
(* The trail of the audit log *)

\* The entries in some files.
Entries(files) == UNION {{files[i][k] : k \in DOMAIN files[i]} : i \in DOMAIN files}

Upto(files, n) == \A i \in DOMAIN files : \A k \in DOMAIN files[i] : files[i][k] \in 1 .. n

OldestFirst(files) ==
  \A i, j \in DOMAIN files : \A k \in DOMAIN files[i], l \in DOMAIN files[j] :
    i > j \/ (i = j /\ k < l) => files[i][k] < files[j][l]

NoGap(files, n) == \E first \in 1 .. n + 1 : Entries(files) = first .. n

Reaches(files, n) == \A i \in Slots \ {0} : i <= n => i \in DOMAIN files

FileSets == UNION {[D -> Seq(Nat)] : D \in SUBSET Slots}

TrailRecord ==
  [files : FileSets, open : BOOLEAN, inFile : Nat, size : Nat, written : Nat,
   rotations : Nat, failed : BOOLEAN]

\* What holds of the writer and its files even between moving them and opening a log.
Sound(t) ==
  /\ t \in TrailRecord
  /\ Upto(t.files, t.written)
  /\ OldestFirst(t.files)
  /\ ~t.failed => NoGap(t.files, t.written) /\ Reaches(t.files, t.rotations)
  /\ t.open => 0 \in DOMAIN t.files

\* A log is missing only before the first one, or after a failure.
LogThere(t) == t.failed \/ t.rotations = 0 \/ 0 \in DOMAIN t.files

AuditInv ==
  /\ channel \in Seq({"log", "rotate", "shutdown"}) /\ Len(channel) <= MaxMessages
  /\ writing \in BOOLEAN
  /\ Sound(trail)
  /\ LogThere(trail)

TopSlot == IF MaxFiles < 2 THEN 1 ELSE MaxFiles - 1

\* The numbers of the files.
LEMMA SlotsAre == TopSlot \in Nat \ {0} /\ Slots = 0 .. TopSlot
<1>1. MaxFiles \in Nat
  BY AuditAssumption
<1>2. CASE MaxFiles < 2
  BY <1>2 DEF TopSlot, Slots
<1>3. CASE ~(MaxFiles < 2)
  <2>1. MaxFiles - 1 \in Nat \ {0}
    BY <1>1, <1>3
  <2> QED
    BY <1>3, <2>1 DEF TopSlot, Slots
<1> QED
  BY <1>2, <1>3

\* A set of files by its numbers.
LEMMA FilesAre ==
  ASSUME NEW files
  PROVE  /\ files \in FileSets => /\ files = [i \in DOMAIN files |-> files[i]]
                                  /\ DOMAIN files \subseteq Slots
                                  /\ \A i \in DOMAIN files : files[i] \in Seq(Nat)
         /\ (/\ files = [i \in DOMAIN files |-> files[i]]
             /\ DOMAIN files \subseteq Slots
             /\ \A i \in DOMAIN files : files[i] \in Seq(Nat)) => files \in FileSets
<1>1. ASSUME files \in FileSets
      PROVE  /\ files = [i \in DOMAIN files |-> files[i]]
             /\ DOMAIN files \subseteq Slots
             /\ \A i \in DOMAIN files : files[i] \in Seq(Nat)
  <2>1. PICK D \in SUBSET Slots : files \in [D -> Seq(Nat)]
    BY <1>1 DEF FileSets
  <2> QED
    BY <2>1
<1>2. ASSUME /\ files = [i \in DOMAIN files |-> files[i]]
             /\ DOMAIN files \subseteq Slots
             /\ \A i \in DOMAIN files : files[i] \in Seq(Nat)
      PROVE  files \in FileSets
  <2>1. files \in [DOMAIN files -> Seq(Nat)]
    BY <1>2
  <2> QED
    BY <1>2, <2>1 DEF FileSets
<1> QED
  BY <1>1, <1>2

\* Where the entries of a slot were before the files were moved.
Source(files, broken, i) == IF i > 0 /\ i - 1 \in DOMAIN files \ broken THEN i - 1 ELSE i

\* Which files there are after the shift, and where each comes from.
LEMMA ShiftIs ==
  ASSUME NEW files \in FileSets, NEW broken \in SUBSET DOMAIN files, NEW g, g = Shift(files, broken)
  PROVE  /\ g \in FileSets
         /\ \A i \in Slots : i \in DOMAIN g <=>
              \/ i > 0 /\ i - 1 \in DOMAIN files \ broken
              \/ i \in broken
              \/ MaxFiles < 2 /\ i = 1 /\ 1 \in DOMAIN files
         /\ \A i \in DOMAIN g : /\ Source(files, broken, i) \in DOMAIN files
                                /\ g[i] = files[Source(files, broken, i)]
<1>1. files = [i \in DOMAIN files |-> files[i]] /\ DOMAIN files \subseteq Slots
      /\ \A i \in DOMAIN files : files[i] \in Seq(Nat)
  BY FilesAre
<1> DEFINE D == {i \in Slots : \/ i > 0 /\ i - 1 \in DOMAIN files \ broken
                               \/ i \in broken
                               \/ MaxFiles < 2 /\ i = 1 /\ 1 \in DOMAIN files}
<1>2. g = [i \in D |-> IF i > 0 /\ i - 1 \in DOMAIN files \ broken THEN files[i - 1] ELSE files[i]]
  BY DEF Shift
<1>3. DOMAIN g = D
  BY <1>2
<1>4. \A i \in D : /\ Source(files, broken, i) \in DOMAIN files
                   /\ g[i] = files[Source(files, broken, i)]
  <2> SUFFICES ASSUME NEW i \in D
               PROVE  /\ Source(files, broken, i) \in DOMAIN files
                      /\ g[i] = files[Source(files, broken, i)]
    OBVIOUS
  <2>1. CASE i > 0 /\ i - 1 \in DOMAIN files \ broken
    BY <1>2, <2>1 DEF Source
  <2>2. CASE ~(i > 0 /\ i - 1 \in DOMAIN files \ broken)
    <3>1. i \in DOMAIN files
      BY <2>2
    <3>2. g[i] = files[i]
      BY <1>2, <2>2
    <3> QED
      BY <2>2, <3>1, <3>2 DEF Source
  <2> QED
    BY <2>1, <2>2
<1>5. g \in FileSets
  <2>1. g = [i \in DOMAIN g |-> g[i]]
    BY <1>2
  <2>2. \A i \in DOMAIN g : g[i] \in Seq(Nat)
    BY <1>1, <1>3, <1>4
  <2> HIDE DEF D
  <2>3. DOMAIN g \subseteq Slots
    BY <1>3 DEF D
  <2> QED
    BY <2>1, <2>2, <2>3, FilesAre
<1> QED
  BY <1>3, <1>4, <1>5

\* Moving the files keeps their order, whichever of them could not be moved.
LEMMA SourceOrder ==
  ASSUME NEW files \in FileSets, NEW broken \in SUBSET DOMAIN files, NEW g, g = Shift(files, broken),
         NEW i \in DOMAIN g, NEW j \in DOMAIN g, i > j
  PROVE  Source(files, broken, i) > Source(files, broken, j)
<1>1. i \in Slots /\ j \in Slots /\ g \in FileSets
  BY ShiftIs, FilesAre
<1>2. i \in Nat /\ j \in Nat /\ i <= TopSlot /\ TopSlot \in Nat
  BY <1>1, SlotsAre
<1>3. Source(files, broken, j) \in {j - 1, j}
  BY DEF Source
<1>4. CASE i - 1 \in DOMAIN files \ broken
  <2>1. Source(files, broken, i) = i - 1
    BY <1>2, <1>4 DEF Source
  <2>2. CASE j < i - 1
    BY <1>2, <1>3, <2>1, <2>2
  <2>3. CASE j = i - 1
    <3>1. ~(MaxFiles < 2 /\ j = 1)
      BY <1>2, <2>3 DEF TopSlot
    <3>3. j \notin broken
      BY <1>4, <2>3
    <3>2. j > 0 /\ j - 1 \in DOMAIN files \ broken
      BY <1>1, <3>1, <3>3, ShiftIs
    <3> QED
      BY <1>2, <2>1, <2>3, <3>2 DEF Source
  <2> QED
    BY <1>2, <2>2, <2>3
<1>5. CASE i - 1 \notin DOMAIN files \ broken
  <2>1. Source(files, broken, i) = i
    BY <1>5 DEF Source
  <2> QED
    BY <1>2, <1>3, <2>1
<1> QED
  BY <1>4, <1>5

\* The shift keeps the order of the entries.
LEMMA ShiftOrdered ==
  ASSUME NEW files \in FileSets, NEW broken \in SUBSET DOMAIN files, NEW g, g = Shift(files, broken),
         OldestFirst(files), NEW n, Upto(files, n)
  PROVE  OldestFirst(g) /\ Upto(g, n)
<1>1. /\ DOMAIN g \subseteq Slots
      /\ \A i \in DOMAIN g : /\ Source(files, broken, i) \in DOMAIN files
                             /\ g[i] = files[Source(files, broken, i)]
  BY ShiftIs, FilesAre
<1>2. Upto(g, n)
  BY <1>1 DEF Upto
<1>3. ASSUME NEW i \in DOMAIN g, NEW j \in DOMAIN g, NEW k \in DOMAIN g[i], NEW l \in DOMAIN g[j],
             i > j \/ (i = j /\ k < l)
      PROVE  g[i][k] < g[j][l]
  <2>1. PICK p \in DOMAIN files, q \in DOMAIN files :
          p = Source(files, broken, i) /\ q = Source(files, broken, j)
    BY <1>1
  <2>2. g[i] = files[p] /\ g[j] = files[q]
    BY <1>1, <2>1
  <2>3. i > j => p > q
    BY <2>1, SourceOrder
  <2>4. i = j => p = q
    BY <2>1
  <2>5. p > q \/ (p = q /\ k < l)
    BY <1>3, <2>3, <2>4
  <2> QED
    BY <2>2, <2>5 DEF OldestFirst
<1> QED
  BY <1>2, <1>3 DEF OldestFirst

\* What follows all of the rest in an interval up to n is one.
LEMMA LaterPart ==
  ASSUME NEW n \in Nat, NEW a \in 1 .. n + 1, NEW Y, Y \subseteq a .. n,
         \A x \in (a .. n) \ Y : \A y \in Y : x < y
  PROVE  \E b \in 1 .. n + 1 : Y = b .. n
<1>1. CASE Y = {}
  <2>1. n + 1 \in 1 .. n + 1 /\ (n + 1) .. n = {}
    OBVIOUS
  <2> QED
    BY <1>1, <2>1
<1>2. CASE Y # {}
  <2>1. Y \in SUBSET Nat
    OBVIOUS
  <2>2. PICK b \in Y : \A q \in Y : b <= q
    BY <1>2, <2>1, LeastOf
  <2>3. Y = b .. n
    <3>1. Y \subseteq b .. n
      BY <2>2
    <3>2. ASSUME NEW x \in b .. n, x \notin Y PROVE FALSE
      <4>1. x \in a .. n
        BY <2>2
      <4> QED
        BY <2>2, <3>2, <4>1
    <3> QED
      BY <3>1, <3>2
  <2>4. b \in 1 .. n + 1
    BY <2>2
  <2> QED
    BY <2>3, <2>4
<1> QED
  BY <1>1, <1>2

\* When every file could be moved, only the oldest entries are gone.
LEMMA ShiftNoGap ==
  ASSUME NEW files \in FileSets, NEW broken, broken = {}, NEW g, g = Shift(files, broken),
         OldestFirst(files), NEW n \in Nat, NoGap(files, n)
  PROVE  NoGap(g, n)
<1>0. broken \in SUBSET DOMAIN files
  OBVIOUS
<1>1. /\ DOMAIN g \subseteq Slots /\ DOMAIN files \subseteq Slots
      /\ \A i \in DOMAIN g : /\ Source(files, broken, i) \in DOMAIN files
                             /\ g[i] = files[Source(files, broken, i)]
      /\ Slots = 0 .. TopSlot /\ TopSlot \in Nat \ {0}
  BY <1>0, ShiftIs, FilesAre, SlotsAre
<1>2. PICK a \in 1 .. n + 1 : Entries(files) = a .. n
  BY DEF NoGap
<1>3. Entries(g) \subseteq Entries(files)
  BY <1>1 DEF Entries
<1>4. ASSUME NEW x \in Entries(files) \ Entries(g), NEW y \in Entries(g) PROVE x < y
  <2>1. PICK j \in DOMAIN files : \E k \in DOMAIN files[j] : x = files[j][k]
    BY <1>4 DEF Entries
  <2>2. PICK i \in DOMAIN g : \E l \in DOMAIN g[i] : y = g[i][l]
    BY <1>4 DEF Entries
  <2>3. PICK p \in DOMAIN files : p = Source(files, broken, i) /\ g[i] = files[p]
    BY <1>1
  <2>4. j = TopSlot
    <3> SUFFICES ASSUME j # TopSlot PROVE FALSE
      OBVIOUS
    <3>1. j + 1 \in Slots /\ j + 1 > 0 /\ (j + 1) - 1 = j
      BY <1>1
    <3>2. j \in DOMAIN files \ broken
      OBVIOUS
    <3>3. j + 1 \in DOMAIN g
      BY <1>0, <3>1, <3>2, ShiftIs
    <3>4. Source(files, broken, j + 1) = j
      BY <3>1, <3>2 DEF Source
    <3>5. g[j + 1] = files[j]
      BY <1>1, <3>3, <3>4
    <3> QED
      BY <1>4, <2>1, <3>3, <3>5 DEF Entries
  <2>5. p # j
    BY <1>4, <2>1, <2>3 DEF Entries
  <2>6. p < j
    BY <1>1, <2>4, <2>5
  <2> QED
    BY <2>1, <2>2, <2>3, <2>6 DEF OldestFirst
<1>5. \E b \in 1 .. n + 1 : Entries(g) = b .. n
  <2> DEFINE Y == Entries(g)
  <2>1. Y \subseteq a .. n /\ \A x \in (a .. n) \ Y : \A y \in Y : x < y
    BY <1>2, <1>3, <1>4
  <2> HIDE DEF Y
  <2>2. \E b \in 1 .. n + 1 : Y = b .. n
    BY <2>1, LaterPart
  <2> QED
    BY <2>2 DEF Y
<1> QED
  BY <1>5 DEF NoGap

\* As many rotations back as there are files for.
LEMMA ShiftReaches ==
  ASSUME NEW files \in FileSets, NEW broken, broken = {}, NEW g, g = Shift(files, broken),
         NEW n \in Nat, Reaches(files, n), n = 0 \/ 0 \in DOMAIN files,
         NEW m \in Nat, m <= n \/ (m = n + 1 /\ 0 \in DOMAIN files)
  PROVE  Reaches(g, m)
<1>0. broken \in SUBSET DOMAIN files
  OBVIOUS
<1>1. Slots = 0 .. TopSlot /\ TopSlot \in Nat \ {0}
  BY SlotsAre
<1>2. ASSUME NEW i \in Slots \ {0}, i <= m PROVE i \in DOMAIN g
  <2>1. i \in Nat /\ i > 0 /\ i - 1 \in Slots /\ 0 \in DOMAIN files /\ i - 1 <= n
    BY <1>1, <1>2
  <2>2. i - 1 \in DOMAIN files
    BY <1>1, <2>1 DEF Reaches
  <2>3. i - 1 \in DOMAIN files \ broken
    BY <2>2
  <2> QED
    BY <1>0, <2>1, <2>3, ShiftIs
<1> QED
  BY <1>2 DEF Reaches

\* Truth values.
LEMMA Booleans == TRUE \in BOOLEAN /\ FALSE \in BOOLEAN /\ 0 \in Nat
  OBVIOUS

\* The types of a trail.
LEMMA TrailFields ==
  ASSUME NEW t \in TrailRecord
  PROVE  /\ t.files \in FileSets /\ t.open \in BOOLEAN /\ t.inFile \in Nat /\ t.size \in Nat
         /\ t.written \in Nat /\ t.rotations \in Nat /\ t.failed \in BOOLEAN
  BY DEF TrailRecord

\* A failed operation is only remembered.
LEMMA FailSound ==
  ASSUME NEW t, Sound(t), NEW u, u = [t EXCEPT !.failed = TRUE]
  PROVE  Sound(u) /\ LogThere(u) /\ u.written = t.written
<1>1. t \in TrailRecord
  BY DEF Sound
<1>2. u \in TrailRecord
  BY <1>1, Booleans DEF TrailRecord
<1>3. u.files = t.files /\ u.written = t.written /\ u.failed = TRUE /\ u.open = t.open
  BY <1>1 DEF TrailRecord
<1> QED
  BY <1>2, <1>3 DEF Sound, LogThere

\* Opening the log finds what is in it, or makes an empty one.
LEMMA OpenSound ==
  ASSUME NEW t, Sound(t), NEW u \in OpenOutcomes(t)
  PROVE  Sound(u) /\ LogThere(u) /\ u.written = t.written
<1> DEFINE log == IF 0 \in DOMAIN t.files THEN t.files[0] ELSE <<>>
           files == [i \in DOMAIN t.files \cup {0} |-> IF i = 0 THEN log ELSE t.files[i]]
           o == [t EXCEPT !.files = files, !.open = TRUE, !.inFile = 0, !.size = Len(log)]
<1>1. t \in TrailRecord /\ t.files \in FileSets
  BY TrailFields DEF Sound
<1>2. /\ t.files = [i \in DOMAIN t.files |-> t.files[i]]
      /\ DOMAIN t.files \subseteq Slots
      /\ \A i \in DOMAIN t.files : t.files[i] \in Seq(Nat)
  BY <1>1, FilesAre
<1>3. CASE u = o
  <2>1. log \in Seq(Nat)
    BY <1>2
  <2>2. /\ DOMAIN files = DOMAIN t.files \cup {0}
        /\ files = [i \in DOMAIN files |-> files[i]]
        /\ \A i \in DOMAIN t.files : files[i] = t.files[i]
        /\ 0 \in DOMAIN t.files \/ files[0] = <<>>
    OBVIOUS
  <2>3. files \in FileSets
    <3>1. 0 \in Slots
      BY SlotsAre
    <3>2. \A i \in DOMAIN files : files[i] \in Seq(Nat)
      BY <1>2, <2>1
    <3>3. DOMAIN files \subseteq Slots
      BY <1>2, <3>1
    <3> HIDE DEF files
    <3> QED
      BY <2>2, <3>2, <3>3, FilesAre
  <2>4. Len(log) \in Nat
    BY <2>1
  <2> HIDE DEF files, log
  <2>5. u \in TrailRecord
    BY <1>1, <1>3, <2>3, <2>4, Booleans DEF TrailRecord
  <2>6. /\ u.files = files /\ u.written = t.written /\ u.rotations = t.rotations
        /\ u.failed = t.failed
    BY <1>1, <1>3 DEF TrailRecord
  <2>7. \A i \in DOMAIN files : \A k \in DOMAIN files[i] : i \in DOMAIN t.files /\ files[i] = t.files[i]
    <3>1. \A k : k \notin DOMAIN <<>>
      OBVIOUS
    <3> QED
      BY <2>2, <3>1
  <2>8. Upto(files, t.written) /\ OldestFirst(files)
    BY <2>2, <2>7 DEF Sound, Upto, OldestFirst
  <2>9. Entries(files) = Entries(t.files)
    BY <2>2, <2>7 DEF Entries
  <2>10. ~t.failed => NoGap(files, t.written) /\ Reaches(files, t.rotations)
    BY <2>2, <2>9 DEF Sound, NoGap, Reaches
  <2> QED
    BY <2>2, <2>5, <2>6, <2>8, <2>10 DEF Sound, LogThere
<1>4. CASE u = [t EXCEPT !.failed = TRUE]
  BY <1>4, FailSound
<1> QED
  BY <1>3, <1>4 DEF OpenOutcomes

\* A rotation counts when there was a log to move.
LEMMA RotatedIs ==
  ASSUME NEW t \in TrailRecord
  PROVE  /\ Rotated(t) \in Nat
         /\ Rotated(t) = t.rotations \/ (Rotated(t) = t.rotations + 1 /\ 0 \in DOMAIN t.files)
  BY TrailFields DEF Rotated

\* The files are moved, some of them perhaps not.
Moved(t, broken) ==
  [t EXCEPT !.open = FALSE, !.files = Shift(t.files, broken),
            !.rotations = Rotated(t), !.failed = @ \/ broken # {}]

\* After the move the trail is sound, whichever files could not be moved.
LEMMA MovedSound ==
  ASSUME NEW t, Sound(t), LogThere(t), NEW broken \in SUBSET DOMAIN t.files,
         NEW u, u = Moved(t, broken)
  PROVE  Sound(u) /\ u.written = t.written
<1>1. t \in TrailRecord /\ t.files \in FileSets /\ t.written \in Nat /\ t.rotations \in Nat
  BY TrailFields DEF Sound
<1>2. PICK g : g = Shift(t.files, broken)
  OBVIOUS
<1>3. g \in FileSets /\ OldestFirst(g) /\ Upto(g, t.written)
  BY <1>1, <1>2, ShiftIs, ShiftOrdered DEF Sound
<1>4. PICK m \in Nat : m = Rotated(t)
  BY <1>1, RotatedIs
<1>5. PICK f \in BOOLEAN : f = (t.failed \/ broken # {})
  OBVIOUS
<1>6. u = [t EXCEPT !.open = FALSE, !.files = g, !.rotations = m, !.failed = f]
  BY <1>1, <1>2, <1>4, <1>5 DEF TrailRecord, Moved
<1>7. u \in TrailRecord
  BY <1>1, <1>3, <1>6, Booleans DEF TrailRecord
<1>8. /\ u.files = g /\ u.written = t.written /\ u.rotations = m
      /\ u.failed = f /\ u.open = FALSE
  BY <1>1, <1>6 DEF TrailRecord
<1>9. ASSUME ~f PROVE NoGap(g, t.written) /\ Reaches(g, m)
  <2>1. ~t.failed /\ broken = {}
    BY <1>5, <1>9
  <2>2. NoGap(t.files, t.written) /\ Reaches(t.files, t.rotations) /\ OldestFirst(t.files)
    BY <2>1 DEF Sound
  <2>3. t.rotations = 0 \/ 0 \in DOMAIN t.files
    BY <2>1 DEF LogThere
  <2>4. m <= t.rotations \/ (m = t.rotations + 1 /\ 0 \in DOMAIN t.files)
    BY <1>1, <1>4, RotatedIs
  <2>5. NoGap(g, t.written)
    BY <1>1, <1>2, <2>1, <2>2, ShiftNoGap
  <2>6. Reaches(g, m)
    BY <1>1, <1>2, <2>1, <2>2, <2>3, <2>4, ShiftReaches
  <2> QED
    BY <2>5, <2>6
<1> QED
  BY <1>3, <1>7, <1>8, <1>9 DEF Sound

\* After a rotation the trail is sound.
LEMMA RotateSound ==
  ASSUME NEW t, Sound(t), LogThere(t), NEW u \in RotateOutcomes(t)
  PROVE  Sound(u) /\ LogThere(u) /\ u.written = t.written
<1>1. PICK broken \in SUBSET DOMAIN t.files : u \in OpenOutcomes(Moved(t, broken))
  BY DEF RotateOutcomes, Moved
<1>2. Sound(Moved(t, broken)) /\ Moved(t, broken).written = t.written
  BY MovedSound
<1> QED
  BY <1>1, <1>2, OpenSound

\* An entry is written at the end of the log.
LEMMA AppendSound ==
  ASSUME NEW t, Sound(t), LogThere(t), t.open, NEW u \in AppendOutcomes(t)
  PROVE  Sound(u) /\ LogThere(u)
<1> DEFINE longer == [t EXCEPT !.files[0] = Append(@, t.written + 1), !.written = @ + 1,
                               !.inFile = @ + 1, !.size = @ + 1]
<1>0. /\ t \in TrailRecord /\ t.files \in FileSets /\ t.written \in Nat
      /\ t.inFile \in Nat /\ t.size \in Nat
      /\ 0 \in DOMAIN t.files
  BY TrailFields DEF Sound
<1>1. /\ t \in TrailRecord /\ t.files \in FileSets /\ t.written \in Nat
      /\ t.inFile + 1 \in Nat /\ t.size + 1 \in Nat /\ t.written + 1 \in Nat
      /\ 0 \in DOMAIN t.files
  BY <1>0
<1>2. /\ t.files = [i \in DOMAIN t.files |-> t.files[i]]
      /\ DOMAIN t.files \subseteq Slots
      /\ \A i \in DOMAIN t.files : t.files[i] \in Seq(Nat)
  BY <1>1, FilesAre
<1>3. PICK g : g = [t.files EXCEPT ![0] = Append(@, t.written + 1)]
  OBVIOUS
<1>4. /\ DOMAIN g = DOMAIN t.files
      /\ g = [i \in DOMAIN g |-> g[i]]
      /\ g[0] = Append(t.files[0], t.written + 1)
      /\ \A i \in DOMAIN g : i # 0 => g[i] = t.files[i]
  BY <1>1, <1>2, <1>3
<1>5. PICK s \in Seq(Nat), n \in Nat : s = t.files[0] /\ n = t.written
  BY <1>1, <1>2
<1>6. /\ g[0] \in Seq(Nat)
      /\ Len(s) \in Nat /\ DOMAIN s = 1 .. Len(s) /\ DOMAIN g[0] = 1 .. (Len(s) + 1)
      /\ \A k \in 1 .. Len(s) : g[0][k] = s[k]
      /\ g[0][Len(s) + 1] = n + 1
  <2>1. g[0] = Append(s, n + 1)
    BY <1>4, <1>5
  <2> QED
    BY <2>1
<1>7. g \in FileSets
  <2>1. \A i \in DOMAIN g : g[i] \in Seq(Nat)
    BY <1>2, <1>4, <1>6
  <2> QED
    BY <1>2, <1>4, <2>1, FilesAre
<1>8. longer = [t EXCEPT !.files = g, !.written = t.written + 1,
                         !.inFile = t.inFile + 1, !.size = t.size + 1]
  BY <1>1, <1>3 DEF TrailRecord
<1> HIDE DEF longer
<1>9. longer \in TrailRecord
  BY <1>1, <1>7, <1>8 DEF TrailRecord
<1>10. /\ longer.files = g /\ longer.written = n + 1 /\ longer.rotations = t.rotations
       /\ longer.failed = t.failed /\ longer.open = t.open
  BY <1>1, <1>5, <1>8 DEF TrailRecord
\* An entry is an old one at its old place, or the new one at the end of the log.
<1>11. \A i \in DOMAIN g : \A k \in DOMAIN g[i] :
         \/ k \in DOMAIN t.files[i] /\ g[i][k] = t.files[i][k] /\ g[i][k] \in 1 .. n
         \/ i = 0 /\ k = Len(s) + 1 /\ g[i][k] = n + 1
  <2> SUFFICES ASSUME NEW i \in DOMAIN g, NEW k \in DOMAIN g[i]
               PROVE  \/ k \in DOMAIN t.files[i] /\ g[i][k] = t.files[i][k] /\ g[i][k] \in 1 .. n
                      \/ i = 0 /\ k = Len(s) + 1 /\ g[i][k] = n + 1
    OBVIOUS
  <2>1. \A l \in DOMAIN t.files[i] : t.files[i][l] \in 1 .. n
    BY <1>4, <1>5 DEF Sound, Upto
  <2>2. CASE i # 0
    BY <1>4, <2>1, <2>2
  <2>3. CASE i = 0 /\ k \in 1 .. Len(s)
    BY <1>5, <1>6, <2>1, <2>3
  <2>4. CASE i = 0 /\ k = Len(s) + 1
    BY <1>6, <2>4
  <2> QED
    BY <1>6, <2>2, <2>3, <2>4
<1>12. Upto(g, n + 1)
  BY <1>11 DEF Upto
<1>13. OldestFirst(g)
  <2> SUFFICES ASSUME NEW i \in DOMAIN g, NEW j \in DOMAIN g, NEW k \in DOMAIN g[i],
                      NEW l \in DOMAIN g[j], i > j \/ (i = j /\ k < l)
               PROVE  g[i][k] < g[j][l]
    BY DEF OldestFirst
  <2>1. i \in Nat /\ j \in Nat
    BY <1>2, <1>4, SlotsAre
  <2>2. CASE k \in DOMAIN t.files[i] /\ g[i][k] = t.files[i][k] /\ g[i][k] \in 1 .. n
    <3>1. CASE l \in DOMAIN t.files[j] /\ g[j][l] = t.files[j][l]
      BY <1>4, <2>2, <3>1 DEF Sound, OldestFirst
    <3>2. CASE g[j][l] = n + 1
      BY <2>2, <3>2
    <3> QED
      BY <1>11, <3>1, <3>2
  <2>3. CASE i = 0 /\ k = Len(s) + 1
    <3>1. j = 0 /\ k < l
      BY <2>1, <2>3
    <3> QED
      BY <1>6, <2>3, <3>1
  <2> QED
    BY <1>11, <2>2, <2>3
<1>14. Entries(g) = Entries(t.files) \cup {n + 1}
  <2>1. Entries(g) \subseteq Entries(t.files) \cup {n + 1}
    BY <1>4, <1>11 DEF Entries
  <2>2. n + 1 \in Entries(g)
    BY <1>1, <1>4, <1>6 DEF Entries
  <2>3. \A i \in DOMAIN t.files : \A k \in DOMAIN t.files[i] :
          k \in DOMAIN g[i] /\ g[i][k] = t.files[i][k]
    <3> TAKE i \in DOMAIN t.files
    <3>1. CASE i = 0
      <4>1. t.files[i] = s
        BY <1>5, <3>1
      <4>2. \A k \in DOMAIN s : k \in DOMAIN g[0] /\ g[0][k] = s[k]
        BY <1>6
      <4> QED
        BY <3>1, <4>1, <4>2
    <3>2. CASE i # 0
      BY <1>4, <3>2
    <3> QED
      BY <3>1, <3>2
  <2>4. Entries(t.files) \subseteq Entries(g)
    <3> SUFFICES ASSUME NEW i \in DOMAIN t.files, NEW k \in DOMAIN t.files[i]
                 PROVE  t.files[i][k] \in Entries(g)
      BY DEF Entries
    <3> QED
      BY <1>4, <2>3 DEF Entries
  <2> QED
    BY <2>1, <2>2, <2>4
<1>15. ASSUME ~t.failed PROVE NoGap(g, n + 1) /\ Reaches(g, t.rotations)
  <2>1. NoGap(t.files, n) /\ Reaches(t.files, t.rotations)
    BY <1>5, <1>15 DEF Sound
  <2>2. PICK a \in 1 .. n + 1 : Entries(t.files) = a .. n
    BY <2>1 DEF NoGap
  <2>3. (a .. n) \cup {n + 1} = a .. (n + 1) /\ a \in 1 .. (n + 1) + 1
    OBVIOUS
  <2>4. NoGap(g, n + 1)
    BY <1>14, <2>2, <2>3 DEF NoGap
  <2>5. Reaches(g, t.rotations)
    BY <1>4, <2>1 DEF Reaches
  <2> QED
    BY <2>4, <2>5
<1>16. Sound(longer)
  BY <1>1, <1>4, <1>9, <1>10, <1>12, <1>13, <1>15 DEF Sound
<1>17. LogThere(longer)
  BY <1>1, <1>4, <1>10 DEF LogThere
<1>18. CASE u = [t EXCEPT !.failed = TRUE]
  BY <1>18, FailSound
<1>19. CASE u \in RotateOutcomes(longer)
  BY <1>16, <1>17, <1>19, RotateSound
<1>20. CASE u = longer
  BY <1>16, <1>17, <1>20
<1> QED
  BY <1>18, <1>19, <1>20 DEF AppendOutcomes, longer

\* After an entry the trail is sound.
LEMMA WriteSound ==
  ASSUME NEW t, Sound(t), LogThere(t), NEW u \in WriteOutcomes(t)
  PROVE  Sound(u) /\ LogThere(u)
<1>1. PICK ready \in IF t.open THEN {t} ELSE OpenOutcomes(t) :
        u \in IF ready.open THEN AppendOutcomes(ready) ELSE {ready}
  BY DEF WriteOutcomes
<1>2. Sound(ready) /\ LogThere(ready)
  <2>1. CASE ready = t
    BY <2>1
  <2>2. CASE ready \in OpenOutcomes(t)
    BY <2>2, OpenSound
  <2> QED
    BY <1>1, <2>1, <2>2
<1>3. CASE ready.open
  BY <1>1, <1>2, <1>3, AppendSound
<1>4. CASE ~ready.open
  BY <1>1, <1>2, <1>4
<1> QED
  BY <1>3, <1>4

\* It holds when the server starts.
LEMMA AuditStart == AuditInit => AuditInv
<1> SUFFICES ASSUME AuditInit PROVE AuditInv
  OBVIOUS
<1>1. trail = [files |-> <<>>, open |-> FALSE, inFile |-> 0, size |-> 0, written |-> 0,
               rotations |-> 0, failed |-> FALSE]
  BY DEF AuditInit
<1>2. DOMAIN <<>> = {}
  OBVIOUS
<1>3. <<>> \in FileSets
  <2>1. <<>> = [i \in DOMAIN <<>> |-> <<>>[i]]
    OBVIOUS
  <2> QED
    BY <1>2, <2>1, FilesAre
<1>4. trail \in TrailRecord
  BY <1>1, <1>3, Booleans DEF TrailRecord
<1>5. /\ trail.files = <<>> /\ trail.open = FALSE /\ trail.written = 0
      /\ trail.rotations = 0 /\ trail.failed = FALSE
  BY <1>1
<1>6. NoGap(<<>>, 0)
  <2>1. 1 \in 1 .. 0 + 1 /\ 1 .. 0 = {} /\ Entries(<<>>) = {}
    BY <1>2 DEF Entries
  <2> QED
    BY <2>1 DEF NoGap
<1>7. Reaches(<<>>, 0)
  BY SlotsAre DEF Reaches
<1>8. Upto(<<>>, 0) /\ OldestFirst(<<>>)
  BY <1>2 DEF Upto, OldestFirst
<1>9. Sound(trail) /\ LogThere(trail)
  BY <1>4, <1>5, <1>6, <1>7, <1>8 DEF Sound, LogThere
<1>10. channel \in Seq({"log", "rotate", "shutdown"}) /\ Len(channel) <= MaxMessages
  BY AuditAssumption DEF AuditInit
<1> QED
  BY <1>9, <1>10 DEF AuditInit, AuditInv

\* And whatever is sent to the writer, and wherever it fails.
LEMMA AuditStep == AuditInv /\ [AuditNext]_auditVars => AuditInv'
<1> SUFFICES ASSUME AuditInv, [AuditNext]_auditVars PROVE AuditInv'
  OBVIOUS
<1> DEFINE Kind == {"log", "rotate", "shutdown"}
<1>0. channel \in Seq(Kind) /\ Len(channel) \in Nat /\ Len(channel) <= MaxMessages /\ MaxMessages \in Nat
      /\ writing \in BOOLEAN
  BY AuditAssumption DEF AuditInv
<1>1. ASSUME NEW kind \in Kind, SendMessage(kind) PROVE AuditInv'
  <2>1. channel' = Append(channel, kind) /\ Len(channel) < MaxMessages
        /\ writing' = writing /\ trail' = trail
    BY <1>1 DEF SendMessage
  <2>2. channel' \in Seq(Kind) /\ Len(channel') = Len(channel) + 1
    BY <1>0, <2>1
  <2>3. Len(channel') <= MaxMessages
    BY <1>0, <2>1, <2>2
  <2> QED
    BY <2>1, <2>2, <2>3 DEF AuditInv
<1>2. CASE TakeMessage
  <2>1. channel # <<>> /\ channel' = Tail(channel)
    BY <1>2 DEF TakeMessage
  <2>2. channel' \in Seq(Kind) /\ Len(channel') = Len(channel) - 1
    BY <1>0, <2>1
  <2>3. Len(channel') <= MaxMessages
    BY <1>0, <2>2
  <2>4. Sound(trail) /\ LogThere(trail)
    BY DEF AuditInv
  <2>5. CASE trail' \in WriteOutcomes(trail) /\ writing' = writing
    BY <2>2, <2>3, <2>4, <2>5, WriteSound DEF AuditInv
  <2>6. CASE trail' \in RotateOutcomes(trail) /\ writing' = writing
    BY <2>2, <2>3, <2>4, <2>6, RotateSound DEF AuditInv
  <2>7. CASE writing' = FALSE /\ trail' = trail
    BY <2>2, <2>3, <2>4, <2>7 DEF AuditInv
  <2> QED
    BY <1>2, <2>5, <2>6, <2>7 DEF TakeMessage
<1>3. CASE Restart
  <2>1. channel' = <<>> /\ writing' = TRUE
        /\ trail' = [trail EXCEPT !.open = FALSE, !.inFile = 0, !.size = 0]
    BY <1>3 DEF Restart
  <2>2. Sound(trail) /\ LogThere(trail) /\ trail \in TrailRecord
    BY DEF AuditInv, Sound
  <2>3. trail' \in TrailRecord
    BY <2>1, <2>2, Booleans DEF TrailRecord
  <2>4. /\ trail'.files = trail.files /\ trail'.open = FALSE /\ trail'.written = trail.written
        /\ trail'.rotations = trail.rotations /\ trail'.failed = trail.failed
    BY <2>1, <2>2 DEF TrailRecord
  <2>5. Sound(trail')
    BY <2>2, <2>3, <2>4 DEF Sound
  <2>6. LogThere(trail')
    BY <2>2, <2>4 DEF LogThere
  <2>7. <<>> \in Seq(Kind) /\ Len(<<>>) <= MaxMessages
    BY <1>0
  <2> QED
    BY <2>1, <2>5, <2>6, <2>7 DEF AuditInv
<1>4. CASE UNCHANGED auditVars
  BY <1>4 DEF auditVars, AuditInv
<1> QED
  BY <1>1, <1>2, <1>3, <1>4 DEF AuditNext

\* The audit log's entries stay in order over all files, whatever operation of the file
\* system fails and wherever the server stops; without a failure none is missing between
\* the oldest kept and the newest, and the files reach as many rotations back as there
\* are slots for, for any number of files and any limits.
THEOREM TrailStaysKept == AuditSpec => [](AuditTypeOK /\ TrailIsKept)
<1>1. AuditInv => AuditTypeOK /\ TrailIsKept
  <2> SUFFICES ASSUME AuditInv PROVE AuditTypeOK /\ TrailIsKept
    OBVIOUS
  <2>1. /\ Sound(trail) /\ trail \in TrailRecord
        /\ trail.files \in FileSets /\ trail.written \in Nat
        /\ trail.inFile \in Nat /\ trail.size \in Nat /\ trail.rotations \in Nat
        /\ trail.open \in BOOLEAN /\ trail.failed \in BOOLEAN
    BY TrailFields DEF AuditInv, Sound
  <2>2. DOMAIN trail.files \subseteq Slots /\ \A i \in DOMAIN trail.files : trail.files[i] \in Seq(Nat)
    BY <2>1, FilesAre
  <2>3. ASSUME NEW i \in DOMAIN trail.files PROVE trail.files[i] \in Seq(1 .. trail.written)
    <3>1. PICK s \in Seq(Nat) : s = trail.files[i]
      BY <2>2
    <3>4. \A k \in DOMAIN s : s[k] \in 1 .. trail.written
      BY <2>1, <3>1 DEF Sound, Upto
    <3>2. \A k \in 1 .. Len(s) : s[k] \in 1 .. trail.written
      BY <3>4
    <3>5. PICK n, S : n = Len(s) /\ S = 1 .. trail.written
      OBVIOUS
    <3>6. n \in Nat /\ s \in [1 .. n -> S]
      BY <3>2, <3>5
    <3>7. s \in Seq(S)
      BY <3>6, SeqDef
    <3> QED
      BY <3>1, <3>5, <3>7
  <2>4. AuditTypeOK
    BY <2>1, <2>2, <2>3 DEF AuditTypeOK, AuditInv
  <2>5. Kept = Entries(trail.files)
    BY DEF Kept, Entries
  <2>6. OldestFirst(trail.files)
        /\ (~trail.failed => NoGap(trail.files, trail.written) /\ Reaches(trail.files, trail.rotations))
    BY <2>1 DEF Sound
  <2>7. \A i, j \in DOMAIN trail.files :
          \A k \in DOMAIN trail.files[i], l \in DOMAIN trail.files[j] :
            i > j \/ (i = j /\ k < l) => trail.files[i][k] < trail.files[j][l]
    BY <2>6 DEF OldestFirst
  <2>8. ~trail.failed => \E first \in 1 .. trail.written + 1 : Kept = first .. trail.written
    BY <2>5, <2>6 DEF NoGap
  <2>9. ~trail.failed => \A i \in Slots \ {0} : i <= trail.rotations => i \in DOMAIN trail.files
    BY <2>6 DEF Reaches
  <2> QED
    BY <2>4, <2>7, <2>8, <2>9 DEF TrailIsKept
<1> QED
  BY <1>1, AuditStart, AuditStep, PTL DEF AuditSpec

-----------------------------------------------------------------------------
(* Turns of the scheduler *)

(* Remainders *)

\* What a number leaves when divided.
LEMMA Divided ==
  ASSUME NEW a \in Nat, NEW m \in Nat \ {0}
  PROVE  /\ a % m \in 0 .. (m - 1) /\ a \div m \in Nat
         /\ a = m * (a \div m) + (a % m)
<1>1. a % m \in 0 .. (m - 1)
  OBVIOUS
<1>2. a \div m \in Nat
  OBVIOUS
<1>3. a = m * (a \div m) + (a % m)
  OBVIOUS
<1> QED
  BY <1>1, <1>2, <1>3

\* Multiples are apart.
LEMMA MultiplesApart ==
  ASSUME NEW k \in Int, NEW l \in Int, NEW m \in Nat \ {0}, k < l
  PROVE  m * k + m <= m * l
  OBVIOUS

\* There is only one remainder.
LEMMA OneRemainder ==
  ASSUME NEW a \in Nat, NEW m \in Nat \ {0}, NEW l \in Int, NEW s \in 0 .. (m - 1),
         a = m * l + s
  PROVE  a % m = s
<1> DEFINE k == a \div m
           r == a % m
<1>1. k \in Int /\ r \in 0 .. (m - 1) /\ m * k + r = m * l + s
  BY Divided
<1> HIDE DEF k, r
<1>2. CASE k < l
  BY <1>1, <1>2, MultiplesApart
<1>3. CASE l < k
  BY <1>1, <1>3, MultiplesApart
<1>4. CASE k = l
  BY <1>1, <1>4 DEF r
<1> QED
  BY <1>1, <1>2, <1>3, <1>4

\* Multiples of a sum.
LEMMA Distributes ==
  ASSUME NEW m \in Nat, NEW x \in Int, NEW y \in Int
  PROVE  m * (x + y) = m * x + m * y /\ m * x \in Int /\ m * y \in Int
  OBVIOUS

\* Going on from a remainder.
LEMMA RemainderGoesOn ==
  ASSUME NEW a \in Nat, NEW b \in Nat, NEW m \in Nat \ {0}
  PROVE  ((a % m) + b) % m = (a + b) % m
<1> DEFINE q == a \div m
           r == a % m
           p == (r + b) \div m
           s == (r + b) % m
<1>1. q \in Nat /\ r \in 0 .. (m - 1) /\ a = m * q + r
  BY Divided
<1>2. r + b \in Nat
  BY <1>1
<1>3. p \in Nat /\ s \in 0 .. (m - 1) /\ r + b = m * p + s
  BY <1>2, Divided
<1> HIDE DEF q, r, p, s
<1>4. m * (q + p) = m * q + m * p /\ m * q \in Int /\ m * p \in Int
  BY <1>1, <1>3, Distributes
<1>5. a + b = m * (q + p) + s
  BY <1>1, <1>3, <1>4
<1>6. (a + b) % m = s
  <2>1. a + b \in Nat /\ q + p \in Int
    BY <1>1, <1>3
  <2> QED
    BY <1>3, <1>5, <2>1, OneRemainder
<1> QED
  BY <1>6 DEF s, r

\* Once around.
LEMMA RemainderAround ==
  ASSUME NEW a \in Nat, NEW m \in Nat \ {0}
  PROVE  (a + m) % m = a % m
<1> DEFINE q == a \div m
           r == a % m
<1>1. q \in Nat /\ r \in 0 .. (m - 1) /\ a = m * q + r
  BY Divided
<1> HIDE DEF q, r
<1>2. m * (q + 1) = m * q + m * 1 /\ m * q \in Int /\ m * 1 = m
  BY <1>1, Distributes
<1>3. a + m = m * (q + 1) + r /\ a + m \in Nat /\ q + 1 \in Int
  BY <1>1, <1>2
<1>4. (a + m) % m = r
  BY <1>1, <1>3, OneRemainder
<1> QED
  BY <1>4 DEF r

\* Every remainder is reached from every number.
LEMMA RemainderReached ==
  ASSUME NEW a \in Nat, NEW m \in Nat \ {0}, NEW k \in 0 .. (m - 1)
  PROVE  \E i \in 0 .. (m - 1) : (a + i) % m = k
<1> DEFINE r == a % m
           i == IF r <= k THEN k - r ELSE k - r + m
<1>1. r \in 0 .. (m - 1)
  BY Divided
<1>2. i \in 0 .. (m - 1) /\ (r + i = k \/ r + i = k + m)
  BY <1>1
<1>3. (r + i) % m = (a + i) % m
  <2>1. i \in Nat
    BY <1>2
  <2> HIDE DEF i
  <2> QED
    BY <2>1, RemainderGoesOn
<1>4. k % m = k /\ (k + m) % m = k % m
  <2>1. k \in Nat /\ k % m = k
    OBVIOUS
  <2>2. (k + m) % m = k % m
    BY <2>1, RemainderAround
  <2> QED
    BY <2>1, <2>2
<1> HIDE DEF r, i
<1> QED
  BY <1>2, <1>3, <1>4

\* A client that is asked i-th has been passed over so often only that its turn comes
\* before the others have had more than one each.
InTurn ==
  \A c \in Enrolled : \A i \in 0 .. (Len(visit) - 1) :
    Asked(i) = c => passedOver[c] + i < Len(visit)

SchedulerInv == SchedulerTypeOK /\ InTurn

\* The table in some order: every client once.
LEMMA TableOf ==
  ASSUME NEW S \in SUBSET Tenant, NEW s \in SetToSeqs(S)
  PROVE  /\ s \in SeqOf(Tenant, Cardinality(Tenant))
         /\ Range(s) = S
<1>1. IsFiniteSet(S) /\ Cardinality(S) \in Nat /\ Cardinality(S) <= Cardinality(Tenant)
      /\ Cardinality(Tenant) \in Nat
  BY SchedulerAssumption, FS_Subset, FS_CardinalityType
<1>2. PICK n \in Nat : n = Cardinality(S)
  BY <1>1
<1>3. /\ s \in [1 .. n -> S]
      /\ \A i, j \in 1 .. n : i # j => s[i] # s[j]
  BY <1>2 DEF SetToSeqs
<1>4. s \in [1 .. n -> Tenant] /\ n \in 0 .. Cardinality(Tenant)
  BY <1>1, <1>2, <1>3
<1>5. s \in SeqOf(Tenant, Cardinality(Tenant))
  BY <1>4 DEF SeqOf
<1>6. IsFiniteSet(1 .. n) /\ Cardinality(1 .. n) = n
  BY FS_Interval
<1>7. s \in Injection(1 .. n, S)
  BY <1>3 DEF Injection, IsInjective
<1>8. s \in Surjection(1 .. n, S)
  BY <1>1, <1>2, <1>6, <1>7, FS_Injection
<1>9. Range(s) = S
  BY <1>3, <1>8 DEF Surjection, Range
<1> QED
  BY <1>5, <1>9

\* What the types say of the table.
TableSound ==
  /\ visit \in Seq(Tenant) /\ Len(visit) \in Nat /\ DOMAIN visit = 1 .. Len(visit)
  /\ Len(visit) <= Cardinality(Tenant) /\ Cardinality(Tenant) \in Nat
  /\ Enrolled = {visit[k] : k \in 1 .. Len(visit)} /\ Enrolled \subseteq Tenant
  /\ next \in Nat

\* The types make the table sound.
LEMMA TableNow == SchedulerTypeOK => TableSound
<1> SUFFICES ASSUME SchedulerTypeOK PROVE TableSound
  OBVIOUS
<1>1. Cardinality(Tenant) \in Nat
  BY SchedulerAssumption, FS_CardinalityType
<1>2. PICK n \in 0 .. Cardinality(Tenant) : visit \in [1 .. n -> Tenant]
  BY DEF SchedulerTypeOK, SeqOf
<1>3. n \in Nat
  BY <1>1, <1>2
<1>4. visit \in Seq(Tenant) /\ Len(visit) = n /\ DOMAIN visit = 1 .. n
  BY <1>2, <1>3
<1>5. Enrolled = {visit[k] : k \in 1 .. n}
  BY <1>4 DEF Enrolled, Range
<1>6. Enrolled \subseteq Tenant
  BY <1>2, <1>5
<1> QED
  BY <1>1, <1>2, <1>3, <1>4, <1>5, <1>6 DEF SchedulerTypeOK, TableSound

\* When nobody was passed over everyone is in turn.
LEMMA AllInTurn ==
  ASSUME SchedulerTypeOK', passedOver' = NobodyPassed
  PROVE  InTurn'
<1>1. TableSound'
  BY TableNow, PTL
<1> QED
  BY <1>1 DEF TableSound, InTurn, NobodyPassed

\* Everyone is asked at some place.
LEMMA EveryoneIsAsked ==
  ASSUME SchedulerTypeOK, NEW c \in Enrolled
  PROVE  \E i \in 0 .. (Len(visit) - 1) : Asked(i) = c
<1>1. PICK k \in 1 .. Len(visit) : visit[k] = c
  BY TableNow DEF TableSound
<1>2. Len(visit) \in Nat \ {0} /\ k - 1 \in 0 .. (Len(visit) - 1) /\ next \in Nat
  BY <1>1, TableNow DEF TableSound
<1>3. PICK i \in 0 .. (Len(visit) - 1) : (next + i) % Len(visit) = k - 1
  BY <1>2, RemainderReached
<1>4. k - 1 + 1 = k
  BY <1>1, <1>2
<1> QED
  BY <1>1, <1>3, <1>4 DEF Asked

\* A client comes or goes: the table has a new order, and nobody was passed over yet.
LEMMA RegisterClientStep ==
  ASSUME SchedulerInv, NEW c \in Tenant, RegisterClient(c) \/ UnregisterClient(c)
  PROVE  SchedulerInv'
<1>1. /\ next' = next /\ passedOver' = NobodyPassed
      /\ used' = [used EXCEPT ![c] = 0] /\ over' = over \ {c}
  BY DEF RegisterClient, UnregisterClient
<1>2. TableSound
  BY TableNow DEF SchedulerInv
<1>3. PICK S \in SUBSET Tenant : visit' \in SetToSeqs(S) /\ over \ {c} \subseteq S
  BY <1>2 DEF RegisterClient, UnregisterClient, TableSound, SchedulerInv, SchedulerTypeOK
<1>4. visit' \in SeqOf(Tenant, Cardinality(Tenant)) /\ Enrolled' = S
  BY <1>3, TableOf DEF Enrolled
<1>5. 0 \in Nat
  OBVIOUS
<1>6. SchedulerTypeOK'
  BY <1>1, <1>3, <1>4, <1>5 DEF SchedulerInv, SchedulerTypeOK, NobodyPassed
<1> QED
  BY <1>1, <1>6, AllInTurn DEF SchedulerInv

\* A transfer is counted.
LEMMA RecordTransferStep ==
  ASSUME SchedulerInv, NEW c \in Tenant, NEW bytes \in Amount, RecordTransfer(c, bytes)
  PROVE  SchedulerInv'
<1>1. /\ used' = [used EXCEPT ![c] = UsedNow(c) + bytes] /\ over' = over \ {c}
      /\ UNCHANGED <<visit, next, passedOver>>
  BY DEF RecordTransfer
<1>2. UsedNow(c) + bytes \in Nat
  BY SchedulerAssumption DEF SchedulerInv, SchedulerTypeOK, UsedNow
<1>3. Enrolled' = Enrolled
  BY <1>1 DEF Enrolled
<1>4. SchedulerTypeOK'
  BY <1>1, <1>2, <1>3 DEF SchedulerInv, SchedulerTypeOK
<1>5. InTurn'
  BY <1>1, <1>3 DEF SchedulerInv, InTurn, Asked
<1> QED
  BY <1>4, <1>5 DEF SchedulerInv

\* A window is over.
LEMMA WindowEndsStep ==
  ASSUME SchedulerInv, NEW c \in Tenant, WindowEnds(c)
  PROVE  SchedulerInv'
<1>1. Enrolled' = Enrolled /\ UNCHANGED <<visit, next, used, passedOver>>
      /\ over' = over \cup {c} /\ c \in Enrolled
  BY DEF WindowEnds, Enrolled
<1>2. SchedulerTypeOK'
  BY <1>1 DEF SchedulerInv, SchedulerTypeOK
<1>3. InTurn'
  BY <1>1 DEF SchedulerInv, InTurn, Asked
<1> QED
  BY <1>2, <1>3 DEF SchedulerInv

\* A turn that is given: whoever still waits for one with quota left has moved on by at
\* least one place for it.
LEMMA TurnKeepsOrder ==
  ASSUME SchedulerInv, TableSound, NEW turn \in 0 .. (Len(visit) - 1),
         \A j \in 0 .. (Len(visit) - 1) : WithinQuota(Asked(j)) => turn <= j,
         visit' = visit, next' = IndexAfter(turn),
         passedOver' = [c \in Tenant |-> IF c # Asked(turn) /\ c \in Enrolled /\ WithinQuota(c)
                                         THEN passedOver[c] + 1 ELSE 0]
  PROVE  InTurn'
<1>1. /\ Len(visit) \in Nat \ {0} /\ next \in Nat /\ turn \in Nat
      /\ Enrolled' = Enrolled /\ Enrolled \subseteq Tenant
  BY DEF TableSound, Enrolled
<1> SUFFICES ASSUME NEW c \in Enrolled, NEW i \in 0 .. (Len(visit) - 1), Asked(i)' = c
             PROVE  passedOver'[c] + i < Len(visit)
  BY <1>1 DEF InTurn
<1>2. i \in Nat /\ i < Len(visit) /\ c \in Tenant
  BY <1>1
<1>3. CASE ~(c # Asked(turn) /\ WithinQuota(c))
  <2>1. passedOver'[c] = 0
    BY <1>2, <1>3
  <2> QED
    BY <1>1, <1>2, <2>1
<1>4. CASE c # Asked(turn) /\ WithinQuota(c)
  <2> DEFINE m == Len(visit)
             k == turn + 1 + i
  <2>1. passedOver'[c] = passedOver[c] + 1 /\ passedOver[c] \in Nat
    BY <1>2, <1>4 DEF SchedulerInv, SchedulerTypeOK
  <2>2. Asked(i)' = visit[((next + k) % m) + 1]
    <3>1. next' = (next + turn + 1) % m
      BY DEF IndexAfter
    <3>2. PICK a \in Nat : a = next + turn + 1
      BY <1>1
    <3>3. ((a % m) + i) % m = (a + i) % m
      BY <1>1, <1>2, <3>2, RemainderGoesOn
    <3>4. a + i = next + k
      BY <1>1, <1>2, <3>2
    <3> QED
      BY <3>1, <3>2, <3>3, <3>4 DEF Asked
  <2>3. k \in Nat /\ k < m + m
    BY <1>1, <1>2
  <2>4. CASE k < m
    <3>1. Asked(k) = c /\ k \in 0 .. (Len(visit) - 1)
      BY <1>1, <2>2, <2>3, <2>4 DEF Asked
    <3>2. passedOver[c] + k < Len(visit)
      BY <3>1 DEF SchedulerInv, InTurn
    <3> QED
      BY <1>1, <1>2, <2>1, <3>2
  <2>5. CASE ~(k < m)
    <3>1. PICK j \in Nat : j + m = k
      <4>1. k - m \in Nat /\ (k - m) + m = k
        BY <1>1, <2>3, <2>5
      <4> QED
        BY <4>1
    <3>2. j \in 0 .. (Len(visit) - 1) /\ j <= turn
      BY <1>1, <1>2, <2>3, <3>1
    <3>3. (next + k) % m = (next + j) % m
      <4>1. PICK a \in Nat : a = next + j
        BY <1>1, <3>1
      <4>2. next + k = a + m
        BY <1>1, <2>3, <3>1, <4>1
      <4> HIDE DEF k
      <4> QED
        BY <1>1, <4>1, <4>2, RemainderAround
    <3>4. Asked(j) = c
      BY <2>2, <3>3 DEF Asked
    <3>5. turn <= j
      BY <1>4, <3>2, <3>4
    <3>6. j = turn
      BY <1>1, <3>1, <3>2, <3>5
    <3> QED
      BY <1>4, <3>4, <3>6
  <2> QED
    BY <2>4, <2>5
<1> QED
  BY <1>3, <1>4

\* A client is selected, or none.
LEMMA SelectNextStep ==
  ASSUME SchedulerInv, SelectNext
  PROVE  SchedulerInv'
<1> DEFINE turns == {i \in 0..(Len(visit) - 1) : WithinQuota(Asked(i))}
           turn  == CHOOSE i \in turns : \A j \in turns : i <= j
           asked == IF turns = {} THEN Enrolled ELSE {Asked(i) : i \in 0..turn}
<1>1. /\ used' = [c \in Tenant |-> IF c \in asked THEN UsedNow(c) ELSE used[c]]
      /\ over' = over \ asked /\ visit' = visit
  BY DEF SelectNext
<1>2. TableSound /\ Enrolled' = Enrolled
  BY <1>1, TableNow DEF SchedulerInv, Enrolled
<1>3. Len(visit) \in Nat \ {0}
  BY <1>2 DEF SelectNext, TableSound
<1>4. used' \in [Tenant -> Nat] /\ over' \subseteq Enrolled
  <2>1. \A c \in Tenant : UsedNow(c) \in Nat /\ used[c] \in Nat
    BY DEF UsedNow, SchedulerInv, SchedulerTypeOK
  <2> HIDE DEF asked
  <2> QED
    BY <1>1, <2>1 DEF SchedulerInv, SchedulerTypeOK
<1>5. CASE turns = {}
  <2>1. next' = next /\ passedOver' = passedOver
    BY <1>5 DEF SelectNext
  <2>2. SchedulerTypeOK'
    BY <1>1, <1>2, <1>4, <2>1 DEF SchedulerInv, SchedulerTypeOK
  <2>3. InTurn'
    BY <1>1, <1>2, <2>1 DEF SchedulerInv, InTurn, Asked
  <2> QED
    BY <2>2, <2>3 DEF SchedulerInv
<1>6. CASE turns # {}
  <2>1. /\ next' = IndexAfter(turn)
        /\ passedOver' = [c \in Tenant |-> IF c # Asked(turn) /\ c \in Enrolled /\ WithinQuota(c)
                                           THEN passedOver[c] + 1 ELSE 0]
    BY <1>6 DEF SelectNext
  <2>2. turns \in SUBSET Nat
    BY <1>3
  <2>3. turn \in turns /\ \A j \in turns : turn <= j
    <3>1. \E i \in turns : \A j \in turns : i <= j
      BY <1>6, <2>2, LeastOf
    <3> HIDE DEF turns
    <3> QED
      BY <3>1
  <2> HIDE DEF turn
  <2>4. /\ turn \in 0 .. (Len(visit) - 1)
        /\ \A j \in 0 .. (Len(visit) - 1) : WithinQuota(Asked(j)) => turn <= j
    BY <2>3
  <2>5. InTurn'
    BY <1>1, <1>2, <2>1, <2>4, TurnKeepsOrder
  <2>6. next' \in 0 .. Cardinality(Tenant)
    <3>1. PICK a \in Nat : a = next + turn + 1
      BY <1>2, <1>3, <2>4 DEF TableSound
    <3>2. a % Len(visit) \in 0 .. (Len(visit) - 1)
      BY <1>3, <3>1, Divided
    <3> QED
      BY <1>2, <1>3, <2>1, <3>1, <3>2 DEF IndexAfter, TableSound
  <2>7. passedOver' \in [Tenant -> Nat]
    <3>1. \A c \in Tenant : passedOver[c] \in Nat /\ passedOver[c] + 1 \in Nat /\ 0 \in Nat
      BY DEF SchedulerInv, SchedulerTypeOK
    <3> QED
      BY <2>1, <3>1
  <2>8. SchedulerTypeOK'
    BY <1>1, <1>2, <1>4, <2>6, <2>7 DEF SchedulerInv, SchedulerTypeOK
  <2> QED
    BY <2>5, <2>8 DEF SchedulerInv
<1> QED
  BY <1>5, <1>6

\* It holds when nobody is registered.
LEMMA SchedulerStart == SchedulerInit => SchedulerInv
<1> SUFFICES ASSUME SchedulerInit PROVE SchedulerInv
  OBVIOUS
<1>1. Cardinality(Tenant) \in Nat
  BY SchedulerAssumption, FS_CardinalityType
<1>2. visit = <<>> /\ Enrolled = {} /\ next = 0
  BY DEF SchedulerInit, Enrolled, Range
<1>3. <<>> \in [1 .. 0 -> Tenant] /\ 0 \in 0 .. Cardinality(Tenant) /\ 0 \in Nat
  BY <1>1
<1>4. visit \in SeqOf(Tenant, Cardinality(Tenant))
  BY <1>2, <1>3 DEF SeqOf
<1>5. SchedulerTypeOK
  BY <1>2, <1>3, <1>4 DEF SchedulerInit, SchedulerTypeOK, NobodyPassed
<1>6. InTurn
  BY <1>2 DEF InTurn
<1> QED
  BY <1>5, <1>6 DEF SchedulerInv

\* And whatever clients come, go, send and are selected.
LEMMA SchedulerStep == SchedulerInv /\ [SchedulerNext]_schedulerVars => SchedulerInv'
<1> SUFFICES ASSUME SchedulerInv, [SchedulerNext]_schedulerVars PROVE SchedulerInv'
  OBVIOUS
<1>1. CASE SelectNext
  BY <1>1, SelectNextStep
<1>2. ASSUME NEW c \in Tenant, RegisterClient(c) \/ UnregisterClient(c) PROVE SchedulerInv'
  BY <1>2, RegisterClientStep
<1>3. ASSUME NEW c \in Tenant, WindowEnds(c) PROVE SchedulerInv'
  BY <1>3, WindowEndsStep
<1>4. ASSUME NEW c \in Tenant, NEW bytes \in Amount, RecordTransfer(c, bytes)
      PROVE  SchedulerInv'
  BY <1>4, RecordTransferStep
<1>5. CASE UNCHANGED schedulerVars
  BY <1>5 DEF schedulerVars, SchedulerInv, SchedulerTypeOK, InTurn, Asked, Enrolled
<1> QED
  BY <1>1, <1>2, <1>3, <1>4, <1>5 DEF SchedulerNext

\* Round robin is fair to every client with quota left (select_next_client), for any
\* number of clients, any quota and any order of the hash table.
THEOREM NobodyStaysPassedOver == SchedulerSpec => [](SchedulerTypeOK /\ NobodyIsPassedOver)
<1>1. SchedulerInv => SchedulerTypeOK /\ NobodyIsPassedOver
  <2> SUFFICES ASSUME SchedulerInv, NEW c \in Enrolled
               PROVE  SchedulerTypeOK /\ passedOver[c] < Len(visit)
    BY DEF SchedulerInv, NobodyIsPassedOver
  <2>1. TableSound
    BY TableNow DEF SchedulerInv
  <2>2. PICK i \in 0 .. (Len(visit) - 1) : Asked(i) = c
    BY EveryoneIsAsked DEF SchedulerInv
  <2>3. passedOver[c] + i < Len(visit) /\ passedOver[c] \in Nat
    BY <2>1, <2>2 DEF SchedulerInv, InTurn, SchedulerTypeOK, TableSound
  <2> QED
    BY <2>1, <2>2, <2>3 DEF SchedulerInv, TableSound
<1> QED
  BY <1>1, SchedulerStart, SchedulerStep, PTL DEF SchedulerSpec

=============================================================================
