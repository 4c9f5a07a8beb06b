--------------------------- MODULE ClientPartsProofs ---------------------------
(***************************************************************************)
(* The parts of the client beside its connections: the ports of vhci_hcd,  *)
(* the bridge of a virtual device, its buffer of reports and the attaching *)
(* of a server's devices.  What keeps each of them sound, for any number   *)
(* of ports, devices, tasks, requests, reports, units and handles.         *)
(***************************************************************************)
EXTENDS MCClientParts, SequenceTheorems, FiniteSetTheorems, WellFoundedInduction, TLAPS

-----------------------------------------------------------------------------
(* Numbers and sequences *)

Lower(a, b) == a < b
NatOrder == OpToRel(Lower, Nat)

\* Numbers have a least one.
LEMMA LeastOf ==
  ASSUME NEW S \in SUBSET Nat, S # {}
  PROVE  \E p \in S : \A q \in S : p <= q
<1>1. IsWellFoundedOn(NatOrder, Nat)
  BY NatLessThanWellFounded DEF OpToRel, NatOrder, Lower
<1>3. PICK x \in S : \A y \in S : ~(<<y, x>> \in NatOrder)
  BY <1>1, WFMin, Zenon
<1>4. \A y \in S : ~(y < x)
  BY <1>3 DEF NatOrder, Lower, OpToRel
<1> QED
  BY <1>4

\* Bounded numbers have a greatest one.
LEMMA GreatestOf ==
  ASSUME NEW N \in Nat, NEW S \in SUBSET (0..N), S # {}
  PROVE  \E p \in S : \A q \in S : q <= p
<1> DEFINE T == {t \in 0..N : N - t \in S}
<1>1. T \in SUBSET Nat /\ T # {}
  <2>1. PICK s \in S : TRUE
    OBVIOUS
  <2>2. N - s \in 0..N /\ N - (N - s) = s
    OBVIOUS
  <2> QED
    BY <2>1, <2>2
<1>2. PICK t \in T : \A q \in T : t <= q
  <2> HIDE DEF T
  <2> QED
    BY <1>1, LeastOf
<1>3. \A q \in S : N - q \in T
  OBVIOUS
<1> QED
  BY <1>2, <1>3

\* Of a set of numbers, those with fewer than k below them are at most k.
LEMMA AtMost ==
  ASSUME NEW N \in Nat, NEW new \in SUBSET (0..N), NEW k \in Nat
  PROVE  LET kept == {m \in new : Cardinality({n \in new : n < m}) < k}
         IN  IsFiniteSet(kept) /\ Cardinality(kept) <= k
<1> DEFINE kept == {m \in new : Cardinality({n \in new : n < m}) < k}
<1>1. IsFiniteSet(0..N)
  BY FS_Interval
<1>5. kept \in SUBSET new
  OBVIOUS
<1>2. IsFiniteSet(new) /\ IsFiniteSet(kept)
  <2> HIDE DEF kept
  <2>1. IsFiniteSet(new)
    BY <1>1, FS_Subset
  <2> QED
    BY <2>1, <1>5, FS_Subset
<1>3. ASSUME kept = {} PROVE Cardinality(kept) <= k
  <2> HIDE DEF kept
  <2> QED
    BY <1>2, <1>3, FS_EmptySet
<1>4. CASE kept # {}
  <2>1. PICK top \in kept : \A q \in kept : q <= top
    <3>1. kept \in SUBSET (0..N)
      OBVIOUS
    <3> HIDE DEF kept
    <3> QED
      BY <1>4, <3>1, GreatestOf
  <2> DEFINE lower == {n \in new : n < top}
  <2>2. IsFiniteSet(lower) /\ Cardinality(lower) < k
    <3>1. Cardinality(lower) < k
      BY <2>1
    <3>2. lower \in SUBSET new
      OBVIOUS
    <3> HIDE DEF lower, kept
    <3> QED
      BY <1>2, <3>1, <3>2, FS_Subset
  <2>3. kept \ {top} \in SUBSET lower
    <3>1. kept \in SUBSET new /\ new \in SUBSET Nat
      BY <1>5
    <3> HIDE DEF kept
    <3> QED
      BY <2>1, <3>1
  <2>4. Cardinality(kept \ {top}) <= Cardinality(lower)
    BY <2>2, <2>3, FS_Subset
  <2>5. Cardinality(kept \ {top}) = Cardinality(kept) - 1
    BY <1>2, FS_RemoveElement
  <2>6. Cardinality(kept) \in Nat /\ Cardinality(lower) \in Nat
    BY <1>2, <2>2, FS_CardinalityType
  <2> QED
    BY <1>2, <2>2, <2>4, <2>5, <2>6
<1> QED
  BY <1>2, <1>3, <1>4

\* The sequences of at most n members.
LEMMA Bounded ==
  ASSUME NEW S, NEW n \in Nat
  PROVE  \A s : s \in BoundedSeq(S, n) <=> s \in Seq(S) /\ Len(s) <= n
<1> SUFFICES ASSUME NEW s PROVE s \in BoundedSeq(S, n) <=> s \in Seq(S) /\ Len(s) <= n
  OBVIOUS
<1>1. ASSUME s \in BoundedSeq(S, n) PROVE s \in Seq(S) /\ Len(s) <= n
  <2>1. PICK m \in 0..n : s \in [1..m -> S]
    BY <1>1 DEF BoundedSeq, SeqOf
  <2> QED
    BY <2>1
<1>2. ASSUME s \in Seq(S), Len(s) <= n PROVE s \in BoundedSeq(S, n)
  <2>1. s \in [1..Len(s) -> S] /\ Len(s) \in 0..n
    BY <1>2
  <2> QED
    BY <2>1 DEF BoundedSeq, SeqOf
<1> QED
  BY <1>1, <1>2

\* A sequence with one more member at its end.
LEMMA AppendTo ==
  ASSUME NEW S, NEW s \in Seq(S), NEW x \in S
  PROVE  /\ Append(s, x) \in Seq(S)
         /\ Append(s, x) # <<>>
         /\ DOMAIN Append(s, x) = DOMAIN s \cup {Len(s) + 1}
         /\ Len(s) + 1 \notin DOMAIN s
         /\ Append(s, x)[Len(s) + 1] = x
         /\ \A i \in DOMAIN s : Append(s, x)[i] = s[i] /\ i < Len(s) + 1
         /\ s # <<>> => Head(Append(s, x)) = Head(s)
  OBVIOUS

\* A sequence without its first member.
LEMMA TailOf ==
  ASSUME NEW S, NEW s \in Seq(S), s # <<>>
  PROVE  /\ Head(s) \in S /\ Tail(s) \in Seq(S)
         /\ 1 \in DOMAIN s /\ Head(s) = s[1]
         /\ \A i \in DOMAIN Tail(s) : i + 1 \in DOMAIN s /\ Tail(s)[i] = s[i + 1]
         /\ \A i \in DOMAIN s : i = 1 \/ (i - 1 \in DOMAIN Tail(s) /\ s[i] = Tail(s)[i - 1])
  OBVIOUS

-----------------------------------------------------------------------------
(* Ports *)

Attaching == {"status", "allocate", "vhci", "enter"}
Placing == {"vhci", "enter"}
Freeing == {"free", "forcefree", "forceremove"}
Emptied == {"unvhci", "free", "unremote"}

\* w gives back the port of its device; without an entry there was none to give.
Gives(w) == job[w].pc \in Detaching /\ job[w].port # NoPort

\* The entry of d is still there, its port is not d's any more.
IsFreed(d) ==
  \E w \in Worker : job[w].pc = "forceremove" /\ job[w].port # NoPort /\ job[w].plug = d

\* A task that attaches has its device to itself.
AttachersAlone ==
  \A w \in Worker :
    /\ job[w].pc = "bridge" => job[w].plug \in spent
    /\ job[w].pc \in Attaching =>
         /\ job[w].plug \in spent \ Entered
         /\ \A v \in Worker \ {w} :
              job[v].pc \in Attaching \/ Gives(v) => job[v].plug # job[w].plug

\* A task that gives a port back does so for an entry of that port, alone unless
\* the port is contested.
GiversKnow ==
  \A w \in Worker : Gives(w) =>
    /\ job[w].plug \in spent
    /\ job[w].port \in Ports
    /\ job[w].plug \in Entered => devices[job[w].plug] = job[w].port
    /\ job[w].port \notin contested =>
         /\ job[w].plug \in Entered
         /\ \A v \in Worker \ {w} : Gives(v) => job[v].plug # job[w].plug

\* The lock is held over a detach, and for ever by a task that waits for itself.
WriterDetaches ==
  \A w \in Worker :
    /\ job[w].pc \in Emptied => writer = w /\ job[w].port # NoPort
    /\ job[w].pc \in Forcing => job[w].port # NoPort \/ (writer = w /\ job[w].pc = "forceremove")

\* A task that places a device holds its port alone, and the port counts as
\* allocated.
PlacersAlone ==
  \A w \in Worker : job[w].pc \in Placing =>
    /\ job[w].port \in Ports
    /\ job[w].port \notin contested =>
         /\ job[w].port \in bitmap
         /\ \A v \in Worker \ {w} : job[v].pc \in Placing => job[v].port # job[w].port
         /\ \A d \in Entered : devices[d] = job[w].port => IsFreed(d)

\* So does an entry whose port has not been given back.
EntriesAlone ==
  \A d \in Entered : devices[d] \notin contested /\ ~IsFreed(d) =>
    /\ devices[d] \in bitmap
    /\ \A e \in Entered \ {d} : devices[e] = devices[d] => IsFreed(e)

\* What the kernel has of ours is at the port of a task that enters it, or of its
\* entry.
KernelAgrees ==
  \A p \in Ports \ contested : kernel[p] \in Plug =>
    \/ \E w \in Worker : job[w].pc = "enter" /\ job[w].port = p /\ job[w].plug = kernel[p]
    \/ /\ kernel[p] \in Entered /\ devices[kernel[p]] = p
       /\ \A w \in Worker : job[w].pc \in Freeing /\ job[w].port # NoPort
                              => job[w].plug # kernel[p]

Ownership ==
  AttachersAlone /\ GiversKnow /\ WriterDetaches /\ PlacersAlone /\ EntriesAlone /\ KernelAgrees

PortsInv == PortsTypeOK /\ Ownership

\* What a step does to the job of w, and that it does nothing to the others.
Turns(w, pc, plug, port) ==
  /\ job' \in [Worker -> PortJob]
  /\ job'[w].pc = pc /\ job'[w].plug = plug /\ job'[w].port = port
  /\ \A v \in Worker \ {w} : job'[v] = job[v]

\* A job goes on to its next step.
LEMMA JobDoes ==
  ASSUME PortsTypeOK, NEW w \in Worker,
         NEW pc \in {"enter", "bridge", "free", "unremote", "forcefree", "forceremove"},
         Does(w, pc)
  PROVE  Turns(w, pc, job[w].plug, job[w].port)
  BY DEF PortsTypeOK, PortJob, Does, Turns

\* A job ends.
LEMMA JobDone ==
  ASSUME PortsTypeOK, NEW w \in Worker, IsDone(w)
  PROVE  Turns(w, "idle", NoPlug, NoPort)
  BY DEF PortsTypeOK, PortJob, IsDone, NoJob, JobAt, Turns

\* A worker takes up a job.
LEMMA JobStarts ==
  ASSUME PortsTypeOK, NEW w \in Worker, NEW d \in Plug, NEW p \in Ports \cup {NoPort},
         NEW pc \in {"status", "unvhci", "forceunvhci", "forceremove"},
         job' = [job EXCEPT ![w] = JobAt(pc, d, p)]
  PROVE  Turns(w, pc, d, p)
<1>1. JobAt(pc, d, p) \in PortJob
  BY DEF PortJob, JobAt
<1>2. /\ JobAt(pc, d, p).pc = pc /\ JobAt(pc, d, p).plug = d /\ JobAt(pc, d, p).port = p
  BY DEF JobAt
<1> QED
  BY <1>1, <1>2 DEF PortsTypeOK, Turns

\* A job has got a port.
LEMMA JobPlaces ==
  ASSUME PortsTypeOK, NEW w \in Worker, NEW p \in Ports,
         job' = [job EXCEPT ![w].pc = "vhci", ![w].port = p, ![w].seen = {}]
  PROVE  Turns(w, "vhci", job[w].plug, p)
<1>1. job \in [Worker -> PortJob] /\ job[w] \in PortJob
  BY DEF PortsTypeOK
<1>2. /\ \A v \in Worker \ {w} : job'[v] = job[v]
      /\ job'[w] = [job[w] EXCEPT !.pc = "vhci", !.port = p, !.seen = {}]
  BY <1>1
<1>3. job'[w].pc = "vhci" /\ job'[w].plug = job[w].plug /\ job'[w].port = p
  BY <1>1, <1>2 DEF PortJob
<1>4. job'[w] \in PortJob
  BY <1>1, <1>2 DEF PortJob
<1>5. job' \in [Worker -> PortJob]
  BY <1>1, <1>2, <1>4
<1> QED
  BY <1>2, <1>3, <1>5 DEF Turns

\* The step, with the job's change said by Turns alone.
LEMMA PortsStep ==
  ASSUME PortsInv, [PortsNext]_portVars
  PROVE  PortsInv'
<1> USE PortsAssumption DEF PortsInv, Ownership
<1>1. ASSUME NEW w \in Worker, NEW d \in Plug, AttachRemote(w, d) PROVE PortsInv'
  <2>1. Turns(w, "status", d, NoPort)
    BY <1>1, JobStarts DEF AttachRemote, Entered, PortsTypeOK
  <2>2. PortsTypeOK'
    BY <1>1, <2>1 DEF AttachRemote, Turns, PortsTypeOK, Entered
  <2>3. AttachersAlone'
    BY <1>1, <2>1 DEF AttachRemote, Turns, PortsTypeOK, AttachersAlone, GiversKnow,
           WriterDetaches, PlacersAlone, EntriesAlone, KernelAgrees, Gives, Entered
  <2>4. GiversKnow'
    BY <1>1, <2>1 DEF AttachRemote, Turns, GiversKnow, Gives, Entered
  <2>5. WriterDetaches'
    BY <1>1, <2>1 DEF AttachRemote, Turns, WriterDetaches, Gives, Emptied, Detaching,
           Forcing
  <2>6. PlacersAlone'
    BY <1>1, <2>1 DEF AttachRemote, Turns, PlacersAlone, IsFreed, Placing, Leaves, Entered
  <2>7. EntriesAlone'
    BY <1>1, <2>1 DEF AttachRemote, Turns, EntriesAlone, IsFreed, Leaves, Entered
  <2>8. KernelAgrees'
    BY <1>1, <2>1 DEF AttachRemote, Turns, KernelAgrees, Entered
  <2> QED
    BY <2>2, <2>3, <2>4, <2>5, <2>6, <2>7, <2>8
<1>2. ASSUME NEW w \in Worker, ReadStatus(w) PROVE PortsInv'
  <2>0. PICK used \in SUBSET Ports :
              job' = [job EXCEPT ![w].pc = "allocate", ![w].seen = used]
    BY <1>2 DEF ReadStatus
  <2>1. Turns(w, "allocate", job[w].plug, job[w].port)
    <3> DEFINE next == [job[w] EXCEPT !.pc = "allocate", !.seen = used]
    <3>1. job \in [Worker -> PortJob]
      BY DEF PortsTypeOK
    <3>2. next \in PortJob /\ next.pc = "allocate" /\ next.plug = job[w].plug /\ next.port = job[w].port
      BY <3>1 DEF PortJob
    <3>3. job' = [job EXCEPT ![w] = next]
      BY <2>0
    <3> HIDE DEF next
    <3> QED
      BY <3>1, <3>2, <3>3 DEF Turns
  <2>2. UNCHANGED <<kernel, bitmap, devices, bridges, remote, spent, writer, contested>>
    BY <1>2 DEF ReadStatus
  <2>3. job[w].pc = "status"
    BY <1>2 DEF ReadStatus
  <2>4. PortsTypeOK'
    BY <2>1, <2>2, <2>3 DEF ReadStatus, Turns, PortsTypeOK, Entered
  <2>5. AttachersAlone'
    BY <2>1, <2>2, <2>3 DEF ReadStatus, Turns, AttachersAlone, Gives, Attaching, Entered
  <2>6. GiversKnow'
    BY <2>1, <2>2, <2>3 DEF ReadStatus, Turns, GiversKnow, Gives, Detaching, Forcing,
           Entered
  <2>7. WriterDetaches'
    BY <2>1, <2>2, <2>3 DEF ReadStatus, Turns, WriterDetaches, Gives, Emptied, Detaching,
           Forcing
  <2>8. PlacersAlone'
    BY <2>1, <2>2, <2>3 DEF ReadStatus, Turns, PlacersAlone, IsFreed, Placing, Leaves,
           Entered
  <2>9. EntriesAlone'
    BY <2>1, <2>2, <2>3 DEF ReadStatus, Turns, EntriesAlone, IsFreed, Leaves, Entered
  <2>10. KernelAgrees'
    BY <2>1, <2>2, <2>3 DEF ReadStatus, Turns, KernelAgrees, Freeing, Entered
  <2> QED
    BY <2>4, <2>5, <2>6, <2>7, <2>8, <2>9, <2>10
<1>3. ASSUME NEW w \in Worker, AllocatePort(w) PROVE PortsInv'
  <2> DEFINE merged == bitmap \cup job[w].seen
             free == Ports \ merged
             least == CHOOSE p \in free : \A q \in free : p <= q
  <2>0. job[w].pc = "allocate" /\ merged \subseteq Ports
        /\ UNCHANGED <<kernel, devices, bridges, remote, spent, writer, contested>>
    BY <1>3 DEF AllocatePort, PortsTypeOK, PortJob
  <2>1. CASE free = {}
    <3>1. /\ bitmap \subseteq bitmap' /\ bitmap' \subseteq Ports
          /\ Turns(w, "idle", NoPlug, NoPort)
      BY <1>3, <2>0, <2>1, JobDone DEF AllocatePort
    <3> HIDE DEF merged, free, least
    <3>2. PortsTypeOK'
      BY <2>0, <3>1 DEF Turns, PortsTypeOK, Entered
    <3>3. AttachersAlone'
      BY <2>0, <3>1 DEF Turns, AttachersAlone, Gives, Attaching, Entered
    <3>4. GiversKnow'
      BY <2>0, <3>1 DEF Turns, GiversKnow, Gives, Entered
    <3>5. WriterDetaches'
      BY <2>0, <3>1 DEF Turns, WriterDetaches, Gives, Emptied, Detaching, Forcing
    <3>6. PlacersAlone'
      BY <2>0, <3>1 DEF Turns, PlacersAlone, IsFreed, Placing, Leaves, Entered
    <3>7. EntriesAlone'
      BY <2>0, <3>1 DEF Turns, EntriesAlone, IsFreed, Leaves, Entered
    <3>8. KernelAgrees'
      BY <2>0, <3>1 DEF Turns, KernelAgrees, Entered
    <3> QED
      BY <3>2, <3>3, <3>4, <3>5, <3>6, <3>7, <3>8
  <2>2. CASE free # {}
    <3>1. bitmap' = merged \cup {least}
          /\ job' = [job EXCEPT ![w].pc = "vhci", ![w].port = least, ![w].seen = {}]
      BY <1>3, <2>2 DEF AllocatePort
    <3>2. least \in Ports /\ least \notin bitmap
      <4>1. free \in SUBSET Nat
        BY DEF Ports
      <4>2. \E p \in free : \A q \in free : p <= q
        <5> HIDE DEF free
        <5> QED
          BY <4>1, <2>2, LeastOf
      <4>3. least \in free
        BY <4>2, Zenon
      <4> QED
        BY <4>3
    <3> HIDE DEF free, least
    <3>3. Turns(w, "vhci", job[w].plug, least)
      BY <3>1, <3>2, JobPlaces
    <3>4. bitmap' = merged \cup {least} /\ bitmap \subseteq merged
      BY <3>1
    <3> HIDE DEF merged
    <3>5. PortsTypeOK'
      BY <2>0, <3>2, <3>3, <3>4 DEF Turns, PortsTypeOK, Entered
    <3>6. AttachersAlone'
      BY <2>0, <3>2, <3>3, <3>4 DEF Turns, AttachersAlone, Gives, Attaching, Entered
    <3>7. GiversKnow'
      BY <2>0, <3>2, <3>3, <3>4 DEF Turns, GiversKnow, Gives, Detaching, Forcing, Entered
    <3>8. WriterDetaches'
      BY <2>0, <3>2, <3>3, <3>4 DEF Turns, WriterDetaches, Gives, Emptied, Detaching,
             Forcing
    <3>9. PlacersAlone'
      BY <2>0, <3>2, <3>3, <3>4 DEF Turns, AttachersAlone, GiversKnow, WriterDetaches,
             PlacersAlone, EntriesAlone, KernelAgrees, IsFreed, Leaves, Entered
    <3>10. EntriesAlone'
      BY <2>0, <3>2, <3>3, <3>4 DEF Turns, EntriesAlone, IsFreed, Leaves, Entered
    <3>11. KernelAgrees'
      BY <2>0, <3>2, <3>3, <3>4 DEF Turns, KernelAgrees, Freeing, Entered
    <3> QED
      BY <3>5, <3>6, <3>7, <3>8, <3>9, <3>10, <3>11
  <2> QED
    BY <2>1, <2>2
<1>4. ASSUME NEW w \in Worker, AttachToVhci(w) PROVE PortsInv'
  <2>1. CASE /\ kernel[job[w].port] = Nobody /\ Does(w, "enter")
             /\ kernel' = [kernel EXCEPT ![job[w].port] = job[w].plug]
    <3>1. Turns(w, "enter", job[w].plug, job[w].port)
      BY <1>4, <2>1, JobDoes DEF AttachToVhci, Entered, PortsTypeOK
    <3>2. PortsTypeOK'
      BY <1>4, <2>1, <3>1 DEF AttachToVhci, Turns, PortsTypeOK, AttachersAlone, GiversKnow,
             WriterDetaches, PlacersAlone, EntriesAlone, KernelAgrees, Attaching, Entered
    <3>3. AttachersAlone'
      BY <1>4, <2>1, <3>1, SMTT(30) DEF AttachToVhci, Does, IsDone, NoJob, JobAt, PortJob,
             AttachersAlone, Gives, Attaching, Entered
    <3>4. GiversKnow'
      BY <1>4, <2>1, <3>1, SMTT(30) DEF AttachToVhci, Does, IsDone, NoJob, JobAt, PortJob,
             GiversKnow, Gives, Detaching, Forcing, Entered
    <3>5. WriterDetaches'
      BY <1>4, <2>1, <3>1 DEF AttachToVhci, Turns, WriterDetaches, Gives, Emptied,
             Detaching, Forcing
    <3>6. PlacersAlone'
      BY <1>4, <2>1, <3>1, SMTT(30) DEF AttachToVhci, Does, IsDone, NoJob, JobAt, PortJob,
             PlacersAlone, IsFreed, Placing, Leaves, Entered
    <3>7. EntriesAlone'
      BY <1>4, <2>1, <3>1 DEF AttachToVhci, Turns, EntriesAlone, IsFreed, Leaves, Entered
    <3>8. KernelAgrees'
      BY <1>4, <2>1, <3>1, SMTT(30) DEF AttachToVhci, Does, IsDone, NoJob, JobAt, PortJob,
             PortsTypeOK, KernelAgrees, Freeing, Entered
    <3> QED
      BY <3>2, <3>3, <3>4, <3>5, <3>6, <3>7, <3>8
  <2>2. CASE IsDone(w) /\ UNCHANGED kernel
    <3>1. Turns(w, "idle", NoPlug, NoPort)
      BY <1>4, <2>2, JobDone DEF AttachToVhci, Entered, PortsTypeOK
    <3>2. PortsTypeOK'
      BY <1>4, <2>2, <3>1 DEF AttachToVhci, Turns, PortsTypeOK, Entered
    <3>3. AttachersAlone'
      BY <1>4, <2>2, <3>1 DEF AttachToVhci, Turns, AttachersAlone, Gives, Attaching, Entered
    <3>4. GiversKnow'
      BY <1>4, <2>2, <3>1 DEF AttachToVhci, Turns, GiversKnow, Gives, Entered
    <3>5. WriterDetaches'
      BY <1>4, <2>2, <3>1 DEF AttachToVhci, Turns, WriterDetaches, Gives, Emptied,
             Detaching, Forcing
    <3>6. PlacersAlone'
      BY <1>4, <2>2, <3>1 DEF AttachToVhci, Turns, PlacersAlone, IsFreed, Placing, Leaves,
             Entered
    <3>7. EntriesAlone'
      BY <1>4, <2>2, <3>1 DEF AttachToVhci, Turns, EntriesAlone, IsFreed, Leaves, Entered
    <3>8. KernelAgrees'
      BY <1>4, <2>2, <3>1 DEF AttachToVhci, Turns, KernelAgrees, Entered
    <3> QED
      BY <3>2, <3>3, <3>4, <3>5, <3>6, <3>7, <3>8
  <2> QED
    BY <1>4, <2>1, <2>2 DEF AttachToVhci
<1>5. ASSUME NEW w \in Worker, EnterDevice(w) PROVE PortsInv'
  <2>1. Turns(w, "bridge", job[w].plug, job[w].port)
    BY <1>5, JobDoes DEF EnterDevice, Entered, PortsTypeOK
  <2>2. PortsTypeOK'
    BY <1>5, <2>1 DEF EnterDevice, Turns, PortsTypeOK, AttachersAlone, GiversKnow,
           WriterDetaches, PlacersAlone, EntriesAlone, KernelAgrees, Attaching, Placing,
           Entered
  <2>3. AttachersAlone'
    BY <1>5, <2>1 DEF EnterDevice, Turns, AttachersAlone, Gives, Attaching, Entered
  <2>4. GiversKnow'
    BY <1>5, <2>1, SMTT(30) DEF EnterDevice, Does, IsDone, NoJob, JobAt, PortJob,
           PortsTypeOK, AttachersAlone, GiversKnow, WriterDetaches, PlacersAlone,
           EntriesAlone, KernelAgrees, Gives, Attaching, Entered
  <2>5. WriterDetaches'
    BY <1>5, <2>1 DEF EnterDevice, Turns, WriterDetaches, Gives, Emptied, Detaching, Forcing
  <2>6. PlacersAlone'
    BY <1>5, <2>1 DEF EnterDevice, Turns, AttachersAlone, GiversKnow, WriterDetaches,
           PlacersAlone, EntriesAlone, KernelAgrees, IsFreed, Placing, Leaves, Entered
  <2>7. EntriesAlone'
    BY <1>5, <2>1 DEF EnterDevice, Turns, AttachersAlone, GiversKnow, WriterDetaches,
           PlacersAlone, EntriesAlone, KernelAgrees, IsFreed, Placing, Leaves, Entered
  <2>8. KernelAgrees'
    BY <1>5, <2>1, SMTT(30) DEF EnterDevice, Does, IsDone, NoJob, JobAt, PortJob,
           AttachersAlone, GiversKnow, WriterDetaches, PlacersAlone, EntriesAlone,
           KernelAgrees, Gives, Attaching, Freeing, Detaching, Forcing, Entered
  <2> QED
    BY <2>2, <2>3, <2>4, <2>5, <2>6, <2>7, <2>8
<1>6. ASSUME NEW w \in Worker, EnterBridge(w) PROVE PortsInv'
  <2>1. Turns(w, "idle", NoPlug, NoPort)
    BY <1>6, JobDone DEF EnterBridge, Entered, PortsTypeOK
  <2>2. PortsTypeOK'
    BY <1>6, <2>1 DEF EnterBridge, Turns, PortsTypeOK, AttachersAlone, GiversKnow,
           WriterDetaches, PlacersAlone, EntriesAlone, KernelAgrees, Entered
  <2>3. AttachersAlone'
    BY <1>6, <2>1 DEF EnterBridge, Turns, AttachersAlone, Gives, Attaching, Entered
  <2>4. GiversKnow'
    BY <1>6, <2>1 DEF EnterBridge, Turns, GiversKnow, Gives, Entered
  <2>5. WriterDetaches'
    BY <1>6, <2>1 DEF EnterBridge, Turns, WriterDetaches, Gives, Emptied, Detaching, Forcing
  <2>6. PlacersAlone'
    BY <1>6, <2>1 DEF EnterBridge, Turns, PlacersAlone, IsFreed, Placing, Leaves, Entered
  <2>7. EntriesAlone'
    BY <1>6, <2>1 DEF EnterBridge, Turns, EntriesAlone, IsFreed, Leaves, Entered
  <2>8. KernelAgrees'
    BY <1>6, <2>1 DEF EnterBridge, Turns, KernelAgrees, Entered
  <2> QED
    BY <2>2, <2>3, <2>4, <2>5, <2>6, <2>7, <2>8
<1>7. ASSUME NEW w \in Worker, NEW d \in Plug, DetachBegins(w, d) PROVE PortsInv'
  <2>1. Turns(w, "unvhci", d, devices[d])
    BY <1>7, JobStarts DEF DetachBegins, Entered, PortsTypeOK
  <2>2. PortsTypeOK'
    BY <1>7, <2>1 DEF DetachBegins, Turns, PortsTypeOK, Entered
  <2>3. AttachersAlone'
    BY <1>7, <2>1 DEF DetachBegins, Turns, AttachersAlone, Gives, Attaching, Entered
  <2>4. GiversKnow'
    BY <1>7, <2>1 DEF DetachBegins, Turns, PortsTypeOK, AttachersAlone, GiversKnow,
           WriterDetaches, PlacersAlone, EntriesAlone, KernelAgrees, IsFreed, Gives,
           Emptied, Detaching, Forcing, Leaves, Unlocked, Entered, Removed, NoPort, Ports
  <2>5. WriterDetaches'
    BY <1>7, <2>1 DEF DetachBegins, Turns, PortsTypeOK, WriterDetaches, Unlocked, Removed,
           NoPort, Ports
  <2>6. PlacersAlone'
    BY <1>7, <2>1 DEF DetachBegins, Turns, PlacersAlone, IsFreed, Placing, Leaves, Entered
  <2>7. EntriesAlone'
    BY <1>7, <2>1 DEF DetachBegins, Turns, EntriesAlone, IsFreed, Leaves, Entered
  <2>8. KernelAgrees'
    BY <1>7, <2>1 DEF DetachBegins, Turns, KernelAgrees, Freeing, Entered
  <2> QED
    BY <2>2, <2>3, <2>4, <2>5, <2>6, <2>7, <2>8
<1>8. ASSUME NEW w \in Worker, DetachFromVhci(w) PROVE PortsInv'
  <2>0. job[w].pc = "unvhci" /\ UNCHANGED <<bitmap, devices, bridges, remote, spent,
                                            contested>>
    BY <1>8 DEF DetachFromVhci
  <2>1. CASE kernel[job[w].port] = Nobody
    <3>1. Turns(w, "idle", NoPlug, NoPort) /\ writer' = Nobody /\ UNCHANGED kernel
      BY <1>8, <2>1, JobDone DEF DetachFromVhci
    <3>2. PortsTypeOK'
      BY <2>0, <3>1 DEF Turns, PortsTypeOK, Entered
    <3>3. AttachersAlone'
      BY <2>0, <3>1 DEF Turns, AttachersAlone, Gives, Attaching, Entered
    <3>4. GiversKnow'
      BY <2>0, <3>1 DEF Turns, GiversKnow, Gives, Entered
    <3>5. WriterDetaches'
      BY <2>0, <3>1 DEF Turns, WriterDetaches, Gives, Emptied, Detaching, Forcing
    <3>6. PlacersAlone'
      BY <2>0, <3>1 DEF Turns, PlacersAlone, IsFreed, Placing, Leaves, Entered
    <3>7. EntriesAlone'
      BY <2>0, <3>1 DEF Turns, EntriesAlone, IsFreed, Leaves, Entered
    <3>8. KernelAgrees'
      BY <2>0, <3>1 DEF Turns, KernelAgrees, Entered
    <3> QED
      BY <3>2, <3>3, <3>4, <3>5, <3>6, <3>7, <3>8
  <2>2. CASE kernel[job[w].port] # Nobody
    <3>1. /\ Turns(w, "free", job[w].plug, job[w].port) /\ UNCHANGED writer
          /\ kernel' = [kernel EXCEPT ![job[w].port] = Nobody]
      BY <1>8, <2>2, JobDoes DEF DetachFromVhci
    <3>11. \A v \in Worker :
             /\ job'[v].plug = job[v].plug /\ job'[v].port = job[v].port
             /\ job'[v].pc = IF v = w THEN "free" ELSE job[v].pc
      BY <3>1 DEF Turns
    <3>12. \A v \in Worker : Gives(v)' <=> Gives(v)
      BY <2>0, <3>11 DEF Gives, Detaching, Forcing
    <3>13. Gives(w)
      BY <2>0 DEF WriterDetaches, Emptied, Gives, Detaching
    <3>14. \A p \in Ports : kernel'[p] = IF p = job[w].port THEN Nobody ELSE kernel[p]
      BY <3>1 DEF PortsTypeOK
    <3>2. PortsTypeOK'
      BY <2>0, <3>1 DEF Turns, PortsTypeOK, Entered
    <3>3. AttachersAlone'
      BY <2>0, <3>11, <3>12 DEF AttachersAlone, Attaching, Entered
    <3>4. GiversKnow'
      BY <2>0, <3>1 DEF Turns, GiversKnow, Gives, Detaching, Forcing, Entered
    <3>5. WriterDetaches'
      BY <2>0, <3>1 DEF Turns, WriterDetaches, Emptied
    <3>6. PlacersAlone'
      BY <2>0, <3>1, SMTT(30) DEF Turns, PortJob, AttachersAlone, GiversKnow,
             WriterDetaches, PlacersAlone, EntriesAlone, KernelAgrees, IsFreed, Placing,
             Leaves, Entered
    <3>7. EntriesAlone'
      BY <2>0, <3>1 DEF Turns, EntriesAlone, IsFreed, Leaves, Entered
    <3>8. KernelAgrees'
      BY <2>0, <3>11, <3>13, <3>14 DEF KernelAgrees, GiversKnow, Entered
    <3> QED
      BY <3>2, <3>3, <3>4, <3>5, <3>6, <3>7, <3>8
  <2> QED
    BY <2>1, <2>2
<1>9. ASSUME NEW w \in Worker, FreePort(w) PROVE PortsInv'
  <2>1. Turns(w, "unremote", job[w].plug, job[w].port)
    BY <1>9, JobDoes DEF FreePort, Entered, PortsTypeOK
  <2>2. PortsTypeOK'
    BY <1>9, <2>1 DEF FreePort, Turns, PortsTypeOK, Unlocked, Entered, Removed, NoPort,
           Ports
  <2>3. AttachersAlone'
    BY <1>9, <2>1 DEF FreePort, Turns, AttachersAlone, Gives, Attaching, Detaching,
           Forcing, Unlocked, Entered, Removed, NoPort, Ports
  <2>4. GiversKnow'
    BY <1>9, <2>1 DEF FreePort, Turns, AttachersAlone, GiversKnow, WriterDetaches,
           PlacersAlone, EntriesAlone, KernelAgrees, Gives, Emptied, Detaching, Forcing,
           Unlocked, Entered, Removed, NoPort, Ports
  <2>5. WriterDetaches'
    BY <1>9, <2>1 DEF FreePort, Turns, WriterDetaches, Emptied
  <2>6. PlacersAlone'
    BY <1>9, <2>1, SMTT(30) DEF FreePort, Does, IsDone, NoJob, JobAt, PortJob,
           AttachersAlone, GiversKnow, WriterDetaches, PlacersAlone, EntriesAlone,
           KernelAgrees, IsFreed, Gives, Placing, Detaching, Forcing, Leaves, Unlocked,
           Entered, Removed, NoPort, Ports
  <2>7. EntriesAlone'
    BY <1>9, <2>1, SMTT(30) DEF FreePort, Does, IsDone, NoJob, JobAt, PortJob, PortsTypeOK,
           AttachersAlone, GiversKnow, WriterDetaches, PlacersAlone, EntriesAlone,
           KernelAgrees, IsFreed, Gives, Detaching, Forcing, Leaves, Unlocked, Entered,
           Removed, NoPort, Ports
  <2>8. KernelAgrees'
    BY <1>9, <2>1 DEF FreePort, Turns, AttachersAlone, GiversKnow, WriterDetaches,
           PlacersAlone, EntriesAlone, KernelAgrees, Gives, Placing, Freeing, Emptied,
           Unlocked, Entered, Removed, NoPort, Ports
  <2> QED
    BY <2>2, <2>3, <2>4, <2>5, <2>6, <2>7, <2>8
<1>10. ASSUME NEW w \in Worker, DetachRemote(w) PROVE PortsInv'
  <2>1. Turns(w, "idle", NoPlug, NoPort)
    BY <1>10, JobDone DEF DetachRemote, Entered, PortsTypeOK
  <2>2. PortsTypeOK'
    BY <1>10, <2>1 DEF DetachRemote, Turns, PortsTypeOK, Entered
  <2>3. AttachersAlone'
    BY <1>10, <2>1 DEF DetachRemote, Turns, AttachersAlone, Gives, Attaching, Entered
  <2>4. GiversKnow'
    BY <1>10, <2>1 DEF DetachRemote, Turns, GiversKnow, Gives, Entered
  <2>5. WriterDetaches'
    BY <1>10, <2>1 DEF DetachRemote, Turns, WriterDetaches, Gives, Emptied, Detaching,
           Forcing
  <2>6. PlacersAlone'
    BY <1>10, <2>1 DEF DetachRemote, Turns, PlacersAlone, IsFreed, Placing, Leaves, Entered
  <2>7. EntriesAlone'
    BY <1>10, <2>1 DEF DetachRemote, Turns, EntriesAlone, IsFreed, Leaves, Entered
  <2>8. KernelAgrees'
    BY <1>10, <2>1 DEF DetachRemote, Turns, KernelAgrees, Entered
  <2> QED
    BY <2>2, <2>3, <2>4, <2>5, <2>6, <2>7, <2>8
<1>11. ASSUME NEW w \in Worker, NEW d \in Plug, ForceBegins(w, d) PROVE PortsInv'
  <2>0. /\ w \in Remover /\ job[w].pc = "idle" /\ d \in spent /\ writer = Nobody
        /\ UNCHANGED <<kernel, bitmap, devices, bridges, remote, spent>>
    BY <1>11 DEF ForceBegins, Unlocked
  <2>1. CASE d \in Entered
    <3>1. Turns(w, "forceunvhci", d, devices[d])
      BY <1>11, <2>1, JobStarts DEF ForceBegins, PortsTypeOK, Entered
    <3>2. /\ contested' = IF Leaves(d, Forcing) THEN contested \cup {devices[d]} ELSE contested
          /\ UNCHANGED writer
          /\ devices[d] # NoPort
      BY <1>11, <2>1 DEF ForceBegins, PortsTypeOK, Entered, NoPort, Ports
    <3>3. PortsTypeOK'
      BY <2>0, <2>1, <3>1, <3>2 DEF Turns, PortsTypeOK, Entered
    <3>4. AttachersAlone'
      BY <2>0, <2>1, <3>1, <3>2 DEF Turns, AttachersAlone, Gives, Attaching, Entered
    <3>5. GiversKnow'
      BY <2>0, <2>1, <3>1, <3>2 DEF Turns, PortsTypeOK, AttachersAlone, GiversKnow,
             WriterDetaches, PlacersAlone, EntriesAlone, KernelAgrees, IsFreed, Gives,
             Emptied, Detaching, Forcing, Leaves, Entered
    <3>6. WriterDetaches'
      BY <2>0, <2>1, <3>1, <3>2 DEF Turns, WriterDetaches, Emptied
    <3>7. PlacersAlone'
      BY <2>0, <2>1, <3>1, <3>2 DEF Turns, PlacersAlone, IsFreed, Placing, Leaves, Entered
    <3>8. EntriesAlone'
      BY <2>0, <2>1, <3>1, <3>2 DEF Turns, EntriesAlone, IsFreed, Leaves, Entered
    <3>9. KernelAgrees'
      BY <2>0, <2>1, <3>1, <3>2 DEF Turns, KernelAgrees, Freeing, Entered
    <3> QED
      BY <3>3, <3>4, <3>5, <3>6, <3>7, <3>8, <3>9
  <2>2. CASE d \notin Entered
    <3>1. Turns(w, "forceremove", d, NoPort)
      BY <1>11, <2>2, JobStarts DEF ForceBegins
    <3>2. writer' = w /\ UNCHANGED contested
      BY <1>11, <2>2 DEF ForceBegins
    <3>3. PortsTypeOK'
      BY <2>0, <2>2, <3>1, <3>2 DEF Turns, PortsTypeOK, Entered
    <3>4. AttachersAlone'
      BY <2>0, <2>2, <3>1, <3>2 DEF Turns, AttachersAlone, Gives, Attaching, Entered
    <3>5. GiversKnow'
      BY <2>0, <2>2, <3>1, <3>2 DEF Turns, GiversKnow, Gives, Entered
    <3>6. WriterDetaches'
      BY <2>0, <2>2, <3>1, <3>2 DEF Turns, WriterDetaches, Emptied
    <3>7. PlacersAlone'
      BY <2>0, <2>2, <3>1, <3>2 DEF Turns, PlacersAlone, IsFreed, Placing, Leaves, Entered
    <3>8. EntriesAlone'
      BY <2>0, <2>2, <3>1, <3>2 DEF Turns, EntriesAlone, IsFreed, Leaves, Entered
    <3>9. KernelAgrees'
      BY <2>0, <2>2, <3>1, <3>2 DEF Turns, KernelAgrees, Entered
    <3> QED
      BY <3>3, <3>4, <3>5, <3>6, <3>7, <3>8, <3>9
  <2> QED
    BY <2>1, <2>2
<1>12. ASSUME NEW w \in Worker, ForceDetachFromVhci(w) PROVE PortsInv'
  <2>1. Turns(w, "forcefree", job[w].plug, job[w].port)
    BY <1>12, JobDoes DEF ForceDetachFromVhci, Entered, PortsTypeOK
  <2>2. PortsTypeOK'
    BY <1>12, <2>1 DEF ForceDetachFromVhci, Turns, PortsTypeOK, Entered
  <2>3. AttachersAlone'
    BY <1>12, <2>1 DEF ForceDetachFromVhci, Turns, AttachersAlone, Gives, Attaching,
           Detaching, Forcing, Entered
  <2>4. GiversKnow'
    BY <1>12, <2>1 DEF ForceDetachFromVhci, Turns, GiversKnow, Gives, Detaching, Forcing,
           Entered
  <2>5. WriterDetaches'
    BY <1>12, <2>1 DEF ForceDetachFromVhci, Turns, WriterDetaches, Gives, Emptied,
           Detaching, Forcing
  <2>6. PlacersAlone'
    BY <1>12, <2>1 DEF ForceDetachFromVhci, Turns, PlacersAlone, IsFreed, Placing, Leaves,
           Entered
  <2>7. EntriesAlone'
    BY <1>12, <2>1, SMTT(30) DEF ForceDetachFromVhci, Does, IsDone, NoJob, JobAt, PortJob,
           EntriesAlone, IsFreed, Leaves, Entered
  <2>8. KernelAgrees'
    BY <1>12, <2>1 DEF ForceDetachFromVhci, Turns, PortsTypeOK, AttachersAlone, GiversKnow,
           WriterDetaches, PlacersAlone, EntriesAlone, KernelAgrees, Gives, Detaching,
           Forcing, Entered
  <2> QED
    BY <2>2, <2>3, <2>4, <2>5, <2>6, <2>7, <2>8
<1>13. ASSUME NEW w \in Worker, ForceFreePort(w) PROVE PortsInv'
  <2>1. Turns(w, "forceremove", job[w].plug, job[w].port)
    BY <1>13, JobDoes DEF ForceFreePort, Entered, PortsTypeOK
  <2>2. PortsTypeOK'
    BY <1>13, <2>1 DEF ForceFreePort, Turns, PortsTypeOK, Entered
  <2>3. AttachersAlone'
    BY <1>13, <2>1 DEF ForceFreePort, Turns, AttachersAlone, Gives, Attaching, Detaching,
           Forcing, Entered
  <2>4. GiversKnow'
    BY <1>13, <2>1 DEF ForceFreePort, Turns, GiversKnow, Gives, Detaching, Forcing, Entered
  <2>5. WriterDetaches'
    BY <1>13, <2>1 DEF ForceFreePort, Turns, WriterDetaches, Gives, Emptied, Detaching,
           Forcing
  <2>6. PlacersAlone'
    BY <1>13, <2>1 DEF ForceFreePort, Turns, AttachersAlone, GiversKnow, WriterDetaches,
           PlacersAlone, EntriesAlone, KernelAgrees, IsFreed, Gives, Placing, Detaching,
           Forcing, Leaves, Entered
  <2>7. EntriesAlone'
    BY <1>13, <2>1 DEF ForceFreePort, Turns, AttachersAlone, GiversKnow, WriterDetaches,
           PlacersAlone, EntriesAlone, KernelAgrees, IsFreed, Gives, Detaching, Forcing,
           Leaves, Entered
  <2>8. KernelAgrees'
    BY <1>13, <2>1 DEF ForceFreePort, Turns, KernelAgrees, Freeing, Entered
  <2> QED
    BY <2>2, <2>3, <2>4, <2>5, <2>6, <2>7, <2>8
<1>14. ASSUME NEW w \in Worker, ForceRemove(w) PROVE PortsInv'
  <2>1. Turns(w, "idle", NoPlug, NoPort)
    BY <1>14, JobDone DEF ForceRemove, Entered, PortsTypeOK
  <2>2. PortsTypeOK'
    BY <1>14, <2>1 DEF ForceRemove, Turns, PortsTypeOK, Unlocked, Entered, Removed, NoPort,
           Ports
  <2>3. AttachersAlone'
    BY <1>14, <2>1 DEF ForceRemove, Turns, AttachersAlone, Gives, Attaching, Unlocked,
           Entered, Removed, NoPort, Ports
  <2>4. GiversKnow'
    BY <1>14, <2>1 DEF ForceRemove, Turns, AttachersAlone, GiversKnow, WriterDetaches,
           PlacersAlone, EntriesAlone, KernelAgrees, Gives, Placing, Emptied, Detaching,
           Forcing, Unlocked, Entered, Removed, NoPort, Ports
  <2>5. WriterDetaches'
    BY <1>14, <2>1 DEF ForceRemove, Turns, WriterDetaches, Gives, Emptied, Detaching,
           Forcing
  <2>6. PlacersAlone'
    BY <1>14, <2>1, SMTT(30) DEF ForceRemove, Does, IsDone, NoJob, JobAt, PortJob,
           PlacersAlone, IsFreed, Placing, Leaves, Unlocked, Entered, Removed, NoPort, Ports
  <2>7. EntriesAlone'
    BY <1>14, <2>1 DEF ForceRemove, Turns, AttachersAlone, GiversKnow, WriterDetaches,
           PlacersAlone, EntriesAlone, KernelAgrees, IsFreed, Gives, Placing, Emptied,
           Detaching, Forcing, Leaves, Unlocked, Entered, Removed, NoPort, Ports
  <2>8. KernelAgrees'
    BY <1>14, <2>1, SMTT(30) DEF ForceRemove, Does, IsDone, NoJob, JobAt, PortJob,
           AttachersAlone, GiversKnow, WriterDetaches, PlacersAlone, EntriesAlone,
           KernelAgrees, Gives, Freeing, Detaching, Forcing, Unlocked, Entered, Removed,
           NoPort, Ports
  <2> QED
    BY <2>2, <2>3, <2>4, <2>5, <2>6, <2>7, <2>8
<1>15. ASSUME NEW p \in Ports, KernelDrops(p) PROVE PortsInv'
  <2>1. PortsTypeOK'
    BY <1>15 DEF KernelDrops, Turns, PortsTypeOK, Entered
  <2>2. AttachersAlone'
    BY <1>15 DEF KernelDrops, Turns, AttachersAlone, Gives, Entered
  <2>3. GiversKnow'
    BY <1>15 DEF KernelDrops, Turns, GiversKnow, Gives, Entered
  <2>4. WriterDetaches'
    BY <1>15 DEF KernelDrops, Turns, WriterDetaches
  <2>5. PlacersAlone'
    BY <1>15 DEF KernelDrops, Turns, PlacersAlone, IsFreed, Leaves, Entered
  <2>6. EntriesAlone'
    BY <1>15 DEF KernelDrops, Turns, EntriesAlone, IsFreed, Leaves, Entered
  <2>7. KernelAgrees'
    BY <1>15 DEF KernelDrops, Turns, KernelAgrees, Entered
  <2> QED
    BY <2>1, <2>2, <2>3, <2>4, <2>5, <2>6, <2>7
<1>16. ASSUME NEW p \in Ports, OthersAttach(p) PROVE PortsInv'
  <2>1. PortsTypeOK'
    BY <1>16 DEF OthersAttach, Turns, PortsTypeOK, Entered
  <2>2. AttachersAlone'
    BY <1>16 DEF OthersAttach, Turns, AttachersAlone, Gives, Entered
  <2>3. GiversKnow'
    BY <1>16 DEF OthersAttach, Turns, GiversKnow, Gives, Entered
  <2>4. WriterDetaches'
    BY <1>16 DEF OthersAttach, Turns, WriterDetaches
  <2>5. PlacersAlone'
    BY <1>16 DEF OthersAttach, Turns, PlacersAlone, IsFreed, Leaves, Entered
  <2>6. EntriesAlone'
    BY <1>16 DEF OthersAttach, Turns, EntriesAlone, IsFreed, Leaves, Entered
  <2>7. KernelAgrees'
    BY <1>16 DEF OthersAttach, Turns, KernelAgrees, Entered
  <2> QED
    BY <2>1, <2>2, <2>3, <2>4, <2>5, <2>6, <2>7
<1>17. ASSUME NEW p \in Ports, OthersDetach(p) PROVE PortsInv'
  <2>1. PortsTypeOK'
    BY <1>17 DEF OthersDetach, Turns, PortsTypeOK, Entered
  <2>2. AttachersAlone'
    BY <1>17 DEF OthersDetach, Turns, AttachersAlone, Gives, Entered
  <2>3. GiversKnow'
    BY <1>17 DEF OthersDetach, Turns, GiversKnow, Gives, Entered
  <2>4. WriterDetaches'
    BY <1>17 DEF OthersDetach, Turns, WriterDetaches
  <2>5. PlacersAlone'
    BY <1>17 DEF OthersDetach, Turns, PlacersAlone, IsFreed, Leaves, Entered
  <2>6. EntriesAlone'
    BY <1>17 DEF OthersDetach, Turns, EntriesAlone, IsFreed, Leaves, Entered
  <2>7. KernelAgrees'
    BY <1>17 DEF OthersDetach, Turns, KernelAgrees, Entered
  <2> QED
    BY <2>1, <2>2, <2>3, <2>4, <2>5, <2>6, <2>7
<1>18. CASE UNCHANGED portVars
  <2>1. PortsTypeOK'
    BY <1>18 DEF portVars, Turns, PortsTypeOK, Entered
  <2>2. AttachersAlone'
    BY <1>18 DEF portVars, Turns, AttachersAlone, Gives, Entered
  <2>3. GiversKnow'
    BY <1>18 DEF portVars, Turns, GiversKnow, Gives, Entered
  <2>4. WriterDetaches'
    BY <1>18 DEF portVars, Turns, WriterDetaches
  <2>5. PlacersAlone'
    BY <1>18 DEF portVars, Turns, PlacersAlone, IsFreed, Leaves, Entered
  <2>6. EntriesAlone'
    BY <1>18 DEF portVars, Turns, EntriesAlone, IsFreed, Leaves, Entered
  <2>7. KernelAgrees'
    BY <1>18 DEF portVars, Turns, KernelAgrees, Entered
  <2> QED
    BY <2>1, <2>2, <2>3, <2>4, <2>5, <2>6, <2>7
<1> QED
  BY <1>1, <1>2, <1>3, <1>4, <1>5, <1>6, <1>7, <1>8, <1>9, <1>10, <1>11, <1>12, <1>13,
     <1>14, <1>15, <1>16, <1>17, <1>18 DEF PortsNext, WorkerStep

(* What holds in every state of the ports *)

\* Every task and every entry has its port to itself, as PortsInv says, at all times:
\* whatever tasks of attach_device, detach_device and force_detach run side by side,
\* and whatever other processes do with the ports.
THEOREM PortsStayOwned == PortsSpec => []PortsInv
<1>1. PortsInit => PortsInv
  <2> SUFFICES ASSUME PortsInit PROVE PortsInv
    OBVIOUS
  <2>1. /\ Entered = {} /\ \A w \in Worker : job[w] = NoJob
        /\ \A p \in Ports : kernel[p] \in {Nobody, Others}
    BY DEF PortsInit, Entered
  <2>2. NoJob.pc = "idle" /\ NoJob \in PortJob
    BY DEF NoJob, JobAt, PortJob
  <2>3. PortsTypeOK
    BY <2>1, <2>2 DEF PortsInit, PortsTypeOK
  <2>4. Ownership
    BY <2>1, <2>2, PortsAssumption
       DEF Ownership, AttachersAlone, GiversKnow, WriterDetaches, PlacersAlone, EntriesAlone,
           KernelAgrees, Attaching, Placing, Freeing, Emptied, Gives, Detaching, Forcing
  <2> QED
    BY <2>3, <2>4 DEF PortsInv
<1>2. PortsInv /\ [PortsNext]_portVars => PortsInv'
  BY PortsStep
<1> QED
  BY <1>1, <1>2, PTL DEF PortsSpec

\* Every variable of the ports has values of its type.
THEOREM PortsStayTyped == PortsSpec => []PortsTypeOK
<1>1. PortsInv => PortsTypeOK
  BY DEF PortsInv
<1> QED
  BY <1>1, PortsStayOwned, PTL

\* What the owners of ports know of each other leaves no attached device with a port
\* that is another one's.
LEMMA OwnersDoNotShare ==
  ASSUME PortsInv
  PROVE  PortsNotShared
<1> USE DEF PortsInv, Ownership
<1> SUFFICES ASSUME NEW d \in Entered, devices[d] \notin contested, ~Leaves(d, Detaching)
             PROVE  /\ \A e \in Entered \ {d} : devices[e] = devices[d] => Leaves(e, Detaching)
                    /\ kernel[devices[d]] \notin Plug \ {d}
  BY DEF PortsNotShared
<1>1. \A e : IsFreed(e) => Leaves(e, Detaching)
  BY DEF IsFreed, Leaves, Detaching, Forcing
<1>2. ~IsFreed(d) /\ devices[d] \in Ports
  BY <1>1 DEF PortsTypeOK
<1>3. \A e \in Entered \ {d} : devices[e] = devices[d] => IsFreed(e)
  BY <1>2 DEF EntriesAlone
<1>4. ASSUME kernel[devices[d]] \in Plug \ {d} PROVE FALSE
  <2> DEFINE x == kernel[devices[d]]
  <2>1. CASE \E w \in Worker : job[w].pc = "enter" /\ job[w].port = devices[d]
    BY <1>2, <2>1 DEF PlacersAlone, Placing
  <2>2. CASE /\ x \in Entered /\ devices[x] = devices[d]
             /\ \A w \in Worker : job[w].pc \in Freeing /\ job[w].port # NoPort
                                    => job[w].plug # x
    BY <1>3, <1>4, <2>2 DEF IsFreed, Freeing
  <2> QED
    BY <1>2, <1>4, <2>1, <2>2 DEF KernelAgrees
<1> QED
  BY <1>1, <1>3, <1>4

\* No attached device shares its port with another one (allocate_port, free_port and
\* force_detach).
THEOREM PortsStayUnshared == PortsSpec => []PortsNotShared
  BY OwnersDoNotShare, PortsStayOwned, PTL

-----------------------------------------------------------------------------
(* The bridge *)

InLine == {"queued", "asks", "answered", "failed", "checks", "cleared", "writes"}
Locked == InLine \ {"queued"}
Early == {"none", "spawned", "queued"}

\* Each URB is submitted once.
SubmittedOnce ==
  /\ \A i \in DOMAIN socket : socket[i].cmd = "submit" =>
       /\ task[socket[i].urb] = "none" /\ urb[socket[i].urb] # "new"
  /\ \A i, j \in DOMAIN socket :
       socket[i].cmd = "submit" /\ socket[j].cmd = "submit" /\ socket[i].urb = socket[j].urb => i = j
  /\ \A u \in Urb : urb[u] = "new" => task[u] = "none"

TriesCounted ==
  \A u \in Urb :
    /\ task[u] \in Early => tries[u] = 0
    /\ task[u] = "asks" => tries[u] < MaxTries

\* The first in the endpoint's queue is the only one past it.
LockServes ==
  \A u \in Serialized :
    /\ task[u] = "queued" => \E i \in DOMAIN lockQueue : lockQueue[i] = u
    /\ task[u] \in Locked => lockQueue # <<>> /\ Head(lockQueue) = u

\* The report in a task's hands is newer than what the kernel has got.
ReportsFresh ==
  /\ \A i \in DOMAIN delivered : delivered[i] <= produced
  /\ \A u \in Urb :
       /\ report[u] <= produced
       /\ task[u] \in Early \cup {"asks"} => report[u] = 0
       /\ u \notin Serialized => report[u] = 0
       /\ task[u] \in Locked /\ report[u] # 0 =>
            \A i \in DOMAIN delivered : delivered[i] < report[u]

OrderInv ==
  /\ BridgeTypeOK /\ SubmittedOnce /\ TriesCounted /\ LockServes
  /\ ReportsFresh /\ ReportsInOrder

\* Each URB is taken back once: its CMD_UNLINK is on the way, or in the reader's hands.
Busy == reader.at \in {"cancel", "found", "missing"}
Unfinished(u) == urb[u] \in {"unlinking", "returned"}

UnlinkedOnce ==
  /\ \A i \in DOMAIN socket : socket[i].cmd = "unlink" =>
       Unfinished(socket[i].urb) /\ (Busy => reader.urb # socket[i].urb)
  /\ \A i, j \in DOMAIN socket :
       socket[i].cmd = "unlink" /\ socket[j].cmd = "unlink" /\ socket[i].urb = socket[j].urb => i = j
  /\ Busy => Unfinished(reader.urb)

\* The task of u will find u among the unlinked ones, unless u was forgotten, or it
\* has ended.
Settled(u) == u \in unlinked \cup forgotten \/ task[u] \in {"ended", "lost"}

Silence ==
  /\ \A u \in registered : task[u] \in {"asks", "answered", "failed", "lost"}
  /\ \A u \in unlinked : task[u] \in {"cleared", "writes"} => u \in late
  /\ \A u \in late : task[u] \in {"cleared", "writes", "ended"}
  /\ \A u \in Urb : urb[u] \in {"cancelled", "absent"} => Settled(u)
  /\ \A u \in Urb : urb[u] = "cancelled" => u \notin late
  /\ Busy => Settled(reader.urb)
  /\ reader.at = "found" => reader.urb \notin late

\* Every message from the kernel is about an URB.
LEMMA MessagesOfUrbs ==
  ASSUME BridgeTypeOK
  PROVE  \A i \in DOMAIN socket : socket[i].urb \in Urb
<1> DEFINE M == [cmd : {"submit", "unlink"}, urb : Urb]
<1>1. socket \in Seq(M)
  BY DEF BridgeTypeOK
<1>2. \A i \in DOMAIN socket : socket[i] \in M
  <2> HIDE DEF M
  <2> QED
    BY <1>1
<1> QED
  BY <1>2

\* What a step does not touch stays as it is.
LEMMA OrderStep ==
  ASSUME OrderInv, [BridgeNext]_bridgeVars
  PROVE  OrderInv'
<1> USE BridgeAssumption DEF OrderInv
<1>1. ASSUME NEW u \in Urb, KernelSubmits(u) PROVE OrderInv'
  <2>1. /\ urb[u] = "new" /\ urb' = [urb EXCEPT ![u] = "submitted"]
        /\ socket' = Append(socket, [cmd |-> "submit", urb |-> u])
        /\ UNCHANGED <<open, reader, running, task, lockQueue, registered,
                       unlinked, tries, produced, report, delivered, forgotten, late>>
    BY <1>1 DEF KernelSubmits, kernelVars, deviceVars, unlinkVars
  <2>9. UNCHANGED <<open, reader, running, task, lockQueue, registered,
                    unlinked, tries, produced, report, delivered, forgotten, late>>
    BY <2>1
  <2> DEFINE M == [cmd : {"submit", "unlink"}, urb : Urb]
             m == [cmd |-> "submit", urb |-> u]
  <2>3. socket \in Seq(M) /\ m \in M /\ m.cmd = "submit" /\ m.urb = u
    BY DEF BridgeTypeOK
  <2>2. /\ socket' \in Seq(M)
        /\ DOMAIN socket' = DOMAIN socket \cup {Len(socket) + 1}
        /\ Len(socket) + 1 \notin DOMAIN socket
        /\ socket'[Len(socket) + 1] = m
        /\ \A i \in DOMAIN socket : socket'[i] = socket[i]
    <3> HIDE DEF M, m
    <3> QED
      BY <2>1, <2>3, AppendTo DEF m
  <2>21. BridgeTypeOK'
    <3>1. socket' \in Seq([cmd : {"submit", "unlink"}, urb : Urb])
      BY <2>2
    <3>2. urb' \in [Urb -> {"new", "submitted", "unlinking", "returned", "cancelled", "absent"}]
      BY <2>1 DEF BridgeTypeOK
    <3> QED
      BY <2>9, <3>1, <3>2 DEF BridgeTypeOK
  <2>22. SubmittedOnce'
    <3>1. \A v \in Urb : urb'[v] = "new" => urb[v] = "new"
      BY <2>1 DEF BridgeTypeOK
    <3>2. urb[u] = "new" /\ urb'[u] # "new"
      BY <2>1 DEF BridgeTypeOK
    <3>3. \A i \in DOMAIN socket : socket[i].urb \in Urb
      BY MessagesOfUrbs
    <3> QED
      BY <2>2, <2>3, <2>9, <3>1, <3>2, <3>3 DEF SubmittedOnce
  <2>23. TriesCounted'
    BY <2>1 DEF TriesCounted, Early, BridgeTypeOK
  <2>24. LockServes'
    BY <2>1 DEF LockServes, InLine, Locked, BridgeTypeOK
  <2>25. ReportsFresh'
    BY <2>1 DEF ReportsFresh, InLine, Locked, Early, BridgeTypeOK
  <2>26. ReportsInOrder'
    BY <2>1 DEF ReportsInOrder
  <2> QED
    BY <2>21, <2>22, <2>23, <2>24, <2>25, <2>26
<1>2. ASSUME NEW u \in Urb, KernelUnlinks(u) PROVE OrderInv'
  <2>1. /\ urb[u] = "submitted" /\ urb' = [urb EXCEPT ![u] = "unlinking"]
        /\ socket' = Append(socket, [cmd |-> "unlink", urb |-> u])
        /\ UNCHANGED <<open, reader, running, task, lockQueue, registered,
                       unlinked, tries, produced, report, delivered, forgotten, late>>
    BY <1>2 DEF KernelUnlinks, kernelVars, deviceVars, unlinkVars
  <2>9. UNCHANGED <<open, reader, running, task, lockQueue, registered,
                    unlinked, tries, produced, report, delivered, forgotten, late>>
    BY <2>1
  <2> DEFINE M == [cmd : {"submit", "unlink"}, urb : Urb]
             m == [cmd |-> "unlink", urb |-> u]
  <2>3. socket \in Seq(M) /\ m \in M /\ m.cmd = "unlink" /\ m.urb = u
    BY DEF BridgeTypeOK
  <2>2. /\ socket' \in Seq(M)
        /\ DOMAIN socket' = DOMAIN socket \cup {Len(socket) + 1}
        /\ Len(socket) + 1 \notin DOMAIN socket
        /\ socket'[Len(socket) + 1] = m
        /\ \A i \in DOMAIN socket : socket'[i] = socket[i]
    <3> HIDE DEF M, m
    <3> QED
      BY <2>1, <2>3, AppendTo DEF m
  <2>21. BridgeTypeOK'
    <3>1. socket' \in Seq([cmd : {"submit", "unlink"}, urb : Urb])
      BY <2>2
    <3>2. urb' \in [Urb -> {"new", "submitted", "unlinking", "returned", "cancelled", "absent"}]
      BY <2>1 DEF BridgeTypeOK
    <3> QED
      BY <2>9, <3>1, <3>2 DEF BridgeTypeOK
  <2>22. SubmittedOnce'
    <3>1. \A v \in Urb : urb'[v] = "new" => urb[v] = "new"
      BY <2>1 DEF BridgeTypeOK
    <3>2. urb[u] = "submitted" /\ urb'[u] # "new"
      BY <2>1 DEF BridgeTypeOK
    <3>3. \A i \in DOMAIN socket : socket[i].urb \in Urb
      BY MessagesOfUrbs
    <3> QED
      BY <2>2, <2>3, <2>9, <3>1, <3>2, <3>3 DEF SubmittedOnce
  <2>23. TriesCounted'
    BY <2>1 DEF TriesCounted, Early, BridgeTypeOK
  <2>24. LockServes'
    BY <2>1 DEF LockServes, InLine, Locked, BridgeTypeOK
  <2>25. ReportsFresh'
    BY <2>1 DEF ReportsFresh, InLine, Locked, Early, BridgeTypeOK
  <2>26. ReportsInOrder'
    BY <2>1 DEF ReportsInOrder
  <2> QED
    BY <2>21, <2>22, <2>23, <2>24, <2>25, <2>26
<1>3. CASE KernelCloses
  <2>1. /\ open' = FALSE
        /\ UNCHANGED <<socket, urb, reader, running, task, lockQueue,
                       registered, unlinked, tries, produced, report, delivered, forgotten, late>>
    BY <1>3 DEF KernelCloses, kernelVars, deviceVars, unlinkVars
  <2>21. BridgeTypeOK'
    BY <2>1 DEF BridgeTypeOK
  <2>22. SubmittedOnce'
    BY <2>1 DEF SubmittedOnce
  <2>23. TriesCounted'
    BY <2>1 DEF TriesCounted, Early, BridgeTypeOK
  <2>24. LockServes'
    BY <2>1 DEF LockServes, InLine, Locked, BridgeTypeOK
  <2>25. ReportsFresh'
    BY <2>1 DEF ReportsFresh, InLine, Locked, Early, BridgeTypeOK
  <2>26. ReportsInOrder'
    BY <2>1 DEF ReportsInOrder
  <2> QED
    BY <2>21, <2>22, <2>23, <2>24, <2>25, <2>26
<1>4. CASE ReaderSpawns
  <2>1. /\ socket # <<>> /\ Head(socket).cmd = "submit" /\ socket' = Tail(socket)
        /\ task' = [task EXCEPT ![Head(socket).urb] = "spawned"]
        /\ UNCHANGED <<urb, open, reader, running, lockQueue, registered,
                       unlinked, tries, produced, report, delivered, forgotten, late>>
    BY <1>4 DEF ReaderSpawns, kernelVars, deviceVars, unlinkVars
  <2> DEFINE M == [cmd : {"submit", "unlink"}, urb : Urb]
  <2>2. /\ socket \in Seq(M) /\ Head(socket) \in M /\ socket' \in Seq(M)
        /\ 1 \in DOMAIN socket /\ Head(socket) = socket[1]
        /\ \A i \in DOMAIN socket' : i + 1 \in DOMAIN socket /\ socket'[i] = socket[i + 1]
    <3>1. socket \in Seq(M)
      BY DEF BridgeTypeOK
    <3> HIDE DEF M
    <3> QED
      BY <2>1, <3>1, TailOf
  <2>3. Head(socket).urb \in Urb /\ task[Head(socket).urb] = "none"
    BY <2>1, <2>2 DEF SubmittedOnce
  <2>21. BridgeTypeOK'
    BY <2>1, <2>2, <2>3 DEF BridgeTypeOK
  <2>22. SubmittedOnce'
    <3>1. \A i \in DOMAIN socket' : socket'[i].cmd = "submit" => socket'[i].urb # Head(socket).urb
      <4> SUFFICES ASSUME NEW i \in DOMAIN socket', socket'[i].cmd = "submit",
                          socket'[i].urb = Head(socket).urb
                   PROVE  FALSE
        OBVIOUS
      <4>1. socket[i + 1].cmd = "submit" /\ socket[i + 1].urb = socket[1].urb
        BY <2>2
      <4>2. 1 \in DOMAIN socket /\ socket[1].cmd = "submit" /\ i + 1 \in DOMAIN socket
        BY <2>1, <2>2
      <4>3. i + 1 = 1
        BY <4>1, <4>2 DEF SubmittedOnce
      <4>4. i \in 1..Len(socket')
        BY <2>2
      <4> QED
        BY <4>3, <4>4
    <3>2. \A i \in DOMAIN socket' : socket'[i].urb \in Urb /\ i + 1 \in DOMAIN socket
                                     /\ socket'[i] = socket[i + 1]
      BY <2>1, <2>2, MessagesOfUrbs
    <3>3. \A v \in Urb : v # Head(socket).urb => task'[v] = task[v]
      BY <2>1 DEF BridgeTypeOK
    <3>4. urb[Head(socket).urb] # "new" /\ urb' = urb
      BY <2>1, <2>2 DEF SubmittedOnce
    <3>5. \A i, j \in DOMAIN socket' : i + 1 = j + 1 => i = j
      BY <2>2
    <3>6. \A i \in DOMAIN socket' : socket'[i].cmd = "submit" =>
            task'[socket'[i].urb] = "none" /\ urb'[socket'[i].urb] # "new"
      BY <3>1, <3>2, <3>3, <3>4 DEF SubmittedOnce
    <3>7. \A i, j \in DOMAIN socket' :
            socket'[i].cmd = "submit" /\ socket'[j].cmd = "submit" /\ socket'[i].urb = socket'[j].urb => i = j
      BY <3>2, <3>5 DEF SubmittedOnce
    <3>8. \A v \in Urb : urb'[v] = "new" => task'[v] = "none"
      BY <2>3, <3>3, <3>4 DEF SubmittedOnce
    <3> QED
      BY <3>6, <3>7, <3>8 DEF SubmittedOnce
  <2>23. TriesCounted'
    BY <2>1, <2>2, <2>3 DEF TriesCounted, Early, BridgeTypeOK
  <2>24. LockServes'
    BY <2>1, <2>2, <2>3 DEF LockServes, InLine, Locked, BridgeTypeOK
  <2>25. ReportsFresh'
    BY <2>1, <2>2, <2>3 DEF ReportsFresh, InLine, Locked, Early, BridgeTypeOK
  <2>26. ReportsInOrder'
    BY <2>1 DEF ReportsInOrder
  <2> QED
    BY <2>21, <2>22, <2>23, <2>24, <2>25, <2>26
<1>5. CASE ReaderTracks
  <2>1. /\ socket # <<>> /\ socket' = Tail(socket)
        /\ TrackUnlinked(Head(socket).urb)
        /\ reader' = [at |-> "cancel", urb |-> Head(socket).urb]
        /\ UNCHANGED <<urb, open, running, task, lockQueue, registered, tries,
                       produced, report, delivered>>
    BY <1>5 DEF ReaderTracks, kernelVars, deviceVars, unlinkVars
  <2> DEFINE M == [cmd : {"submit", "unlink"}, urb : Urb]
  <2>2. /\ socket \in Seq(M) /\ Head(socket) \in M /\ socket' \in Seq(M)
        /\ 1 \in DOMAIN socket /\ Head(socket) = socket[1]
        /\ \A i \in DOMAIN socket' : i + 1 \in DOMAIN socket /\ socket'[i] = socket[i + 1]
    <3>1. socket \in Seq(M)
      BY DEF BridgeTypeOK
    <3> HIDE DEF M
    <3> QED
      BY <2>1, <3>1, TailOf
  <2>21. BridgeTypeOK'
    <3>1. Head(socket).urb \in Urb
      BY <2>2
    <3>2. /\ unlinked' \subseteq Urb /\ forgotten' \subseteq Urb /\ late' \subseteq Urb
      BY <2>1, <3>1 DEF BridgeTypeOK, TrackUnlinked, Cleared
    <3> QED
      BY <2>1, <2>2, <3>1, <3>2 DEF BridgeTypeOK
  <2>22. SubmittedOnce'
    BY <2>1, <2>2 DEF SubmittedOnce
  <2>23. TriesCounted'
    BY <2>1 DEF TriesCounted, Early, BridgeTypeOK
  <2>24. LockServes'
    BY <2>1 DEF LockServes, InLine, Locked, BridgeTypeOK
  <2>25. ReportsFresh'
    BY <2>1 DEF ReportsFresh, InLine, Locked, Early, BridgeTypeOK
  <2>26. ReportsInOrder'
    BY <2>1 DEF ReportsInOrder
  <2> QED
    BY <2>21, <2>22, <2>23, <2>24, <2>25, <2>26
<1>6. CASE ReaderCancels
  <2>1. /\ registered' = registered \ {reader.urb}
        /\ reader' = [reader EXCEPT !.at = IF reader.urb \in registered THEN "found" ELSE "missing"]
        /\ UNCHANGED <<socket, urb, open, running, task, lockQueue, unlinked,
                       tries, produced, report, delivered, forgotten, late>>
    BY <1>6 DEF ReaderCancels, kernelVars, deviceVars, unlinkVars
  <2>2. reader' \in [at : {"cancel", "found", "missing"}, urb : Urb]
    <3>1. reader \in [at : {"cancel", "found", "missing"}, urb : Urb]
      BY <1>6 DEF BridgeTypeOK, ReaderCancels, Reading
    <3> QED
      BY <2>1, <3>1
  <2>9. UNCHANGED <<socket, urb, open, running, task, lockQueue, unlinked,
                    tries, produced, report, delivered, forgotten, late>>
    BY <2>1
  <2>21. BridgeTypeOK'
    <3>1. registered' \subseteq Urb
      BY <2>1 DEF BridgeTypeOK
    <3>2. reader' \in {Reading} \cup [at : {"cancel", "found", "missing"}, urb : Urb]
      BY <2>2
    <3> QED
      BY <2>9, <3>1, <3>2 DEF BridgeTypeOK
  <2>22. SubmittedOnce'
    BY <2>1 DEF SubmittedOnce
  <2>23. TriesCounted'
    BY <2>1 DEF TriesCounted, Early, BridgeTypeOK
  <2>24. LockServes'
    BY <2>1 DEF LockServes, InLine, Locked, BridgeTypeOK
  <2>25. ReportsFresh'
    BY <2>1 DEF ReportsFresh, InLine, Locked, Early, BridgeTypeOK
  <2>26. ReportsInOrder'
    BY <2>1 DEF ReportsInOrder
  <2> QED
    BY <2>21, <2>22, <2>23, <2>24, <2>25, <2>26
<1>7. CASE ReaderReplies
  <2>1. /\ reader.at \in {"found", "missing"} /\ reader' = Reading
        /\ urb' = urb \/ \E kind \in {"cancelled", "absent"} : urb' = [urb EXCEPT ![reader.urb] = kind]
        /\ UNCHANGED <<socket, open, running, task, lockQueue, registered, unlinked, tries,
                       produced, report, delivered, forgotten, late>>
    BY <1>7 DEF ReaderReplies, KernelTakesUnlinkReply, kernelVars, deviceVars, unlinkVars
  <2>2. reader.urb \in Urb
    BY <2>1 DEF BridgeTypeOK, Reading
  <2>21. BridgeTypeOK'
    BY <2>1, <2>2 DEF BridgeTypeOK, Reading
  <2>22. SubmittedOnce'
    <3>1. \A v \in Urb : urb'[v] = "new" => urb[v] = "new"
      BY <2>1, <2>2 DEF BridgeTypeOK
    <3>2. \A i \in DOMAIN socket : socket[i].urb \in Urb
      BY MessagesOfUrbs
    <3> QED
      BY <2>1, <3>1, <3>2 DEF SubmittedOnce
  <2>23. TriesCounted'
    BY <2>1 DEF TriesCounted, Early, BridgeTypeOK
  <2>24. LockServes'
    BY <2>1 DEF LockServes, InLine, Locked, BridgeTypeOK
  <2>25. ReportsFresh'
    BY <2>1 DEF ReportsFresh, InLine, Locked, Early, BridgeTypeOK
  <2>26. ReportsInOrder'
    BY <2>1 DEF ReportsInOrder
  <2> QED
    BY <2>21, <2>22, <2>23, <2>24, <2>25, <2>26
<1>8. CASE ReaderEnds
  <2>1. /\ running' = FALSE
        /\ UNCHANGED <<socket, urb, open, reader, task, lockQueue, registered,
                       unlinked, tries, produced, report, delivered, forgotten, late>>
    BY <1>8 DEF ReaderEnds, kernelVars, deviceVars, unlinkVars
  <2>21. BridgeTypeOK'
    BY <2>1 DEF BridgeTypeOK
  <2>22. SubmittedOnce'
    BY <2>1 DEF SubmittedOnce
  <2>23. TriesCounted'
    BY <2>1 DEF TriesCounted, Early, BridgeTypeOK
  <2>24. LockServes'
    BY <2>1 DEF LockServes, InLine, Locked, BridgeTypeOK
  <2>25. ReportsFresh'
    BY <2>1 DEF ReportsFresh, InLine, Locked, Early, BridgeTypeOK
  <2>26. ReportsInOrder'
    BY <2>1 DEF ReportsInOrder
  <2> QED
    BY <2>21, <2>22, <2>23, <2>24, <2>25, <2>26
<1>9. CASE Stop
  <2>1. /\ running' = FALSE
        /\ UNCHANGED <<socket, urb, open, reader, task, lockQueue, registered,
                       unlinked, tries, produced, report, delivered, forgotten, late>>
    BY <1>9 DEF Stop, kernelVars, deviceVars, unlinkVars
  <2>21. BridgeTypeOK'
    BY <2>1 DEF BridgeTypeOK
  <2>22. SubmittedOnce'
    BY <2>1 DEF SubmittedOnce
  <2>23. TriesCounted'
    BY <2>1 DEF TriesCounted, Early, BridgeTypeOK
  <2>24. LockServes'
    BY <2>1 DEF LockServes, InLine, Locked, BridgeTypeOK
  <2>25. ReportsFresh'
    BY <2>1 DEF ReportsFresh, InLine, Locked, Early, BridgeTypeOK
  <2>26. ReportsInOrder'
    BY <2>1 DEF ReportsInOrder
  <2> QED
    BY <2>21, <2>22, <2>23, <2>24, <2>25, <2>26
<1>10. ASSUME NEW u \in Urb, QueueForLock(u) PROVE OrderInv'
  <2>1. /\ task[u] = "spawned" /\ task' = [task EXCEPT ![u] = "queued"]
        /\ lockQueue' = IF u \in Serialized THEN Append(lockQueue, u) ELSE lockQueue
        /\ UNCHANGED <<socket, urb, open, reader, running, registered, unlinked,
                       tries, produced, report, delivered, forgotten, late>>
    BY <1>10 DEF QueueForLock, Passes, kernelVars, deviceVars, unlinkVars
  <2>2. /\ lockQueue' \in Seq(Serialized)
        /\ \A i \in DOMAIN lockQueue : i \in DOMAIN lockQueue' /\ lockQueue'[i] = lockQueue[i]
        /\ lockQueue # <<>> => lockQueue' # <<>> /\ Head(lockQueue') = Head(lockQueue)
        /\ u \in Serialized => \E i \in DOMAIN lockQueue' : lockQueue'[i] = u
    <3>1. CASE u \in Serialized
      BY <3>1, <2>1, AppendTo DEF BridgeTypeOK
    <3>2. CASE u \notin Serialized
      BY <3>2, <2>1 DEF BridgeTypeOK
    <3> QED
      BY <3>1, <3>2
  <2>9. UNCHANGED <<socket, urb, open, reader, running, registered, unlinked,
                    tries, produced, report, delivered, forgotten, late>>
    BY <2>1
  <2>21. BridgeTypeOK'
    <3>1. task' \in [Urb -> {"none", "spawned", "queued", "asks", "answered", "failed",
                              "checks", "cleared", "writes", "lost", "ended"}]
      BY <2>1 DEF BridgeTypeOK
    <3> QED
      BY <2>2, <2>9, <3>1 DEF BridgeTypeOK
  <2>22. SubmittedOnce'
    BY <2>1 DEF SubmittedOnce
  <2>23. TriesCounted'
    BY <2>1 DEF TriesCounted, Early, BridgeTypeOK
  <2>24. LockServes'
    <3>1. \A v \in Urb \ {u} : task'[v] = task[v]
      BY <2>1 DEF BridgeTypeOK
    <3>2. task'[u] = "queued"
      BY <2>1 DEF BridgeTypeOK
    <3>3. \A v \in Serialized : (\E i \in DOMAIN lockQueue : lockQueue[i] = v) =>
                                 \E i \in DOMAIN lockQueue' : lockQueue'[i] = v
      BY <2>2
    <3> QED
      BY <2>2, <3>1, <3>2, <3>3 DEF LockServes, InLine, Locked
  <2>25. ReportsFresh'
    BY <2>1 DEF ReportsFresh, InLine, Locked, Early, BridgeTypeOK
  <2>26. ReportsInOrder'
    BY <2>1 DEF ReportsInOrder
  <2> QED
    BY <2>21, <2>22, <2>23, <2>24, <2>25, <2>26
<1>11. ASSUME NEW u \in Urb, Register(u) PROVE OrderInv'
  <2>1. /\ task[u] = "queued" /\ task' = [task EXCEPT ![u] = "asks"]
        /\ u \in Serialized => Head(lockQueue) = u
        /\ registered' = registered \cup {u}
        /\ UNCHANGED <<socket, urb, open, reader, running, lockQueue, unlinked,
                       tries, produced, report, delivered, forgotten, late>>
    BY <1>11 DEF Register, HasTurn, Passes, kernelVars, deviceVars, unlinkVars
  <2>21. BridgeTypeOK'
    BY <2>1 DEF BridgeTypeOK
  <2>22. SubmittedOnce'
    BY <2>1 DEF SubmittedOnce
  <2>23. TriesCounted'
    BY <2>1 DEF TriesCounted, Early, BridgeTypeOK
  <2>24. LockServes'
    <3>1. u \in Serialized => lockQueue # <<>>
      BY <2>1 DEF LockServes
    <3> QED
      BY <2>1, <3>1 DEF LockServes, InLine, Locked, BridgeTypeOK
  <2>25. ReportsFresh'
    BY <2>1 DEF ReportsFresh, InLine, Locked, Early, BridgeTypeOK
  <2>26. ReportsInOrder'
    BY <2>1 DEF ReportsInOrder
  <2> QED
    BY <2>21, <2>22, <2>23, <2>24, <2>25, <2>26
<1>12. ASSUME NEW u \in Urb, Answered(u) PROVE OrderInv'
  <2>1. /\ task[u] = "asks" /\ task' = [task EXCEPT ![u] = "answered"]
        /\ produced' = IF u \in Serialized THEN produced + 1 ELSE produced
        /\ report' = [report EXCEPT ![u] = IF u \in Serialized THEN produced + 1 ELSE 0]
        /\ tries' = [tries EXCEPT ![u] = @ + 1]
        /\ UNCHANGED <<socket, urb, open, reader, running, lockQueue,
                       registered, unlinked, delivered, forgotten, late>>
    BY <1>12 DEF Answered, Executes, Passes, kernelVars, deviceVars, unlinkVars
  <2>21. BridgeTypeOK'
    BY <2>1 DEF BridgeTypeOK, TriesCounted
  <2>22. SubmittedOnce'
    BY <2>1 DEF SubmittedOnce
  <2>23. TriesCounted'
    BY <2>1 DEF TriesCounted, Early, BridgeTypeOK
  <2>24. LockServes'
    BY <2>1 DEF LockServes, InLine, Locked, BridgeTypeOK
  <2>25. ReportsFresh'
    BY <2>1 DEF ReportsFresh, InLine, Locked, Early, BridgeTypeOK
  <2>26. ReportsInOrder'
    BY <2>1 DEF ReportsInOrder
  <2> QED
    BY <2>21, <2>22, <2>23, <2>24, <2>25, <2>26
<1>13. ASSUME NEW u \in Urb, AnsweredError(u) PROVE OrderInv'
  <2>1. /\ task[u] = "asks" /\ task' = [task EXCEPT ![u] = "answered"]
        /\ tries' = [tries EXCEPT ![u] = @ + 1]
        /\ UNCHANGED <<socket, urb, open, reader, running, lockQueue,
                       registered, unlinked, produced, report, delivered, forgotten, late>>
    BY <1>13 DEF AnsweredError, Passes, kernelVars, deviceVars, unlinkVars
  <2>21. BridgeTypeOK'
    <3>1. task' \in [Urb -> {"none", "spawned", "queued", "asks", "answered", "failed",
                              "checks", "cleared", "writes", "lost", "ended"}]
      BY <2>1 DEF BridgeTypeOK
    <3>2. tries' \in [Urb -> 0..MaxTries]
      BY <2>1 DEF BridgeTypeOK, TriesCounted
    <3> QED
      BY <2>1, <3>1, <3>2 DEF BridgeTypeOK
  <2>22. SubmittedOnce'
    BY <2>1 DEF SubmittedOnce
  <2>23. TriesCounted'
    BY <2>1 DEF TriesCounted, Early, BridgeTypeOK
  <2>24. LockServes'
    BY <2>1 DEF LockServes, InLine, Locked, BridgeTypeOK
  <2>25. ReportsFresh'
    BY <2>1 DEF ReportsFresh, InLine, Locked, Early, BridgeTypeOK
  <2>26. ReportsInOrder'
    BY <2>1 DEF ReportsInOrder
  <2> QED
    BY <2>21, <2>22, <2>23, <2>24, <2>25, <2>26
<1>14. ASSUME NEW u \in Urb, TriesAgain(u) PROVE OrderInv'
  <2>1. /\ task[u] = "asks" /\ tries[u] + 1 < MaxTries
        /\ tries' = [tries EXCEPT ![u] = @ + 1]
        /\ produced' \in {produced, produced + 1}
        /\ UNCHANGED <<socket, urb, open, reader, running, task, lockQueue,
                       registered, unlinked, report, delivered, forgotten, late>>
    BY <1>14 DEF TriesAgain, Executes, kernelVars, deviceVars, unlinkVars
  <2>21. BridgeTypeOK'
    BY <2>1 DEF BridgeTypeOK
  <2>22. SubmittedOnce'
    BY <2>1 DEF SubmittedOnce
  <2>23. TriesCounted'
    BY <2>1 DEF TriesCounted, Early, BridgeTypeOK
  <2>24. LockServes'
    BY <2>1 DEF LockServes, InLine, Locked, BridgeTypeOK
  <2>25. ReportsFresh'
    BY <2>1 DEF ReportsFresh, InLine, Locked, Early, BridgeTypeOK
  <2>26. ReportsInOrder'
    BY <2>1 DEF ReportsInOrder
  <2> QED
    BY <2>21, <2>22, <2>23, <2>24, <2>25, <2>26
<1>15. ASSUME NEW u \in Urb, Fails(u) PROVE OrderInv'
  <2>1. /\ task[u] = "asks" /\ task' = [task EXCEPT ![u] = "failed"]
        /\ tries' = [tries EXCEPT ![u] = @ + 1]
        /\ produced' \in {produced, produced + 1}
        /\ UNCHANGED <<socket, urb, open, reader, running, lockQueue,
                       registered, unlinked, report, delivered, forgotten, late>>
    BY <1>15 DEF Fails, Executes, Passes, kernelVars, deviceVars, unlinkVars
  <2>21. BridgeTypeOK'
    BY <2>1 DEF BridgeTypeOK, TriesCounted
  <2>22. SubmittedOnce'
    BY <2>1 DEF SubmittedOnce
  <2>23. TriesCounted'
    BY <2>1 DEF TriesCounted, Early, BridgeTypeOK
  <2>24. LockServes'
    BY <2>1 DEF LockServes, InLine, Locked, BridgeTypeOK
  <2>25. ReportsFresh'
    BY <2>1 DEF ReportsFresh, InLine, Locked, Early, BridgeTypeOK
  <2>26. ReportsInOrder'
    BY <2>1 DEF ReportsInOrder
  <2> QED
    BY <2>21, <2>22, <2>23, <2>24, <2>25, <2>26
<1>16. ASSUME NEW u \in Urb, Unregister(u) PROVE OrderInv'
  <2>1. CASE task[u] = "answered"
    <3>1. /\ task[u] = "answered" /\ task' = [task EXCEPT ![u] = "checks"]
          /\ tries' = [tries EXCEPT ![u] = 0]
          /\ registered' = registered \ {u}
          /\ UNCHANGED <<socket, urb, open, reader, running, lockQueue,
                         unlinked, produced, report, delivered, forgotten, late>>
      BY <1>16, <2>1 DEF Unregister, Passes, Unlock, kernelVars, deviceVars, unlinkVars
    <3>21. BridgeTypeOK'
      BY <3>1 DEF BridgeTypeOK
    <3>22. SubmittedOnce'
      BY <3>1 DEF SubmittedOnce
    <3>23. TriesCounted'
      BY <3>1 DEF TriesCounted, Early, BridgeTypeOK
    <3>24. LockServes'
      BY <3>1 DEF LockServes, InLine, Locked, BridgeTypeOK
    <3>25. ReportsFresh'
      BY <3>1 DEF ReportsFresh, InLine, Locked, Early, BridgeTypeOK
    <3>26. ReportsInOrder'
      BY <3>1 DEF ReportsInOrder
    <3> QED
      BY <3>21, <3>22, <3>23, <3>24, <3>25, <3>26
  <2>2. CASE task[u] # "answered"
    <3>1. /\ task[u] = "failed" /\ task' = [task EXCEPT ![u] = "lost"]
          /\ tries' = [tries EXCEPT ![u] = 0]
          /\ registered' = registered \ {u}
          /\ lockQueue' = IF u \in Serialized THEN Tail(lockQueue) ELSE lockQueue
          /\ UNCHANGED <<socket, urb, open, reader, running, unlinked, produced,
                         report, delivered, forgotten, late>>
      BY <1>16, <2>2 DEF Unregister, Passes, Unlock, kernelVars, deviceVars, unlinkVars
    <3>2. /\ lockQueue' \in Seq(Serialized)
          /\ u \notin Serialized => lockQueue' = lockQueue
          /\ u \in Serialized =>
               /\ \A v \in Serialized \ {u} : task[v] \notin Locked
               /\ \A i \in DOMAIN lockQueue :
                    lockQueue[i] = u \/ \E j \in DOMAIN lockQueue' : lockQueue'[j] = lockQueue[i]
      <4>1. CASE u \in Serialized
        <5>4. lockQueue' = Tail(lockQueue)
          BY <3>1, <4>1
        <5>1. lockQueue # <<>> /\ Head(lockQueue) = u
          BY <3>1, <4>1 DEF LockServes, InLine, Locked
        <5>2. lockQueue \in Seq(Serialized)
          BY DEF BridgeTypeOK
        <5>3. /\ lockQueue' \in Seq(Serialized) /\ lockQueue[1] = u
              /\ \A i \in DOMAIN lockQueue :
                   i = 1 \/ (i - 1 \in DOMAIN lockQueue' /\ lockQueue[i] = lockQueue'[i - 1])
          BY <5>4, <5>1, <5>2, TailOf
        <5> QED
          BY <4>1, <5>1, <5>3 DEF LockServes
      <4>2. CASE u \notin Serialized
        BY <4>2, <3>1 DEF BridgeTypeOK
      <4> QED
        BY <4>1, <4>2
    <3>21. BridgeTypeOK'
      <4>1. task' \in [Urb -> {"none", "spawned", "queued", "asks", "answered", "failed",
                                "checks", "cleared", "writes", "lost", "ended"}]
        BY <3>1 DEF BridgeTypeOK
      <4>2. tries' \in [Urb -> 0..MaxTries] /\ registered' \subseteq Urb /\ unlinked' \subseteq Urb
        BY <3>1 DEF BridgeTypeOK
      <4>3. lockQueue' \in Seq(Serialized)
        BY <3>2
      <4>4. UNCHANGED <<socket, urb, open, reader, running, produced, report,
                        delivered, forgotten, late>>
        BY <3>1
      <4> QED
        BY <4>1, <4>2, <4>3, <4>4 DEF BridgeTypeOK
    <3>22. SubmittedOnce'
      BY <3>1 DEF SubmittedOnce
    <3>23. TriesCounted'
      BY <3>1 DEF TriesCounted, Early, BridgeTypeOK
    <3>24. LockServes'
      <4>1. CASE u \in Serialized
        <5>1. \A v \in Urb \ {u} : task'[v] = task[v]
          BY <3>1 DEF BridgeTypeOK
        <5>2. task'[u] \notin InLine
          BY <3>1 DEF BridgeTypeOK, InLine
        <5>3. \A v \in Serialized \ {u} :
                task[v] = "queued" => \E i \in DOMAIN lockQueue' : lockQueue'[i] = v
          BY <3>2, <4>1 DEF LockServes
        <5>4. \A v \in Serialized \ {u} : task[v] \notin Locked
          BY <3>2, <4>1
        <5> QED
          BY <5>1, <5>2, <5>3, <5>4 DEF LockServes, InLine, Locked
      <4>2. CASE u \notin Serialized
        BY <3>1, <3>2, <4>2 DEF LockServes, InLine, Locked, BridgeTypeOK
      <4> QED
        BY <4>1, <4>2
    <3>25. ReportsFresh'
      BY <3>1 DEF ReportsFresh, InLine, Locked, Early, BridgeTypeOK
    <3>26. ReportsInOrder'
      BY <3>1 DEF ReportsInOrder
    <3> QED
      BY <3>21, <3>22, <3>23, <3>24, <3>25, <3>26
  <2> QED
    BY <2>1, <2>2
<1>17. ASSUME NEW u \in Urb, Check(u) PROVE OrderInv'
  <2>1. CASE running /\ u \notin unlinked
    <3>1. /\ task[u] = "checks" /\ task' = [task EXCEPT ![u] = "cleared"]
          /\ UNCHANGED <<socket, urb, open, reader, running, lockQueue,
                         registered, unlinked, tries, produced, report, delivered, forgotten, late>>
      BY <1>17, <2>1 DEF Check, WasUnlinked, TaskEnds, Passes, Unlock, kernelVars, deviceVars, unlinkVars
    <3>21. BridgeTypeOK'
      BY <3>1 DEF BridgeTypeOK
    <3>22. SubmittedOnce'
      BY <3>1 DEF SubmittedOnce
    <3>23. TriesCounted'
      BY <3>1 DEF TriesCounted, Early, BridgeTypeOK
    <3>24. LockServes'
      BY <3>1 DEF LockServes, InLine, Locked, BridgeTypeOK
    <3>25. ReportsFresh'
      BY <3>1 DEF ReportsFresh, InLine, Locked, Early, BridgeTypeOK
    <3>26. ReportsInOrder'
      BY <3>1 DEF ReportsInOrder
    <3> QED
      BY <3>21, <3>22, <3>23, <3>24, <3>25, <3>26
  <2>2. CASE ~running \/ u \in unlinked
    <3>1. /\ task[u] = "checks" /\ task' = [task EXCEPT ![u] = "ended"]
          /\ lockQueue' = IF u \in Serialized THEN Tail(lockQueue) ELSE lockQueue
          /\ unlinked' \subseteq unlinked
          /\ UNCHANGED <<socket, urb, open, reader, running, registered, tries,
                         produced, report, delivered, forgotten, late>>
      BY <1>17, <2>2 DEF Check, WasUnlinked, TaskEnds, Passes, Unlock, kernelVars, deviceVars, unlinkVars
    <3>2. /\ lockQueue' \in Seq(Serialized)
          /\ u \notin Serialized => lockQueue' = lockQueue
          /\ u \in Serialized =>
               /\ \A v \in Serialized \ {u} : task[v] \notin Locked
               /\ \A i \in DOMAIN lockQueue :
                    lockQueue[i] = u \/ \E j \in DOMAIN lockQueue' : lockQueue'[j] = lockQueue[i]
      <4>1. CASE u \in Serialized
        <5>4. lockQueue' = Tail(lockQueue)
          BY <3>1, <4>1
        <5>1. lockQueue # <<>> /\ Head(lockQueue) = u
          BY <3>1, <4>1 DEF LockServes, InLine, Locked
        <5>2. lockQueue \in Seq(Serialized)
          BY DEF BridgeTypeOK
        <5>3. /\ lockQueue' \in Seq(Serialized) /\ lockQueue[1] = u
              /\ \A i \in DOMAIN lockQueue :
                   i = 1 \/ (i - 1 \in DOMAIN lockQueue' /\ lockQueue[i] = lockQueue'[i - 1])
          BY <5>4, <5>1, <5>2, TailOf
        <5> QED
          BY <4>1, <5>1, <5>3 DEF LockServes
      <4>2. CASE u \notin Serialized
        BY <4>2, <3>1 DEF BridgeTypeOK
      <4> QED
        BY <4>1, <4>2
    <3>21. BridgeTypeOK'
      <4>1. task' \in [Urb -> {"none", "spawned", "queued", "asks", "answered", "failed",
                                "checks", "cleared", "writes", "lost", "ended"}]
        BY <3>1 DEF BridgeTypeOK
      <4>2. tries' \in [Urb -> 0..MaxTries] /\ registered' \subseteq Urb /\ unlinked' \subseteq Urb
        BY <3>1 DEF BridgeTypeOK
      <4>3. lockQueue' \in Seq(Serialized)
        BY <3>2
      <4>4. UNCHANGED <<socket, urb, open, reader, running, produced, report,
                        delivered, forgotten, late>>
        BY <3>1
      <4> QED
        BY <4>1, <4>2, <4>3, <4>4 DEF BridgeTypeOK
    <3>22. SubmittedOnce'
      BY <3>1 DEF SubmittedOnce
    <3>23. TriesCounted'
      BY <3>1 DEF TriesCounted, Early, BridgeTypeOK
    <3>24. LockServes'
      <4>1. CASE u \in Serialized
        <5>1. \A v \in Urb \ {u} : task'[v] = task[v]
          BY <3>1 DEF BridgeTypeOK
        <5>2. task'[u] \notin InLine
          BY <3>1 DEF BridgeTypeOK, InLine
        <5>3. \A v \in Serialized \ {u} :
                task[v] = "queued" => \E i \in DOMAIN lockQueue' : lockQueue'[i] = v
          BY <3>2, <4>1 DEF LockServes
        <5>4. \A v \in Serialized \ {u} : task[v] \notin Locked
          BY <3>2, <4>1
        <5> QED
          BY <5>1, <5>2, <5>3, <5>4 DEF LockServes, InLine, Locked
      <4>2. CASE u \notin Serialized
        BY <3>1, <3>2, <4>2 DEF LockServes, InLine, Locked, BridgeTypeOK
      <4> QED
        BY <4>1, <4>2
    <3>25. ReportsFresh'
      BY <3>1 DEF ReportsFresh, InLine, Locked, Early, BridgeTypeOK
    <3>26. ReportsInOrder'
      BY <3>1 DEF ReportsInOrder
    <3> QED
      BY <3>21, <3>22, <3>23, <3>24, <3>25, <3>26
  <2> QED
    BY <2>1, <2>2
<1>18. ASSUME NEW u \in Urb, CheckLate(u) PROVE OrderInv'
  <2>1. CASE running
    <3>1. /\ task[u] = "cleared" /\ task' = [task EXCEPT ![u] = "writes"]
          /\ UNCHANGED <<socket, urb, open, reader, running, lockQueue,
                         registered, unlinked, tries, produced, report, delivered, forgotten, late>>
      BY <1>18, <2>1 DEF CheckLate, TaskEnds, Passes, Unlock, kernelVars, deviceVars, unlinkVars
    <3>21. BridgeTypeOK'
      BY <3>1 DEF BridgeTypeOK
    <3>22. SubmittedOnce'
      BY <3>1 DEF SubmittedOnce
    <3>23. TriesCounted'
      BY <3>1 DEF TriesCounted, Early, BridgeTypeOK
    <3>24. LockServes'
      BY <3>1 DEF LockServes, InLine, Locked, BridgeTypeOK
    <3>25. ReportsFresh'
      BY <3>1 DEF ReportsFresh, InLine, Locked, Early, BridgeTypeOK
    <3>26. ReportsInOrder'
      BY <3>1 DEF ReportsInOrder
    <3> QED
      BY <3>21, <3>22, <3>23, <3>24, <3>25, <3>26
  <2>2. CASE ~running
    <3>1. /\ task[u] = "cleared" /\ task' = [task EXCEPT ![u] = "ended"]
          /\ lockQueue' = IF u \in Serialized THEN Tail(lockQueue) ELSE lockQueue
          /\ UNCHANGED <<socket, urb, open, reader, running, registered,
                         unlinked, tries, produced, report, delivered, forgotten, late>>
      BY <1>18, <2>2 DEF CheckLate, TaskEnds, Passes, Unlock, kernelVars, deviceVars, unlinkVars
    <3>2. /\ lockQueue' \in Seq(Serialized)
          /\ u \notin Serialized => lockQueue' = lockQueue
          /\ u \in Serialized =>
               /\ \A v \in Serialized \ {u} : task[v] \notin Locked
               /\ \A i \in DOMAIN lockQueue :
                    lockQueue[i] = u \/ \E j \in DOMAIN lockQueue' : lockQueue'[j] = lockQueue[i]
      <4>1. CASE u \in Serialized
        <5>4. lockQueue' = Tail(lockQueue)
          BY <3>1, <4>1
        <5>1. lockQueue # <<>> /\ Head(lockQueue) = u
          BY <3>1, <4>1 DEF LockServes, InLine, Locked
        <5>2. lockQueue \in Seq(Serialized)
          BY DEF BridgeTypeOK
        <5>3. /\ lockQueue' \in Seq(Serialized) /\ lockQueue[1] = u
              /\ \A i \in DOMAIN lockQueue :
                   i = 1 \/ (i - 1 \in DOMAIN lockQueue' /\ lockQueue[i] = lockQueue'[i - 1])
          BY <5>4, <5>1, <5>2, TailOf
        <5> QED
          BY <4>1, <5>1, <5>3 DEF LockServes
      <4>2. CASE u \notin Serialized
        BY <4>2, <3>1 DEF BridgeTypeOK
      <4> QED
        BY <4>1, <4>2
    <3>21. BridgeTypeOK'
      <4>1. task' \in [Urb -> {"none", "spawned", "queued", "asks", "answered", "failed",
                                "checks", "cleared", "writes", "lost", "ended"}]
        BY <3>1 DEF BridgeTypeOK
      <4>2. tries' \in [Urb -> 0..MaxTries] /\ registered' \subseteq Urb /\ unlinked' \subseteq Urb
        BY <3>1 DEF BridgeTypeOK
      <4>3. lockQueue' \in Seq(Serialized)
        BY <3>2
      <4>4. UNCHANGED <<socket, urb, open, reader, running, produced, report,
                        delivered, forgotten, late>>
        BY <3>1
      <4> QED
        BY <4>1, <4>2, <4>3, <4>4 DEF BridgeTypeOK
    <3>22. SubmittedOnce'
      BY <3>1 DEF SubmittedOnce
    <3>23. TriesCounted'
      BY <3>1 DEF TriesCounted, Early, BridgeTypeOK
    <3>24. LockServes'
      <4>1. CASE u \in Serialized
        <5>1. \A v \in Urb \ {u} : task'[v] = task[v]
          BY <3>1 DEF BridgeTypeOK
        <5>2. task'[u] \notin InLine
          BY <3>1 DEF BridgeTypeOK, InLine
        <5>3. \A v \in Serialized \ {u} :
                task[v] = "queued" => \E i \in DOMAIN lockQueue' : lockQueue'[i] = v
          BY <3>2, <4>1 DEF LockServes
        <5>4. \A v \in Serialized \ {u} : task[v] \notin Locked
          BY <3>2, <4>1
        <5> QED
          BY <5>1, <5>2, <5>3, <5>4 DEF LockServes, InLine, Locked
      <4>2. CASE u \notin Serialized
        BY <3>1, <3>2, <4>2 DEF LockServes, InLine, Locked, BridgeTypeOK
      <4> QED
        BY <4>1, <4>2
    <3>25. ReportsFresh'
      BY <3>1 DEF ReportsFresh, InLine, Locked, Early, BridgeTypeOK
    <3>26. ReportsInOrder'
      BY <3>1 DEF ReportsInOrder
    <3> QED
      BY <3>21, <3>22, <3>23, <3>24, <3>25, <3>26
  <2> QED
    BY <2>1, <2>2
<1>19. ASSUME NEW u \in Urb, Write(u) PROVE OrderInv'
  <2>1. /\ task[u] = "writes" /\ task' = [task EXCEPT ![u] = "ended"]
        /\ lockQueue' = IF u \in Serialized THEN Tail(lockQueue) ELSE lockQueue
        /\ delivered' = delivered \/ (report[u] # 0 /\ delivered' = Append(delivered, report[u]))
        /\ urb' = urb \/ urb' = [urb EXCEPT ![u] = "returned"]
        /\ open' = open \/ open' = FALSE
        /\ UNCHANGED <<socket, reader, running, registered, unlinked, tries,
                       produced, report, forgotten, late>>
    BY <1>19 DEF Write, KernelTakesReply, TaskEnds, Passes, Unlock, kernelVars, deviceVars, unlinkVars
  <2>2. /\ lockQueue' \in Seq(Serialized)
        /\ u \notin Serialized => lockQueue' = lockQueue
        /\ u \in Serialized =>
             /\ \A v \in Serialized \ {u} : task[v] \notin Locked
             /\ \A i \in DOMAIN lockQueue :
                  lockQueue[i] = u \/ \E j \in DOMAIN lockQueue' : lockQueue'[j] = lockQueue[i]
    <3>1. CASE u \in Serialized
      <4>4. lockQueue' = Tail(lockQueue)
        BY <2>1, <3>1
      <4>1. lockQueue # <<>> /\ Head(lockQueue) = u
        BY <2>1, <3>1 DEF LockServes, InLine, Locked
      <4>2. lockQueue \in Seq(Serialized)
        BY DEF BridgeTypeOK
      <4>3. /\ lockQueue' \in Seq(Serialized) /\ lockQueue[1] = u
            /\ \A i \in DOMAIN lockQueue :
                 i = 1 \/ (i - 1 \in DOMAIN lockQueue' /\ lockQueue[i] = lockQueue'[i - 1])
        BY <4>4, <4>1, <4>2, TailOf
      <4> QED
        BY <3>1, <4>1, <4>3 DEF LockServes
    <3>2. CASE u \notin Serialized
      BY <3>2, <2>1 DEF BridgeTypeOK
    <3> QED
      BY <3>1, <3>2
  <2>3. /\ delivered' \in Seq(Nat)
        /\ delivered' # delivered =>
             /\ DOMAIN delivered' = DOMAIN delivered \cup {Len(delivered) + 1}
             /\ delivered'[Len(delivered) + 1] = report[u]
             /\ \A i \in DOMAIN delivered : delivered'[i] = delivered[i] /\ i < Len(delivered) + 1
    <3>1. delivered \in Seq(Nat) /\ report[u] \in Nat
      BY DEF BridgeTypeOK
    <3>2. CASE delivered' = delivered
      BY <3>1, <3>2
    <3>3. CASE delivered' = Append(delivered, report[u])
      BY <3>1, <3>3, AppendTo
    <3> QED
      BY <2>1, <3>2, <3>3
  <2>21. BridgeTypeOK'
    <3>1. task' \in [Urb -> {"none", "spawned", "queued", "asks", "answered", "failed",
                              "checks", "cleared", "writes", "lost", "ended"}]
      BY <2>1 DEF BridgeTypeOK
    <3>2. urb' \in [Urb -> {"new", "submitted", "unlinking", "returned", "cancelled", "absent"}]
      BY <2>1 DEF BridgeTypeOK
    <3>3. lockQueue' \in Seq(Serialized) /\ delivered' \in Seq(Nat)
      BY <2>2, <2>3
    <3>4. UNCHANGED <<socket, reader, running, registered, unlinked, tries,
                      produced, report, forgotten, late>>
      BY <2>1
    <3>5. open' \in BOOLEAN
      BY <2>1 DEF BridgeTypeOK
    <3> QED
      BY <3>1, <3>2, <3>3, <3>4, <3>5 DEF BridgeTypeOK
  <2>22. SubmittedOnce'
    <3>1. \A v \in Urb : /\ urb'[v] = "new" => urb[v] = "new"
                         /\ task[v] = "none" => task'[v] = "none"
      BY <2>1 DEF BridgeTypeOK
    <3>2. \A v \in Urb : urb'[v] = "new" => task'[v] = "none"
      BY <3>1 DEF SubmittedOnce
    <3>3. \A i \in DOMAIN socket : socket[i].urb \in Urb
      BY MessagesOfUrbs
    <3>4. socket' = socket
      BY <2>1
    <3> QED
      BY <3>1, <3>2, <3>3, <3>4 DEF SubmittedOnce
  <2>23. TriesCounted'
    BY <2>1 DEF TriesCounted, Early, BridgeTypeOK
  <2>24. LockServes'
    <3>1. CASE u \in Serialized
      <4>1. \A v \in Urb \ {u} : task'[v] = task[v]
        BY <2>1 DEF BridgeTypeOK
      <4>2. task'[u] \notin InLine
        BY <2>1 DEF BridgeTypeOK, InLine
      <4>3. \A v \in Serialized \ {u} :
              task[v] = "queued" => \E i \in DOMAIN lockQueue' : lockQueue'[i] = v
        BY <2>2, <3>1 DEF LockServes
      <4>4. \A v \in Serialized \ {u} : task[v] \notin Locked
        BY <2>2, <3>1
      <4> QED
        BY <4>1, <4>2, <4>3, <4>4 DEF LockServes, InLine, Locked
    <3>2. CASE u \notin Serialized
      BY <2>1, <2>2, <3>2 DEF LockServes, InLine, Locked, BridgeTypeOK
    <3> QED
      BY <3>1, <3>2
  <2>25. ReportsFresh'
    <3>1. CASE delivered' = delivered
      BY <2>1, <3>1 DEF ReportsFresh, InLine, Locked, Early, BridgeTypeOK
    <3>2. CASE report[u] # 0 /\ delivered' = Append(delivered, report[u])
      <4>1. u \in Serialized /\ report[u] <= produced
        BY <3>2 DEF ReportsFresh
      <4>2. \A v \in Urb \ {u} : report[v] # 0 => task[v] \notin Locked
        BY <2>2, <4>1 DEF ReportsFresh
      <4>3. \A i \in DOMAIN delivered' : delivered'[i] <= produced
        BY <2>3, <3>2, <4>1 DEF ReportsFresh
      <4> QED
        BY <2>1, <4>2, <4>3 DEF ReportsFresh, InLine, Locked, Early, BridgeTypeOK
    <3> QED
      BY <2>1, <3>1, <3>2
  <2>26. ReportsInOrder'
    <3>1. CASE delivered' = delivered
      BY <2>1, <3>1 DEF ReportsInOrder
    <3>2. CASE report[u] # 0 /\ delivered' = Append(delivered, report[u])
      <4>1. \A i \in DOMAIN delivered : delivered[i] < report[u]
        BY <2>1, <3>2 DEF ReportsFresh, InLine, Locked
      <4> QED
        BY <2>3, <3>2, <4>1 DEF ReportsInOrder
    <3> QED
      BY <2>1, <3>1, <3>2
  <2> QED
    BY <2>21, <2>22, <2>23, <2>24, <2>25, <2>26
<1>20. ASSUME NEW u \in Urb, ConversionFails(u) PROVE OrderInv'
  <2>1. /\ task[u] = "asks" /\ task' = [task EXCEPT ![u] = "lost"]
        /\ tries[u] = 0
        /\ lockQueue' = IF u \in Serialized THEN Tail(lockQueue) ELSE lockQueue
        /\ UNCHANGED <<socket, urb, open, reader, running, registered, unlinked, tries, produced,
                       report, delivered, forgotten, late>>
    BY <1>20 DEF ConversionFails, Passes, Unlock, kernelVars, deviceVars, unlinkVars
  <2>2. /\ lockQueue' \in Seq(Serialized)
        /\ u \notin Serialized => lockQueue' = lockQueue
        /\ u \in Serialized =>
             /\ \A v \in Serialized \ {u} : task[v] \notin Locked
             /\ \A i \in DOMAIN lockQueue :
                  lockQueue[i] = u \/ \E j \in DOMAIN lockQueue' : lockQueue'[j] = lockQueue[i]
    <3>1. CASE u \in Serialized
      <4>4. lockQueue' = Tail(lockQueue)
        BY <2>1, <3>1
      <4>1. lockQueue # <<>> /\ Head(lockQueue) = u
        BY <2>1, <3>1 DEF LockServes, InLine, Locked
      <4>2. lockQueue \in Seq(Serialized)
        BY DEF BridgeTypeOK
      <4>3. /\ lockQueue' \in Seq(Serialized) /\ lockQueue[1] = u
            /\ \A i \in DOMAIN lockQueue :
                 i = 1 \/ (i - 1 \in DOMAIN lockQueue' /\ lockQueue[i] = lockQueue'[i - 1])
        BY <4>4, <4>1, <4>2, TailOf
      <4> QED
        BY <3>1, <4>1, <4>3 DEF LockServes
    <3>2. CASE u \notin Serialized
      BY <3>2, <2>1 DEF BridgeTypeOK
    <3> QED
      BY <3>1, <3>2
  <2>21. BridgeTypeOK'
    <3>1. task' \in [Urb -> {"none", "spawned", "queued", "asks", "answered", "failed",
                              "checks", "cleared", "writes", "lost", "ended"}]
      BY <2>1 DEF BridgeTypeOK
    <3>2. tries' \in [Urb -> 0..MaxTries] /\ registered' \subseteq Urb
      BY <2>1 DEF BridgeTypeOK
    <3>3. lockQueue' \in Seq(Serialized)
      BY <2>2
    <3>4. UNCHANGED <<socket, urb, open, reader, running, unlinked, produced, report,
                      delivered, forgotten, late>>
      BY <2>1
    <3> QED
      BY <3>1, <3>2, <3>3, <3>4 DEF BridgeTypeOK
  <2>22. SubmittedOnce'
    BY <2>1 DEF SubmittedOnce
  <2>23. TriesCounted'
    BY <2>1 DEF TriesCounted, Early, BridgeTypeOK
  <2>24. LockServes'
    <3>1. CASE u \in Serialized
      <4>1. \A v \in Urb \ {u} : task'[v] = task[v]
        BY <2>1 DEF BridgeTypeOK
      <4>2. task'[u] \notin InLine
        BY <2>1 DEF BridgeTypeOK, InLine
      <4>3. \A v \in Serialized \ {u} :
              task[v] = "queued" => \E i \in DOMAIN lockQueue' : lockQueue'[i] = v
        BY <2>2, <3>1 DEF LockServes
      <4>4. \A v \in Serialized \ {u} : task[v] \notin Locked
        BY <2>2, <3>1
      <4> QED
        BY <4>1, <4>2, <4>3, <4>4 DEF LockServes, InLine, Locked
    <3>2. CASE u \notin Serialized
      BY <2>1, <2>2, <3>2 DEF LockServes, InLine, Locked, BridgeTypeOK
    <3> QED
      BY <3>1, <3>2
  <2>25. ReportsFresh'
    BY <2>1 DEF ReportsFresh, InLine, Locked, Early, BridgeTypeOK
  <2>26. ReportsInOrder'
    BY <2>1 DEF ReportsInOrder
  <2> QED
    BY <2>21, <2>22, <2>23, <2>24, <2>25, <2>26
<1>21. CASE UNCHANGED bridgeVars
  BY <1>21 DEF bridgeVars, BridgeTypeOK, SubmittedOnce, TriesCounted, Early, LockServes,
         InLine, Locked, ReportsFresh, ReportsInOrder
<1> QED
  BY <1>1, <1>2, <1>3, <1>4, <1>5, <1>6, <1>7, <1>8, <1>9, <1>10, <1>11, <1>12, <1>13,
     <1>14, <1>15, <1>16, <1>17, <1>18, <1>19, <1>20, <1>21 DEF BridgeNext, TaskStep, Transfer,
     ReaderStep

\* The kernel unlinks an URB once, and the reader handles one command after the other.
LEMMA UnlinkStep ==
  ASSUME OrderInv, UnlinkedOnce, [BridgeNext]_bridgeVars
  PROVE  UnlinkedOnce'
<1> USE DEF OrderInv
<1> DEFINE M == [cmd : {"submit", "unlink"}, urb : Urb]
<1>0. socket \in Seq(M) /\ \A i \in DOMAIN socket : socket[i].urb \in Urb
  BY MessagesOfUrbs DEF BridgeTypeOK
<1>1. CASE UNCHANGED <<socket, reader, urb>>
  BY <1>1 DEF UnlinkedOnce, Unfinished, Busy
<1>2. ASSUME NEW u \in Urb, KernelSubmits(u) \/ KernelUnlinks(u) PROVE UnlinkedOnce'
  <2>1. PICK m \in M : /\ m.urb = u /\ socket' = Append(socket, m) /\ reader' = reader
                       /\ \/ m.cmd = "submit" /\ urb[u] = "new"
                          \/ m.cmd = "unlink" /\ urb[u] = "submitted"
                       /\ \A v \in Urb : v # u => urb'[v] = urb[v]
                       /\ m.cmd = "unlink" => urb'[u] = "unlinking"
    <3>1. CASE KernelSubmits(u)
      <4> DEFINE m == [cmd |-> "submit", urb |-> u]
      <4>1. /\ m \in M /\ m.urb = u /\ m.cmd = "submit"
            /\ socket' = Append(socket, m) /\ reader' = reader
        BY <3>1 DEF KernelSubmits
      <4>2. urb[u] = "new" /\ \A v \in Urb : v # u => urb'[v] = urb[v]
        BY <3>1 DEF KernelSubmits, BridgeTypeOK
      <4> QED
        BY <4>1, <4>2
    <3>2. CASE KernelUnlinks(u)
      <4> DEFINE m == [cmd |-> "unlink", urb |-> u]
      <4>1. /\ m \in M /\ m.urb = u /\ m.cmd = "unlink"
            /\ socket' = Append(socket, m) /\ reader' = reader
        BY <3>2 DEF KernelUnlinks
      <4>2. urb[u] = "submitted" /\ urb'[u] = "unlinking" /\ \A v \in Urb : v # u => urb'[v] = urb[v]
        BY <3>2 DEF KernelUnlinks, BridgeTypeOK
      <4> QED
        BY <4>1, <4>2
    <3> QED
      BY <1>2, <3>1, <3>2
  <2>2. /\ DOMAIN socket' = DOMAIN socket \cup {Len(socket) + 1}
        /\ socket'[Len(socket) + 1] = m
        /\ \A i \in DOMAIN socket : socket'[i] = socket[i]
    <3> HIDE DEF M
    <3> QED
      BY <1>0, <2>1, AppendTo
  <2>3. \A v \in Urb : Unfinished(v) => v # u
    BY <2>1 DEF Unfinished
  <2>4. Busy => reader.urb \in Urb /\ reader.urb # u
    BY <2>3 DEF UnlinkedOnce, Busy, BridgeTypeOK, Reading
  <2>5. \A i \in DOMAIN socket : socket[i].cmd = "unlink" => socket[i].urb # u
    BY <1>0, <2>3 DEF UnlinkedOnce
  <2>6. \A v \in Urb : v # u /\ Unfinished(v) => Unfinished(v)'
    BY <2>1 DEF Unfinished
  <2>7. m.cmd = "unlink" => Unfinished(u)'
    BY <2>1 DEF Unfinished
  <2>8. Busy' = Busy
    BY <2>1 DEF Busy
  <2>9. \A i \in DOMAIN socket' : socket'[i].cmd = "unlink" =>
          (Unfinished(socket[i].urb))' /\ (Busy' => reader'.urb # socket'[i].urb)
    BY <1>0, <2>1, <2>2, <2>4, <2>5, <2>6, <2>7, <2>8 DEF UnlinkedOnce
  <2>10. \A i, j \in DOMAIN socket' :
           socket'[i].cmd = "unlink" /\ socket'[j].cmd = "unlink" /\ socket'[i].urb = socket'[j].urb => i = j
    BY <2>1, <2>2, <2>5 DEF UnlinkedOnce
  <2>11. Busy' => (Unfinished(reader.urb))'
    BY <2>1, <2>4, <2>6, <2>8 DEF UnlinkedOnce
  <2> QED
    BY <2>9, <2>10, <2>11 DEF UnlinkedOnce
<1>3. CASE ReaderSpawns \/ ReaderTracks
  <2>1. /\ socket # <<>> /\ socket' = Tail(socket) /\ urb' = urb /\ ~Busy
        /\ \/ reader' = reader
           \/ /\ Head(socket).cmd = "unlink" /\ reader'.urb = Head(socket).urb
    BY <1>3 DEF ReaderSpawns, ReaderTracks, kernelVars, Busy, Reading
  <2>2. /\ 1 \in DOMAIN socket /\ Head(socket) = socket[1]
        /\ \A i \in DOMAIN socket' : /\ i + 1 \in DOMAIN socket /\ socket'[i] = socket[i + 1]
                                     /\ i + 1 # 1
    <3> HIDE DEF M
    <3>1. socket' \in Seq(M) /\ \A i \in DOMAIN socket' : i + 1 \in DOMAIN socket /\ socket'[i] = socket[i + 1]
      BY <1>0, <2>1, TailOf
    <3>2. \A i \in DOMAIN socket' : i + 1 # 1
      BY <3>1
    <3> QED
      BY <1>0, <2>1, <3>1, <3>2, TailOf
  <2>3. \A i, j \in DOMAIN socket' : i + 1 = j + 1 => i = j
    <3>1. \A i \in DOMAIN socket' : i \in Int
      <4> HIDE DEF M
      <4> QED
        BY <1>0, <2>1, TailOf
    <3> QED
      BY <3>1
  <2>4. reader' = reader => ~Busy'
    BY <2>1 DEF Busy
  <2>5. \A v : Unfinished(v)' = Unfinished(v)
    BY <2>1 DEF Unfinished
  <2>6. \A i \in DOMAIN socket' : socket'[i].cmd = "unlink" =>
          /\ Unfinished(socket'[i].urb)
          /\ Head(socket).cmd = "unlink" => socket'[i].urb # Head(socket).urb
    BY <2>2 DEF UnlinkedOnce
  <2>7. Head(socket).cmd = "unlink" => Unfinished(Head(socket).urb)
    BY <2>2 DEF UnlinkedOnce
  <2>8. \A i, j \in DOMAIN socket' :
          socket'[i].cmd = "unlink" /\ socket'[j].cmd = "unlink" /\ socket'[i].urb = socket'[j].urb => i = j
    BY <2>2, <2>3 DEF UnlinkedOnce
  <2>9. /\ Busy' => Unfinished(reader'.urb)
        /\ \A i \in DOMAIN socket' : socket'[i].cmd = "unlink" => (Busy' => reader'.urb # socket'[i].urb)
    BY <2>1, <2>4, <2>6, <2>7
  <2>10. urb' = urb
    BY <2>1
  <2> QED
    BY <2>6, <2>8, <2>9, <2>10 DEF UnlinkedOnce, Unfinished
<1>4. CASE ReaderCancels
  <2>1. Busy /\ reader'.urb = reader.urb /\ UNCHANGED <<socket, urb>>
    BY <1>4 DEF ReaderCancels, kernelVars, Busy, BridgeTypeOK, Reading
  <2> QED
    BY <2>1 DEF UnlinkedOnce, Unfinished
<1>5. CASE ReaderReplies
  <2>1. /\ Busy /\ ~Busy' /\ socket' = socket
        /\ \A v \in Urb : v # reader.urb => urb'[v] = urb[v]
    BY <1>5 DEF ReaderReplies, KernelTakesUnlinkReply, kernelVars, Busy, BridgeTypeOK, Reading
  <2> QED
    BY <1>0, <2>1 DEF UnlinkedOnce, Unfinished
<1>6. ASSUME NEW u \in Urb, Write(u) PROVE UnlinkedOnce'
  <2>1. /\ UNCHANGED <<socket, reader>>
        /\ \A v \in Urb : Unfinished(v) => Unfinished(v)'
    BY <1>6 DEF Write, KernelTakesReply, kernelVars, Unfinished, BridgeTypeOK
  <2>2. Busy' = Busy /\ (Busy => reader.urb \in Urb)
    BY <2>1 DEF Busy, BridgeTypeOK, Reading
  <2>3. \A i \in DOMAIN socket' : socket'[i].cmd = "unlink" =>
          (Unfinished(socket[i].urb))' /\ (Busy' => reader'.urb # socket'[i].urb)
    BY <1>0, <2>1, <2>2 DEF UnlinkedOnce
  <2>4. Busy' => (Unfinished(reader.urb))'
    BY <2>1, <2>2 DEF UnlinkedOnce
  <2>5. socket' = socket
    BY <2>1
  <2> QED
    BY <2>3, <2>4, <2>5 DEF UnlinkedOnce
<1>7. CASE \/ \E u \in Urb : \/ Transfer(u) \/ QueueForLock(u) \/ Register(u) \/ ConversionFails(u)
                              \/ Unregister(u) \/ Check(u) \/ CheckLate(u)
           \/ KernelCloses \/ ReaderEnds \/ Stop
  BY <1>1, <1>7 DEF Transfer, Answered, AnsweredError, TriesAgain, Fails, QueueForLock, Register,
         ConversionFails, Unregister, Check, CheckLate, KernelCloses, ReaderEnds, Stop, kernelVars
<1>8. CASE UNCHANGED bridgeVars
  BY <1>1, <1>8 DEF bridgeVars
<1> QED
  BY <1>2, <1>3, <1>4, <1>5, <1>6, <1>7, <1>8 DEF BridgeNext, TaskStep, ReaderStep

\* A step keeps to what was promised for an URB taken back.
LEMMA SilenceStep ==
  ASSUME OrderInv, UnlinkedOnce, Silence, [BridgeNext]_bridgeVars
  PROVE  Silence'
<1> USE DEF OrderInv
<1>0. /\ registered \subseteq Urb /\ unlinked \subseteq Urb /\ late \subseteq Urb
      /\ Busy => reader.urb \in Urb
      /\ reader.at = "found" => Busy
  BY DEF BridgeTypeOK, Busy, Reading
<1> DEFINE Arrives(u, at) == \A v \in Urb : task'[v] = IF v = u THEN at ELSE task[v]
           Elsewhere == UNCHANGED <<urb, reader, forgotten, late>>
<1>1. CASE UNCHANGED <<task, registered, urb, unlinked, reader, forgotten, late>>
  BY <1>1 DEF Silence, Settled, Busy
<1>2. ASSUME NEW u \in Urb, KernelSubmits(u) \/ KernelUnlinks(u) PROVE Silence'
  <2>1. /\ UNCHANGED <<task, registered, unlinked, reader, forgotten, late>>
        /\ \A v \in Urb : urb'[v] \in {"cancelled", "absent"} => urb'[v] = urb[v]
    BY <1>2 DEF KernelSubmits, KernelUnlinks, unlinkVars, BridgeTypeOK
  <2> QED
    BY <2>1 DEF Silence, Settled, Busy
<1>3. CASE ReaderSpawns
  <2>1. /\ socket # <<>> /\ Head(socket).cmd = "submit"
        /\ task' = [task EXCEPT ![Head(socket).urb] = "spawned"]
        /\ UNCHANGED <<registered, unlinked>> /\ Elsewhere
    BY <1>3 DEF ReaderSpawns, kernelVars, unlinkVars
  <2>2. 1 \in DOMAIN socket /\ Head(socket) = socket[1]
    BY <2>1, TailOf DEF BridgeTypeOK
  <2>3. Head(socket).urb \in Urb /\ task[Head(socket).urb] = "none"
    BY <2>1, <2>2, MessagesOfUrbs DEF SubmittedOnce
  <2>4. /\ task[Head(socket).urb] = "none" /\ Arrives(Head(socket).urb, "spawned")
        /\ UNCHANGED <<registered, unlinked>> /\ Elsewhere
    BY <2>1, <2>3 DEF BridgeTypeOK
  <2> QED
    BY <1>0, <2>4 DEF Silence, Settled, Busy
<1>4. CASE ReaderTracks
  <2>0. PICK u : u = Head(socket).urb
    OBVIOUS
  <2>1. /\ TrackUnlinked(u)
        /\ reader' = [at |-> "cancel", urb |-> u]
        /\ UNCHANGED <<task, registered, urb>>
        /\ socket # <<>> /\ Head(socket).cmd = "unlink"
    BY <1>4, <2>0 DEF ReaderTracks, kernelVars
  <2>2. 1 \in DOMAIN socket /\ Head(socket) = socket[1]
    BY <2>1, TailOf DEF BridgeTypeOK
  <2>3. urb[u] \notin {"cancelled", "absent"}
    BY <2>0, <2>1, <2>2 DEF UnlinkedOnce, Unfinished
  <2>4. /\ u \in unlinked' /\ unlinked' \subseteq unlinked \cup {u}
        /\ forgotten \subseteq forgotten' /\ unlinked \subseteq unlinked' \cup forgotten'
        /\ late \subseteq late' /\ late' \subseteq late \cup {u}
        /\ (u \in late' => u \in late \/ task[u] \in {"cleared", "writes"})
        /\ (task[u] \in {"cleared", "writes"} => u \in late')
    BY <2>1 DEF TrackUnlinked, Cleared
  <2>5. \A v : Settled(v) => Settled(v)'
    BY <2>1, <2>4 DEF Settled
  <2>6. Settled(u)' /\ reader'.urb = u /\ reader'.at = "cancel"
    BY <2>1, <2>4 DEF Settled
  <2>7. UNCHANGED <<task, registered, urb>>
    BY <2>1
  <2>8. /\ \A v \in registered' : task'[v] \in {"asks", "answered", "failed", "lost"}
        /\ \A v \in unlinked' : task'[v] \in {"cleared", "writes"} => v \in late'
        /\ \A v \in late' : task'[v] \in {"cleared", "writes", "ended"}
    BY <2>4, <2>7 DEF Silence
  <2>9. \A v \in Urb : urb'[v] \in {"cancelled", "absent"} => Settled(v)'
    BY <2>5, <2>7 DEF Silence
  <2>10. \A v \in Urb : urb'[v] = "cancelled" => v \notin late'
    BY <2>3, <2>4, <2>7 DEF Silence
  <2>11. (Settled(reader.urb))'
    BY <2>6 DEF Settled
  <2>12. ~(reader'.at = "found")
    BY <2>6
  <2> QED
    BY <2>8, <2>9, <2>10, <2>11, <2>12 DEF Silence
<1>5. CASE ReaderCancels
  <2>1. /\ reader.at = "cancel" /\ registered' = registered \ {reader.urb}
        /\ UNCHANGED <<task, unlinked, forgotten, late, urb>>
        /\ reader'.urb = reader.urb
        /\ reader'.at = IF reader.urb \in registered THEN "found" ELSE "missing"
    BY <1>5 DEF ReaderCancels, kernelVars, unlinkVars, BridgeTypeOK, Reading
  <2> QED
    BY <2>1 DEF Silence, Settled, Busy
<1>6. CASE ReaderReplies
  <2>1. /\ Busy /\ ~Busy' /\ reader'.at # "found"
        /\ UNCHANGED <<task, registered, unlinked, forgotten, late>>
        /\ \A v \in Urb : urb'[v] # urb[v] =>
             v = reader.urb /\ urb'[v] = IF reader.at = "found" THEN "cancelled" ELSE "absent"
    BY <1>6 DEF ReaderReplies, KernelTakesUnlinkReply, kernelVars, unlinkVars, Busy, BridgeTypeOK,
           Reading
  <2> QED
    BY <2>1 DEF Silence, Settled
<1>7. ASSUME NEW u \in Urb, QueueForLock(u) PROVE Silence'
  <2>1. task[u] = "spawned" /\ Arrives(u, "queued") /\ UNCHANGED <<registered, unlinked>> /\ Elsewhere
    BY <1>7 DEF QueueForLock, Passes, kernelVars, unlinkVars, BridgeTypeOK
  <2> QED
    BY <1>0, <2>1 DEF Silence, Settled, Busy
<1>8. ASSUME NEW u \in Urb, Register(u) PROVE Silence'
  <2>1. /\ task[u] = "queued" /\ Arrives(u, "asks")
        /\ registered' = registered \cup {u} /\ unlinked' = unlinked /\ Elsewhere
    BY <1>8 DEF Register, Passes, kernelVars, unlinkVars, BridgeTypeOK
  <2> QED
    BY <1>0, <2>1 DEF Silence, Settled, Busy
<1>9. ASSUME NEW u \in Urb, Answered(u) \/ AnsweredError(u) \/ Fails(u) \/ ConversionFails(u)
      PROVE Silence'
  <2>1. /\ task[u] = "asks"
        /\ Arrives(u, "answered") \/ Arrives(u, "failed") \/ Arrives(u, "lost")
        /\ UNCHANGED <<registered, unlinked>> /\ Elsewhere
    BY <1>9 DEF Answered, AnsweredError, Fails, ConversionFails, Passes, kernelVars, unlinkVars,
           BridgeTypeOK
  <2>2. CASE Arrives(u, "answered")
    BY <1>0, <2>1, <2>2 DEF Silence, Settled, Busy
  <2>3. CASE Arrives(u, "failed")
    BY <1>0, <2>1, <2>3 DEF Silence, Settled, Busy
  <2>4. CASE Arrives(u, "lost")
    BY <1>0, <2>1, <2>4 DEF Silence, Settled, Busy
  <2> QED
    BY <2>1, <2>2, <2>3, <2>4
<1>10. ASSUME NEW u \in Urb, Unregister(u) PROVE Silence'
  <2>1. /\ registered' = registered \ {u} /\ UNCHANGED unlinked /\ Elsewhere
        /\ (task[u] = "answered" /\ Arrives(u, "checks")) \/ (task[u] = "failed" /\ Arrives(u, "lost"))
    BY <1>10 DEF Unregister, Passes, kernelVars, unlinkVars, BridgeTypeOK
  <2>2. CASE task[u] = "answered" /\ Arrives(u, "checks")
    BY <1>0, <2>1, <2>2 DEF Silence, Settled, Busy
  <2>3. CASE task[u] = "failed" /\ Arrives(u, "lost")
    BY <1>0, <2>1, <2>3 DEF Silence, Settled, Busy
  <2> QED
    BY <2>1, <2>2, <2>3
<1>11. ASSUME NEW u \in Urb, Check(u) PROVE Silence'
  <2>1. /\ task[u] = "checks" /\ UNCHANGED registered /\ Elsewhere
        /\ \/ Arrives(u, "ended") /\ unlinked' \in {unlinked, unlinked \ {u}}
           \/ Arrives(u, "cleared") /\ u \notin unlinked /\ unlinked' = unlinked
    BY <1>11 DEF Check, WasUnlinked, TaskEnds, Passes, kernelVars, BridgeTypeOK
  <2>2. CASE Arrives(u, "ended") /\ unlinked' \in {unlinked, unlinked \ {u}}
    BY <1>0, <2>1, <2>2 DEF Silence, Settled, Busy
  <2>3. CASE Arrives(u, "cleared") /\ u \notin unlinked /\ unlinked' = unlinked
    BY <1>0, <2>1, <2>3 DEF Silence, Settled, Busy
  <2> QED
    BY <2>1, <2>2, <2>3
<1>12. ASSUME NEW u \in Urb, CheckLate(u) \/ Write(u) PROVE Silence'
  <2>1. /\ task[u] \in {"cleared", "writes"}
        /\ UNCHANGED <<registered, unlinked, reader, forgotten, late>>
        /\ Arrives(u, "ended") \/ Arrives(u, "writes")
        /\ \A v \in Urb : urb'[v] \in {"cancelled", "absent"} => urb'[v] = urb[v]
    BY <1>12 DEF CheckLate, Write, KernelTakesReply, TaskEnds, Passes, kernelVars, unlinkVars,
           BridgeTypeOK
  <2>2. CASE Arrives(u, "ended")
    BY <1>0, <2>1, <2>2 DEF Silence, Settled, Busy
  <2>3. CASE Arrives(u, "writes")
    BY <1>0, <2>1, <2>3 DEF Silence, Settled, Busy
  <2> QED
    BY <2>1, <2>2, <2>3
<1>13. CASE (\E u \in Urb : TriesAgain(u)) \/ KernelCloses \/ ReaderEnds \/ Stop
  BY <1>1, <1>13 DEF TriesAgain, KernelCloses, ReaderEnds, Stop, kernelVars, unlinkVars
<1>14. CASE UNCHANGED bridgeVars
  BY <1>1, <1>14 DEF bridgeVars
<1> QED
  BY <1>2, <1>3, <1>4, <1>5, <1>6, <1>7, <1>8, <1>9, <1>10, <1>11, <1>12, <1>13, <1>14
     DEF BridgeNext, TaskStep, Transfer, ReaderStep

(* What holds in every state of the bridge *)

\* The reports of an interrupt endpoint reach the kernel in the order the device gave
\* them, and every variable of the bridge has values of its type (the lock of the
\* endpoint in handle_cmd_submit_async).
THEOREM ReportsStayInOrder == BridgeSpec => [](BridgeTypeOK /\ ReportsInOrder)
<1>1. BridgeInit => OrderInv
  BY BridgeAssumption
     DEF BridgeInit, OrderInv, BridgeTypeOK, SubmittedOnce, TriesCounted, LockServes, ReportsFresh,
         ReportsInOrder, Early, InLine, Locked, Reading
<1>2. OrderInv /\ [BridgeNext]_bridgeVars => OrderInv'
  BY OrderStep
<1>3. OrderInv => BridgeTypeOK /\ ReportsInOrder
  BY DEF OrderInv
<1> QED
  BY <1>1, <1>2, <1>3, PTL DEF BridgeSpec

\* For any number of URBs, and of places in unlinked_seqnums, the bridge is sound: an URB
\* whose CMD_UNLINK was answered gets no RET_SUBMIT any more, unless it was cleared from
\* the set, or found nothing and came after the task's look (handle_cmd_unlink_blocking).
THEOREM BridgeStaysSound == BridgeSpec => []BridgeIsSound
<1>1. BridgeInit => OrderInv /\ UnlinkedOnce /\ Silence
  BY BridgeAssumption
     DEF BridgeInit, OrderInv, BridgeTypeOK, SubmittedOnce, TriesCounted, LockServes, ReportsFresh,
         ReportsInOrder, Early, InLine, Locked, Reading, UnlinkedOnce, Busy, Silence
<1>2. OrderInv /\ UnlinkedOnce /\ Silence /\ [BridgeNext]_bridgeVars
        => (OrderInv /\ UnlinkedOnce /\ Silence)'
  BY OrderStep, UnlinkStep, SilenceStep
<1>3. OrderInv /\ Silence => BridgeIsSound
  BY DEF OrderInv, Silence, Settled, UnlinkedAreSilent, BridgeIsSound
<1> QED
  BY <1>1, <1>2, <1>3, PTL DEF BridgeSpec

-----------------------------------------------------------------------------
(* The buffer of reports *)

\* The counters of the buffer are caught up with what was stored.
Caught == received \cup missing \subseteq 0..(expected - 1) /\ (closing => ~active)

ReceiveInv == ReceiveTypeOK /\ Caught /\ ReceiverIsSound

Awake == {t \in Taker : taker[t] = "awake"}

\* The threads awake and the reports waiting are finitely many.
LEMMA TakersCounted ==
  ASSUME ReceiveTypeOK
  PROVE  /\ IsFiniteSet(Awake) /\ Cardinality(Awake) \in Nat
         /\ reports \in Seq(Sequence) /\ Len(reports) <= MaxSize /\ Len(reports) \in Nat
<1>1. Awake \in SUBSET Taker
  BY DEF Awake
<1>2. IsFiniteSet(Awake)
  BY <1>1, ReceiveAssumption, FS_Subset
<1>3. reports \in Seq(Sequence) /\ Len(reports) <= MaxSize
  <2>1. reports \in BoundedSeq(Sequence, MaxSize) /\ MaxSize \in Nat
    BY ReceiveAssumption DEF ReceiveTypeOK
  <2> QED
    BY <2>1, Bounded
<1> QED
  BY <1>2, <1>3, FS_CardinalityType

\* A buffer that gives a report away, or none.
LEMMA TakesFrom ==
  ASSUME ReceiveTypeOK, reports' = reports \/ (reports # <<>> /\ reports' = Tail(reports))
  PROVE  /\ reports' \in BoundedSeq(Sequence, MaxSize)
         /\ Len(reports') \in Nat /\ Len(reports') <= Len(reports)
         /\ reports # <<>> /\ reports' # reports => Len(reports') = Len(reports) - 1
         /\ reports # <<>> /\ reports' = Tail(reports) => Len(reports') = Len(reports) - 1
<1>1. /\ reports \in Seq(Sequence) /\ Len(reports) <= MaxSize /\ Len(reports) \in Nat
  BY TakersCounted
<1>2. reports' \in Seq(Sequence) /\ Len(reports') <= MaxSize
  BY <1>1, ReceiveAssumption
<1>3. reports' \in BoundedSeq(Sequence, MaxSize)
  BY <1>2, ReceiveAssumption, Bounded
<1> QED
  BY <1>1, <1>3

\* A thread changes what it does.
LEMMA TakerTurns ==
  ASSUME ReceiveTypeOK, NEW t \in Taker, NEW at \in {"idle", "asleep", "awake"},
         taker' = [taker EXCEPT ![t] = at]
  PROVE  /\ taker' \in [Taker -> {"idle", "asleep", "awake"}]
         /\ Awake' = IF at = "awake" THEN Awake \cup {t} ELSE Awake \ {t}
         /\ Asleep' = IF at = "asleep" THEN Asleep \cup {t} ELSE Asleep \ {t}
         /\ Cardinality(Awake') =
              IF at = "awake"
              THEN IF taker[t] = "awake" THEN Cardinality(Awake) ELSE Cardinality(Awake) + 1
              ELSE IF taker[t] = "awake" THEN Cardinality(Awake) - 1 ELSE Cardinality(Awake)
<1>1. taker' \in [Taker -> {"idle", "asleep", "awake"}]
  BY DEF ReceiveTypeOK
<1>2. /\ Awake' = IF at = "awake" THEN Awake \cup {t} ELSE Awake \ {t}
      /\ Asleep' = IF at = "asleep" THEN Asleep \cup {t} ELSE Asleep \ {t}
  BY DEF ReceiveTypeOK, Awake, Asleep
<1>3. t \in Awake <=> taker[t] = "awake"
  BY DEF Awake
<1> QED
  BY <1>1, <1>2, <1>3, TakersCounted, FS_AddElement, FS_RemoveElement

\* The numbers missing after a report are few enough.
LEMMA MissingBounded ==
  ASSUME ReceiveTypeOK, NEW seq \in Sequence
  PROVE  /\ NowMissing(seq) \subseteq Sequence /\ IsFiniteSet(NowMissing(seq))
         /\ Cardinality(NowMissing(seq)) <= MaxMissing
         /\ seq > expected => NowMissing(seq) \subseteq missing \cup Skipped(seq)
         /\ seq > expected => missing \subseteq NowMissing(seq)
         /\ ~(seq > expected) => NowMissing(seq) = missing \ {seq}
<1>1. IsFiniteSet(Sequence)
  BY ReceiveAssumption, FS_Interval DEF Sequence
<1>2. IsFiniteSet(missing) /\ Cardinality(missing) \in Nat /\ Cardinality(missing) <= MaxMissing
  BY <1>1, FS_Subset, FS_CardinalityType DEF ReceiveTypeOK
<1>3. CASE seq > expected
  <2> DEFINE room == MaxMissing - Cardinality(missing)
             new == Skipped(seq) \ missing
             kept == {m \in new : Cardinality({n \in new : n < m}) < room}
  <2>1. new \in SUBSET (0..MaxSeq) /\ MaxSeq \in Nat /\ room \in Nat
    BY <1>2, <1>3, ReceiveAssumption DEF Skipped, ReceiveTypeOK, Sequence
  <2>2. IsFiniteSet(kept) /\ Cardinality(kept) <= room
    <3> HIDE DEF new, room
    <3> QED
      BY <2>1, AtMost
  <2>3. Tracked(seq) = kept /\ kept \subseteq new
    BY DEF Tracked
  <2>4. NowMissing(seq) = missing \cup kept
    BY <1>3, <2>3 DEF NowMissing
  <2>5. missing \cap kept = {}
    BY <2>3
  <2>6. kept \subseteq Skipped(seq) /\ kept \subseteq Sequence
    BY <2>1, <2>3 DEF Sequence
  <2> HIDE DEF kept
  <2>7. Cardinality(kept) \in Nat /\ Cardinality(missing \cap kept) = 0
    BY <2>2, <2>5, FS_CardinalityType, FS_EmptySet
  <2>8. /\ IsFiniteSet(missing \cup kept)
        /\ Cardinality(missing \cup kept) = Cardinality(missing) + Cardinality(kept) - 0
    BY <1>2, <2>2, <2>7, FS_Union
  <2> QED
    BY <1>2, <1>3, <2>2, <2>4, <2>6, <2>7, <2>8, ReceiveAssumption DEF ReceiveTypeOK
<1>4. CASE ~(seq > expected)
  <2>1. NowMissing(seq) = missing \ {seq}
    BY <1>4 DEF NowMissing, StillMissing
  <2>2. /\ IsFiniteSet(missing \ {seq})
        /\ Cardinality(missing \ {seq}) <= Cardinality(missing)
    BY <1>2, FS_RemoveElement
  <2>3. Cardinality(missing \ {seq}) \in Nat
    BY <2>2, FS_CardinalityType
  <2> QED
    BY <1>2, <1>4, <2>1, <2>2, <2>3, ReceiveAssumption DEF ReceiveTypeOK
<1> QED
  BY <1>3, <1>4

\* The end of what came without a gap is a sequence number.
LEMMA ContiguousTyped ==
  ASSUME NEW lost \in SUBSET Sequence, NEW top \in Sequence, contiguous \in Sequence
  PROVE  NowContiguous(lost, top) \in Sequence
<1>1. CASE lost = {}
  BY <1>1 DEF NowContiguous
<1>2. CASE lost # {}
  <2>1. PICK k \in lost : \A n \in lost : k <= n
    BY <1>2, LeastOf DEF Sequence
  <2> DEFINE least == CHOOSE m \in lost : \A n \in lost : m <= n
  <2>2. least \in lost
    BY <2>1
  <2>3. NowContiguous(lost, top) = Larger(contiguous, Before(least))
    BY <1>2 DEF NowContiguous
  <2> HIDE DEF least
  <2> QED
    BY <2>2, <2>3, ReceiveAssumption DEF Larger, Before, Sequence
<1> QED
  BY <1>1, <1>2

\* No gap is forgotten, and nobody sleeps on, whatever a step does.
LEMMA ReceiveStep ==
  ASSUME ReceiveInv, [ReceiveNext]_receiveVars
  PROVE  ReceiveInv'
<1> USE ReceiveAssumption DEF ReceiveInv, ReceiverIsSound
<1>0. /\ IsFiniteSet(Awake) /\ Cardinality(Awake) \in Nat
      /\ reports \in Seq(Sequence) /\ Len(reports) <= MaxSize /\ Len(reports) \in Nat
  BY TakersCounted
<1>1. ASSUME NEW seq \in Sequence, Activate(seq) PROVE ReceiveInv'
  <2>1. ReceiveTypeOK'
    <3>1. Cardinality({}) = 0 /\ Before(seq) \in Sequence
      BY FS_EmptySet DEF Before, Sequence
    <3> QED
      BY <1>1, <3>1 DEF Activate, ReceiveTypeOK, Sequence
  <2>2. Caught' /\ GapsAreKnown'
    BY <1>1 DEF Activate, Caught, GapsAreKnown, Sequence
  <2>3. NobodySleepsOn'
    BY <1>1 DEF Activate, NobodySleepsOn, Asleep
  <2> QED
    BY <2>1, <2>2, <2>3
<1>2. CASE DeactivateBegins
  BY <1>2 DEF DeactivateBegins, sequenceVars, ReceiveTypeOK, Caught, GapsAreKnown,
         NobodySleepsOn, Asleep
<1>3. CASE DeactivateEnds
  <2>1. Asleep' = {}
    BY <1>3 DEF DeactivateEnds, WakeAll, Asleep, ReceiveTypeOK
  <2>2. ReceiveTypeOK'
    <3>1. missing' = {} /\ Cardinality(missing') = 0
      <4>1. missing' = {}
        BY <1>3 DEF DeactivateEnds
      <4> QED
        BY <4>1, FS_EmptySet
    <3>2. reports' \in BoundedSeq(Sequence, MaxSize)
      <4>1. reports' \in Seq(Sequence) /\ Len(reports') <= MaxSize
        BY <1>3 DEF DeactivateEnds
      <4> QED
        BY <4>1, Bounded
    <3>3. taker' \in [Taker -> {"idle", "asleep", "awake"}]
      BY <1>3 DEF DeactivateEnds, WakeAll, ReceiveTypeOK
    <3>4. /\ closing' = FALSE
          /\ UNCHANGED <<active, expected, highest, contiguous, starts, first, received,
                         givenUp>>
      BY <1>3 DEF DeactivateEnds
    <3>5. missing' \subseteq Sequence /\ Cardinality(missing') <= MaxMissing
      BY <3>1
    <3> QED
      BY <3>2, <3>3, <3>4, <3>5 DEF ReceiveTypeOK
  <2>3. Caught' /\ GapsAreKnown'
    BY <1>3 DEF DeactivateEnds, Caught, GapsAreKnown
  <2> QED
    BY <2>1, <2>2, <2>3 DEF NobodySleepsOn
<1>4. ASSUME NEW seq \in Sequence, Store(seq) PROVE ReceiveInv'
  <2> DEFINE now == NowMissing(seq)
  <2>1. /\ now \subseteq Sequence /\ Cardinality(now) <= MaxMissing
        /\ seq > expected => now \subseteq missing \cup Skipped(seq)
        /\ seq > expected => missing \subseteq now
        /\ ~(seq > expected) => now = missing \ {seq}
    BY MissingBounded
  <2>2. /\ active /\ missing' = now
        /\ givenUp' = IF seq > expected THEN givenUp \cup (Skipped(seq) \ now) ELSE givenUp
        /\ expected' = Larger(expected, seq + 1)
        /\ highest' = Larger(highest, seq)
        /\ contiguous' = NowContiguous(now, Larger(highest, seq))
        /\ reports' = Enqueue(reports, seq)
        /\ received' = received \cup {seq}
        /\ IF Asleep = {} THEN UNCHANGED taker ELSE \E t \in Asleep : Wake(t)
        /\ UNCHANGED <<active, closing, starts, first>>
    BY <1>4 DEF Store
  <2> HIDE DEF now
  <2>3. Larger(highest, seq) \in Sequence
    BY DEF Larger, ReceiveTypeOK
  <2>4. contiguous' \in Sequence
    BY <2>1, <2>2, <2>3, ContiguousTyped DEF ReceiveTypeOK
  <2>5. /\ reports' \in Seq(Sequence) /\ Len(reports') \in Nat
        /\ Len(reports') <= MaxSize /\ Len(reports') <= Len(reports) + 1
    <3>1. CASE Len(reports) >= MaxSize
      <4>1. /\ reports # <<>> /\ Tail(reports) \in Seq(Sequence)
            /\ Len(Tail(reports)) = Len(reports) - 1
        BY <1>0, <3>1
      <4> QED
        BY <1>0, <2>2, <3>1, <4>1 DEF Enqueue
    <3>2. CASE ~(Len(reports) >= MaxSize)
      BY <1>0, <2>2, <3>2 DEF Enqueue
    <3> QED
      BY <3>1, <3>2
  <2>6. reports' \in BoundedSeq(Sequence, MaxSize)
    BY <2>5, Bounded
  <2>7. /\ taker' \in [Taker -> {"idle", "asleep", "awake"}]
        /\ Asleep' # {} => Asleep # {} /\ Cardinality(Awake') = Cardinality(Awake) + 1
        /\ Asleep = {} => Asleep' = {}
    <3>1. CASE Asleep = {}
      BY <2>2, <3>1 DEF Asleep, ReceiveTypeOK
    <3>2. CASE Asleep # {}
      <4>1. PICK t \in Asleep : taker' = [taker EXCEPT ![t] = "awake"]
        BY <2>2, <3>2 DEF Wake
      <4>2. t \in Taker /\ taker[t] = "asleep"
        BY DEF Asleep
      <4> QED
        BY <3>2, <4>1, <4>2, TakerTurns
    <3> QED
      BY <3>1, <3>2
  <2>8. /\ expected' \in 0..(MaxSeq + 1) /\ expected' >= seq + 1 /\ expected' >= expected
        /\ expected' = IF seq >= expected THEN seq + 1 ELSE expected
    BY <2>2 DEF Larger, ReceiveTypeOK, Sequence
  <2>9. ReceiveTypeOK'
    <3>4. Skipped(seq) \subseteq Sequence
      BY DEF ReceiveTypeOK, Skipped, Sequence
    <3>1. givenUp' \subseteq Sequence /\ received' \subseteq Sequence
      BY <2>2, <3>4 DEF ReceiveTypeOK
    <3>2. /\ active' \in BOOLEAN /\ closing' \in BOOLEAN
          /\ starts' \in 0..MaxStarts /\ first' \in Sequence
      BY <2>2 DEF ReceiveTypeOK
    <3>3. /\ missing' \subseteq Sequence /\ Cardinality(missing') <= MaxMissing
          /\ highest' \in Sequence
      BY <2>1, <2>2, <2>3
    <3> QED
      BY <2>4, <2>6, <2>7, <2>8, <3>1, <3>2, <3>3 DEF ReceiveTypeOK
  <2>10. Caught'
    <3>1. missing' \subseteq 0..(expected' - 1)
      <4>1. missing' \subseteq missing \cup Skipped(seq)
        BY <2>1, <2>2
      <4>2. Skipped(seq) \subseteq 0..(expected' - 1) /\ missing \subseteq 0..(expected' - 1)
        BY <2>8 DEF Skipped, Caught, Sequence, ReceiveTypeOK
      <4> QED
        BY <4>1, <4>2
    <3>2. received' \subseteq 0..(expected' - 1)
      BY <2>2, <2>8 DEF Caught, Sequence, ReceiveTypeOK
    <3> QED
      BY <2>2, <3>1, <3>2 DEF Caught
  <2>11. GapsAreKnown'
    <3>1. CASE seq > expected
      <4>1. missing' \subseteq missing \cup (expected..(seq - 1)) /\ missing \subseteq missing'
        BY <2>1, <2>2, <3>1 DEF Skipped
      <4>2. givenUp' = givenUp \cup ((expected..(seq - 1)) \ missing')
        BY <2>2, <3>1 DEF Skipped
      <4>3. \A n \in missing' : n \notin received'
        BY <2>2, <3>1, <4>1 DEF GapsAreKnown, Caught, ReceiveTypeOK, Sequence
      <4>4. \A n \in first'..(expected' - 1) :
              n \in first..(expected - 1) \/ n \in expected..(seq - 1) \/ n = seq
        BY <2>2, <2>8, <3>1 DEF ReceiveTypeOK, Sequence
      <4> QED
        BY <2>2, <4>1, <4>2, <4>3, <4>4 DEF GapsAreKnown
    <3>2. CASE ~(seq > expected)
      <4>1. missing' = missing \ {seq} /\ givenUp' = givenUp
        BY <2>1, <2>2, <3>2
      <4>2. \A n \in first'..(expected' - 1) : n \in first..(expected - 1) \/ n = seq
        BY <2>2, <2>8, <3>2 DEF ReceiveTypeOK, Sequence
      <4> QED
        BY <2>2, <4>1, <4>2 DEF GapsAreKnown
    <3> QED
      BY <3>1, <3>2
  <2>12. NobodySleepsOn'
    <3>1. Asleep' # {} => Len(reports') <= Cardinality(Awake')
      BY <1>0, <2>5, <2>7 DEF NobodySleepsOn, Awake
    <3>2. active'
      BY <2>2
    <3> QED
      BY <3>1, <3>2 DEF NobodySleepsOn, Awake
  <2> QED
    BY <2>9, <2>10, <2>11, <2>12
<1>5. ASSUME NEW seq \in Sequence, ForgetExpired(seq) PROVE ReceiveInv'
  <2>1. Cardinality(missing \ {seq}) <= MaxMissing
    <3>3. IsFiniteSet(Sequence)
      BY FS_Interval DEF Sequence
    <3>1. IsFiniteSet(missing)
      BY <3>3, FS_Subset DEF ReceiveTypeOK
    <3>4. IsFiniteSet(missing \ {seq})
      BY <3>1, FS_RemoveElement
    <3>5. Cardinality(missing \ {seq}) \in Nat /\ Cardinality(missing) \in Nat
      BY <3>1, <3>4, FS_CardinalityType
    <3>2. /\ Cardinality(missing \ {seq}) \in Nat /\ Cardinality(missing) \in Nat
          /\ Cardinality(missing \ {seq}) <= Cardinality(missing)
      BY <3>1, <3>5, FS_RemoveElement
    <3> QED
      BY <3>2 DEF ReceiveTypeOK
  <2>2. ReceiveTypeOK'
    BY <1>5, <2>1 DEF ForgetExpired, ReceiveTypeOK
  <2>3. Caught' /\ GapsAreKnown'
    BY <1>5 DEF ForgetExpired, Caught, GapsAreKnown
  <2>4. NobodySleepsOn'
    BY <1>5 DEF ForgetExpired, NobodySleepsOn, Asleep
  <2> QED
    BY <2>2, <2>3, <2>4
<1>6. CASE Take
  <2>1. /\ reports' \in BoundedSeq(Sequence, MaxSize)
        /\ Len(reports') \in Nat /\ Len(reports') <= Len(reports)
    BY <1>6, TakesFrom DEF Take
  <2>2. ReceiveTypeOK'
    BY <1>6, <2>1 DEF Take, sequenceVars, ReceiveTypeOK
  <2>3. Caught' /\ GapsAreKnown'
    BY <1>6 DEF Take, sequenceVars, Caught, GapsAreKnown
  <2>4. NobodySleepsOn'
    BY <1>0, <1>6, <2>1 DEF Take, NobodySleepsOn, Asleep, Awake
  <2> QED
    BY <2>2, <2>3, <2>4
<1>7. ASSUME NEW t \in Taker, TakeWaits(t) \/ TakeLooksAgain(t) \/ TakeTimesOut(t)
      PROVE  ReceiveInv'
  <2>1. UNCHANGED <<active, closing, starts, sequenceVars>>
    BY <1>7 DEF TakeWaits, TakeLooksAgain, TakeTimesOut
  <2>2. Caught' /\ GapsAreKnown'
    BY <2>1 DEF sequenceVars, Caught, GapsAreKnown
  <2>3. reports' = reports \/ (reports # <<>> /\ reports' = Tail(reports))
    BY <1>7 DEF TakeWaits, TakeLooksAgain, TakeTimesOut
  <2>4. /\ reports' \in BoundedSeq(Sequence, MaxSize)
        /\ Len(reports') \in Nat /\ Len(reports') <= Len(reports)
        /\ reports # <<>> /\ reports' = Tail(reports) => Len(reports') = Len(reports) - 1
    BY <2>3, TakesFrom
  <2>5. CASE taker' = [taker EXCEPT ![t] = "asleep"]
    <3>1. reports' = <<>> /\ active
      BY <1>7, <2>5 DEF TakeWaits, TakeLooksAgain, TakeTimesOut, ReceiveTypeOK
    <3>2. taker' \in [Taker -> {"idle", "asleep", "awake"}] /\ Cardinality(Awake') \in Nat
      BY <1>0, <2>5, TakerTurns, FS_CardinalityType, FS_RemoveElement
    <3>3. ReceiveTypeOK'
      BY <2>1, <2>4, <3>2 DEF sequenceVars, ReceiveTypeOK
    <3>4. NobodySleepsOn'
      BY <2>1, <3>1, <3>2 DEF NobodySleepsOn, Awake
    <3> QED
      BY <2>2, <3>3, <3>4
  <2>6. CASE taker' = [taker EXCEPT ![t] = "idle"]
    <3>1. /\ taker' \in [Taker -> {"idle", "asleep", "awake"}] /\ Asleep' = Asleep \ {t}
          /\ Cardinality(Awake') = IF taker[t] = "awake" THEN Cardinality(Awake) - 1
                                                        ELSE Cardinality(Awake)
      BY <2>6, TakerTurns
    <3>2. ReceiveTypeOK'
      BY <2>1, <2>4, <3>1 DEF sequenceVars, ReceiveTypeOK
    <3>3. Asleep' # {} => Len(reports') <= Cardinality(Awake')
      <4>1. CASE taker[t] # "awake"
        BY <1>0, <2>4, <3>1, <4>1 DEF NobodySleepsOn, Awake
      <4>2. CASE taker[t] = "awake"
        <5>1. \/ reports # <<>> /\ reports' = Tail(reports)
              \/ reports = <<>> /\ reports' = <<>> /\ ~active
          BY <1>7, <2>6, <4>2 DEF TakeWaits, TakeLooksAgain, TakeTimesOut, ReceiveTypeOK
        <5>2. t \in Awake
          BY <4>2 DEF Awake
        <5>3. Cardinality(Awake) # 0
          BY <1>0, <5>2, FS_EmptySet
        <5> QED
          BY <1>0, <2>4, <3>1, <4>2, <5>1, <5>3 DEF NobodySleepsOn, Awake
      <4> QED
        BY <4>1, <4>2
    <3>4. NobodySleepsOn'
      BY <2>1, <3>1, <3>3 DEF NobodySleepsOn, Awake
    <3> QED
      BY <2>2, <3>2, <3>4
  <2> QED
    BY <1>7, <2>5, <2>6 DEF TakeWaits, TakeLooksAgain, TakeTimesOut
<1>8. CASE UNCHANGED receiveVars
  BY <1>8 DEF receiveVars, ReceiveTypeOK, Caught, GapsAreKnown, NobodySleepsOn, Asleep
<1> QED
  BY <1>1, <1>2, <1>3, <1>4, <1>5, <1>6, <1>7, <1>8 DEF ReceiveNext

\* The buffer of reports keeps account of every gap, and no thread sleeps on while a
\* report waits for it, however reports are lost, repeated or reordered (store,
\* take_timeout and deactivate of EndpointReceiveBuffer).
THEOREM ReceiverStaysSound == ReceiveSpec => [](ReceiveTypeOK /\ ReceiverIsSound)
<1>1. ReceiveInit => ReceiveInv
  <2> SUFFICES ASSUME ReceiveInit PROVE ReceiveInv
    OBVIOUS
  <2>1. missing = {} /\ Cardinality(missing) = 0
    <3>1. missing = {}
      BY DEF ReceiveInit
    <3> QED
      BY <3>1, FS_EmptySet
  <2>2. reports \in BoundedSeq(Sequence, MaxSize)
    <3>1. reports \in Seq(Sequence) /\ Len(reports) <= MaxSize /\ MaxSize \in Nat
      BY ReceiveAssumption DEF ReceiveInit
    <3> QED
      BY <3>1, Bounded
  <2>3. ReceiveTypeOK
    <3>4. active \in BOOLEAN /\ closing \in BOOLEAN
      BY DEF ReceiveInit
    <3>1. /\ expected \in 0..(MaxSeq + 1) /\ highest \in Sequence /\ contiguous \in Sequence
          /\ starts \in 0..MaxStarts /\ first \in Sequence
      BY ReceiveAssumption DEF ReceiveInit, Sequence
    <3>2. /\ taker \in [Taker -> {"idle", "asleep", "awake"}]
          /\ received \subseteq Sequence /\ givenUp \subseteq Sequence
      BY DEF ReceiveInit
    <3>3. missing \subseteq Sequence /\ Cardinality(missing) <= MaxMissing
      BY <2>1, ReceiveAssumption
    <3> QED
      BY <2>2, <3>1, <3>2, <3>3, <3>4 DEF ReceiveTypeOK
  <2>4. Caught /\ GapsAreKnown /\ Asleep = {}
    BY DEF ReceiveInit, Caught, GapsAreKnown, Asleep
  <2> QED
    BY <2>3, <2>4 DEF ReceiveInv, ReceiverIsSound, NobodySleepsOn
<1>2. ReceiveInv /\ [ReceiveNext]_receiveVars => ReceiveInv'
  BY ReceiveStep
<1>3. ReceiveInv => ReceiveTypeOK /\ ReceiverIsSound
  BY DEF ReceiveInv
<1> QED
  BY <1>1, <1>2, <1>3, PTL DEF ReceiveSpec

-----------------------------------------------------------------------------
(* The attaching of devices: every handle in the client's hands, entered in *)
(* the map or about to be, is bound to one unit (Bound), and what the       *)
(* server holds, what the notices say, and what the reconciliation has      *)
(* picked agree with that unit.                                             *)

\* What a notice on its way, or in hand, says is dead.
Told == GripsIn(wire) \cup GripsIn(feed) \cup mainTask.grips

\* Handle g stands for unit u.
Bound(g, u) ==
  /\ g \in given
  /\ u \in plugged \cup gone
  /\ g \in DOMAIN granted => granted[g] = u
  /\ g \in Told => u \in gone
  /\ g \in recon.todo => u \in gone \/ g \in unlisted
  /\ recon.pc = "compare" => u \in recon.listed \cup gone \/ g \in unlisted
  /\ g \in DOMAIN granted \cup Told \cup missed

Entering(t) == t.pc = "enter" => Bound(t.grip, t.unit) /\ t.grip \notin DOMAIN virtual

Quiet(notices) == \A i \in DOMAIN notices : notices[i].kind = "arrived" => notices[i].grips = {}

Links ==
  /\ Told \cup recon.todo \subseteq given
  /\ Quiet(wire) /\ Quiet(feed)
  /\ mainTask.pc \notin {"remove", "forget", "jammed"} => mainTask.grips = {}
  /\ \A g \in DOMAIN virtual : Bound(g, virtual[g])
  /\ Entering(mainTask)
  /\ Entering(menu)
  /\ mainTask.pc \in {"enter", "forget"} /\ menu.pc = "enter" => mainTask.grip # menu.grip

\* What a task forgets is what it was told to detach.
InHand == mainTask.pc = "forget" => mainTask.grip \in mainTask.grips

AutoInv == AutoTypeOK /\ Links /\ InHand

-----------------------------------------------------------------------------
(* Notices in a sequence *)

LEMMA GripsTyped ==
  ASSUME NEW s \in Seq(Notice)
  PROVE  GripsIn(s) \subseteq Grip
<1>1. \A i \in DOMAIN s : s[i] \in Notice
  OBVIOUS
<1>2. \A i \in DOMAIN s : s[i].grips \subseteq Grip
  BY <1>1 DEF Notice
<1> QED
  BY <1>2 DEF GripsIn

LEMMA GripsOfNone == GripsIn(<<>>) = {} /\ Quiet(<<>>) /\ <<>> \in Seq(Notice)
<1>1. DOMAIN <<>> = {}
  OBVIOUS
<1>2. <<>> \in Seq(Notice)
  OBVIOUS
<1> QED
  BY <1>1, <1>2 DEF GripsIn, Quiet

LEMMA GripsAppend ==
  ASSUME NEW s \in Seq(Notice), NEW notice \in Notice
  PROVE  /\ Append(s, notice) \in Seq(Notice)
         /\ GripsIn(Append(s, notice)) = GripsIn(s) \cup notice.grips
         /\ Quiet(s) /\ (notice.kind = "arrived" => notice.grips = {}) => Quiet(Append(s, notice))
<1>1. DOMAIN Append(s, notice) = DOMAIN s \cup {Len(s) + 1}
  OBVIOUS
<1>2. /\ \A i \in DOMAIN s : Append(s, notice)[i] = s[i]
      /\ Append(s, notice)[Len(s) + 1] = notice
  OBVIOUS
<1>3. Append(s, notice) \in Seq(Notice)
  OBVIOUS
<1>4. GripsIn(Append(s, notice)) = GripsIn(s) \cup notice.grips
  BY <1>1, <1>2 DEF GripsIn
<1>5. Quiet(s) /\ (notice.kind = "arrived" => notice.grips = {}) => Quiet(Append(s, notice))
  BY <1>1, <1>2 DEF Quiet
<1> QED
  BY <1>3, <1>4, <1>5

LEMMA GripsTail ==
  ASSUME NEW s \in Seq(Notice), s # <<>>
  PROVE  /\ Head(s) \in Notice /\ Tail(s) \in Seq(Notice) /\ Len(Tail(s)) = Len(s) - 1
         /\ GripsIn(s) = GripsIn(Tail(s)) \cup Head(s).grips
         /\ Quiet(s) => /\ Quiet(Tail(s))
                        /\ Head(s).kind = "arrived" => Head(s).grips = {}
<1>1. /\ Head(s) \in Notice /\ Tail(s) \in Seq(Notice) /\ Len(Tail(s)) = Len(s) - 1
      /\ Head(s) = s[1] /\ 1 \in DOMAIN s
  OBVIOUS
<1>2. \A i \in DOMAIN Tail(s) : i + 1 \in DOMAIN s /\ Tail(s)[i] = s[i + 1]
  OBVIOUS
<1>3. \A i \in DOMAIN s : i = 1 \/ (i - 1 \in DOMAIN Tail(s) /\ s[i] = Tail(s)[i - 1])
  OBVIOUS
<1>4. GripsIn(s) \subseteq GripsIn(Tail(s)) \cup Head(s).grips
  BY <1>1, <1>3 DEF GripsIn
<1>5. GripsIn(Tail(s)) \cup Head(s).grips \subseteq GripsIn(s)
  BY <1>1, <1>2 DEF GripsIn
<1>6. Quiet(s) => Quiet(Tail(s)) /\ (Head(s).kind = "arrived" => Head(s).grips = {})
  BY <1>1, <1>2 DEF Quiet
<1> QED
  BY <1>1, <1>4, <1>5, <1>6

-----------------------------------------------------------------------------
(* Types *)

LEMMA NotifyTyped ==
  ASSUME AutoTypeOK, NEW notice \in Notice, Notify(notice)
  PROVE  wire' \in Seq(Notice) /\ missed' \subseteq Grip
<1>1. wire \in Seq(Notice) /\ missed \subseteq Grip /\ notice.grips \subseteq Grip
  BY DEF AutoTypeOK, Notice
<1> QED
  BY <1>1, GripsAppend DEF Notify

LEMMA CutOffTyped ==
  ASSUME AutoTypeOK, CutOff
  PROVE  /\ wire' \in Seq(Notice) /\ missed' \subseteq Grip
         /\ DOMAIN granted' \subseteq DOMAIN granted
         /\ \A g \in DOMAIN granted' : granted'[g] = granted[g]
         /\ DOMAIN granted \subseteq DOMAIN granted' \cup missed'
         /\ wire' = <<>> /\ missed \cup GripsIn(wire) \subseteq missed'
         /\ UNCHANGED <<plugged, gone, astray, given, unlisted>>
<1> DEFINE held == DOMAIN granted \ astray
<1>1. wire \in Seq(Notice) /\ missed \subseteq Grip /\ DOMAIN granted \subseteq Grip
  BY DEF AutoTypeOK
<1>2. GripsIn(wire) \subseteq Grip
  BY <1>1, GripsTyped
<1>3. wire' = <<>> /\ granted' = Less(granted, held) /\ missed' = missed \cup held \cup GripsIn(wire)
  BY DEF CutOff
<1>4. DOMAIN granted' = DOMAIN granted \ held /\ \A g \in DOMAIN granted' : granted'[g] = granted[g]
  BY <1>3 DEF Less
<1> QED
  BY <1>1, <1>2, <1>3, <1>4, GripsOfNone DEF CutOff

LEMMA TypeStep ==
  ASSUME AutoInv, [AutoNext]_autoVars
  PROVE  AutoTypeOK'
<1>1. ASSUME NEW u \in Unit, PlugIn(u)
      PROVE  AutoTypeOK'
  <2>1. Arrived(u) \in Notice
    BY DEF Arrived, Notice
  <2>2. wire' \in Seq(Notice) /\ missed' \subseteq Grip
    BY <1>1, <2>1, NotifyTyped DEF PlugIn, AutoInv
  <2> QED
    BY <2>2, <1>1 DEF PlugIn, AutoInv, AutoTypeOK, grants, clientTasks
<1>2. ASSUME NEW u \in Unit, Unplug(u)
      PROVE  AutoTypeOK'
  <2>1. Departed(u, GripsOf(u)) \in Notice
    BY DEF Departed, Notice, GripsOf, AutoInv, AutoTypeOK
  <2>2. wire' \in Seq(Notice) /\ missed' \subseteq Grip
    BY <1>2, <2>1, NotifyTyped DEF Unplug, AutoInv
  <2>3. /\ DOMAIN granted' \subseteq given'
        /\ \A g \in DOMAIN granted' : granted'[g] \in plugged'
    BY <1>2 DEF Unplug, GripsOf, Less, AutoInv, AutoTypeOK
  <2> QED
    BY <2>2, <2>3, <1>2 DEF Unplug, AutoInv, AutoTypeOK, clientTasks
<1>3. ASSUME NEW u \in Unit, AttachNext(u)
      PROVE  AutoTypeOK'
  <2>1. mainTask' \in MainTask
    BY <1>3, AutoAssumption DEF AttachNext, AutoInv, AutoTypeOK, serverSide, grants, clientTasks, MainTask
  <2> QED
    BY <2>1, <1>3, AutoAssumption DEF AttachNext, AutoInv, AutoTypeOK, serverSide, grants, clientTasks
<1>4. ASSUME NEW g \in Grip, CleanUpDetaches(g)
      PROVE  AutoTypeOK'
  <2>1. toDetach' \subseteq Grip
    BY <1>4, AutoAssumption DEF CleanUpDetaches, Staying, AutoInv, AutoTypeOK
  <2> QED
    BY <2>1, <1>4 DEF CleanUpDetaches, Detaches, Less, AutoInv, AutoTypeOK
<1>5. ASSUME NEW g \in Grip, UserDetaches(g)
      PROVE  AutoTypeOK'
  <2>1. leave' \in Leaving
    BY <1>5, AutoAssumption DEF UserDetaches, AutoInv, AutoTypeOK, serverSide, grants, clientTasks, Detaches, Less, Leaving
  <2> QED
    BY <2>1, <1>5, AutoAssumption DEF UserDetaches, AutoInv, AutoTypeOK, serverSide, grants, clientTasks, Detaches, Less
<1>6. ASSUME NEW u \in Unit, NEW g \in Grip, UserAttaches(u, g)
      PROVE  AutoTypeOK'
  <2>1. menu' \in Menu
    BY <1>6, AutoAssumption DEF UserAttaches, AutoInv, AutoTypeOK, serverSide, grants, clientTasks, Grant, With, Menu
  <2> QED
    BY <2>1, <1>6, AutoAssumption DEF UserAttaches, AutoInv, AutoTypeOK, serverSide, grants, clientTasks, Grant, With
<1>7. ASSUME NEW g \in Grip, ReconDetach(g)
      PROVE  AutoTypeOK'
  <2>1. recon' \in Reconciliation
    BY <1>7 DEF ReconDetach, AutoInv, AutoTypeOK, Reconciliation
  <2> QED
    BY <2>1, <1>7 DEF ReconDetach, Detaches, AutoInv, AutoTypeOK, Less
<1>8. CASE ReadNotice
  <2>1. /\ wire \in Seq(Notice) /\ wire # <<>> /\ feed \in Seq(Notice) /\ Len(feed) <= FeedCap
        /\ missed \subseteq Grip
    BY <1>8 DEF ReadNotice, AutoInv, AutoTypeOK
  <2>2. wire' \in Seq(Notice) /\ Head(wire) \in Notice /\ Head(wire).grips \subseteq Grip
    BY <1>8, <2>1, GripsTail DEF ReadNotice, Notice
  <2>3. feed' \in Seq(Notice) /\ Len(feed') <= FeedCap /\ missed' \subseteq Grip
    <3>1. CASE ~hears
      BY <3>1, <1>8, <2>1, <2>2 DEF ReadNotice
    <3>2. CASE hears /\ Len(feed) < FeedCap
      <4>1. feed' = Append(feed, Head(wire)) /\ missed' = missed
        BY <3>2, <1>8 DEF ReadNotice
      <4>2. Len(feed') = Len(feed) + 1
        BY <4>1, <2>1, <2>2
      <4> QED
        BY <3>2, <4>1, <4>2, <2>1, <2>2, GripsAppend, AutoAssumption
    <3>3. CASE hears /\ ~(Len(feed) < FeedCap)
      <4>1. feed # <<>>
        BY <3>3, AutoAssumption
      <4>2. /\ Tail(feed) \in Seq(Notice) /\ Len(Tail(feed)) = Len(feed) - 1
            /\ Head(feed) \in Notice /\ Head(feed).grips \subseteq Grip
        BY <4>1, <2>1, GripsTail DEF Notice
      <4>3. feed' = Append(Tail(feed), Head(wire)) /\ missed' = missed \cup Head(feed).grips
        BY <3>3, <1>8 DEF ReadNotice
      <4>4. Len(feed') = Len(Tail(feed)) + 1
        BY <4>2, <4>3
      <4> QED
        BY <2>1, <2>2, <4>2, <4>3, <4>4, GripsAppend, AutoAssumption
    <3> QED
      BY <3>1, <3>2, <3>3, <2>1
  <2> QED
    BY <2>2, <2>3, <1>8 DEF ReadNotice, AutoInv, AutoTypeOK, serverSide, grants, clientTasks
<1>9. CASE Breaks
  BY <1>9, CutOffTyped DEF Breaks, AutoInv, AutoTypeOK, clientTasks
<1>10. CASE Reopens
  BY <1>10, AutoAssumption DEF Reopens, AutoInv, AutoTypeOK, serverSide, grants, clientTasks
<1>11. CASE ListDevices
  <2>1. PICK units \in {{}} \cup (IF lane = "up" THEN {plugged} ELSE {}) :
          mainTask' = [mainTask EXCEPT !.pc = "each", !.todo = units \cap Wanted]
    BY <1>11 DEF ListDevices
  <2>2. units \cap Wanted \in SUBSET Unit
    BY AutoAssumption
  <2>3. mainTask' \in MainTask
    BY <2>1, <2>2 DEF MainTask, AutoInv, AutoTypeOK
  <2> QED
    BY <2>3, <1>11 DEF ListDevices, AutoInv, AutoTypeOK, serverSide, grants
<1>12. CASE AttachAtServer
  <2>1. mainTask' \in MainTask
    <3>1. Onward \in MainTask
      BY DEF Onward, MainTask, AutoInv, AutoTypeOK
    <3>2. \A g \in Grip : [mainTask EXCEPT !.pc = "enter", !.grip = g] \in MainTask
      BY DEF MainTask, AutoInv, AutoTypeOK
    <3> QED
      BY <1>12, <3>1, <3>2 DEF AttachAtServer
  <2> QED
    BY <2>1, <1>12, AutoAssumption DEF AttachAtServer, AutoInv, AutoTypeOK, serverSide, grants, clientTasks, Grant, With, Onward
<1>13. CASE EnterVirtual
  <2>1. mainTask' \in MainTask
    BY <1>13 DEF EnterVirtual, Onward, MainTask, AutoInv, AutoTypeOK
  <2>2. mainTask.grip \in given /\ mainTask.unit \in Unit
    BY <1>13 DEF EnterVirtual, AutoInv, AutoTypeOK, Links, Entering, Bound
  <2>3. /\ DOMAIN virtual' \subseteq given /\ \A g \in DOMAIN virtual' : virtual'[g] \in Unit
        /\ previous' \subseteq Unit
    BY <1>13, <2>2 DEF EnterVirtual, With, AutoInv, AutoTypeOK
  <2> QED
    BY <2>1, <2>3, <1>13 DEF EnterVirtual, AutoInv, AutoTypeOK, serverSide, grants
<1>14. CASE Subscribe
  <2>1. mainTask' \in MainTask
    BY <1>14, AutoAssumption DEF Subscribe, AutoInv, AutoTypeOK, serverSide, grants, clientTasks, MainTask
  <2> QED
    BY <2>1, <1>14, AutoAssumption DEF Subscribe, AutoInv, AutoTypeOK, serverSide, grants, clientTasks
<1>15. CASE TakeArrived
  <2>1. feed \in Seq(Notice) /\ Len(feed) <= FeedCap /\ feed # <<>> /\ feed' = Tail(feed)
    BY <1>15 DEF TakeArrived, AutoInv, AutoTypeOK
  <2>2. feed' \in Seq(Notice) /\ Len(feed') <= FeedCap /\ Head(feed) \in Notice
    BY <2>1, GripsTail, AutoAssumption
  <2>3. Head(feed).unit \in Unit
    BY <2>2 DEF Notice
  <2>4. mainTask' \in MainTask
    BY <1>15, <2>3 DEF TakeArrived, MainTask, AutoInv, AutoTypeOK
  <2> QED
    BY <2>2, <2>4, <1>15 DEF TakeArrived, AutoInv, AutoTypeOK, serverSide, grants
<1>16. CASE TakeRemoved
  <2>1. feed \in Seq(Notice) /\ Len(feed) <= FeedCap /\ feed # <<>> /\ feed' = Tail(feed)
    BY <1>16 DEF TakeRemoved, AutoInv, AutoTypeOK
  <2>2. feed' \in Seq(Notice) /\ Len(feed') <= FeedCap /\ Head(feed) \in Notice
    BY <2>1, GripsTail, AutoAssumption
  <2>3. Head(feed).unit \in Unit /\ Head(feed).grips \in SUBSET Grip
    BY <2>2 DEF Notice
  <2>4. mainTask' \in MainTask
    BY <1>16, <2>3 DEF TakeRemoved, MainTask, AutoInv, AutoTypeOK
  <2>5. previous' \subseteq Unit
    BY <1>16, <2>3 DEF TakeRemoved, AutoInv, AutoTypeOK
  <2> QED
    BY <2>2, <2>4, <2>5, <1>16 DEF TakeRemoved, AutoInv, AutoTypeOK, serverSide, grants
<1>17. ASSUME NEW g \in Grip, ForceDetach(g)
      PROVE  AutoTypeOK'
  <2>1. mainTask' \in MainTask
    BY <1>17 DEF ForceDetach, MainTask, AutoInv, AutoTypeOK
  <2> QED
    BY <2>1, <1>17 DEF ForceDetach, AutoInv, AutoTypeOK, serverSide, grants
<1>30. CASE Forget
  <2>1. mainTask' \in MainTask
    BY <1>30 DEF Forget, MainTask, AutoInv, AutoTypeOK
  <2> QED
    BY <2>1, <1>30 DEF Forget, Less, AutoInv, AutoTypeOK, serverSide, grants
<1>31. CASE RemovalEnds
  <2>1. mainTask' \in MainTask
    BY <1>31 DEF RemovalEnds, MainTask, AutoInv, AutoTypeOK
  <2> QED
    BY <2>1, <1>31 DEF RemovalEnds, AutoInv, AutoTypeOK, serverSide, grants
<1>32. ASSUME NEW g \in Grip, UserForceDetaches(g)
      PROVE  AutoTypeOK'
  <2>1. leave' \in Leaving
    BY <1>32 DEF UserForceDetaches, Leaving, AutoInv, AutoTypeOK
  <2> QED
    BY <2>1, <1>32 DEF UserForceDetaches, Less, AutoInv, AutoTypeOK, serverSide, grants
<1>18. CASE ChannelCloses
  <2>1. mainTask' \in MainTask
    BY <1>18, AutoAssumption DEF ChannelCloses, AutoInv, AutoTypeOK, serverSide, grants, clientTasks, MainTask
  <2> QED
    BY <2>1, <1>18, AutoAssumption DEF ChannelCloses, AutoInv, AutoTypeOK, serverSide, grants, clientTasks
<1>19. CASE CleanUpBegins
  BY <1>19, AutoAssumption DEF CleanUpBegins, AutoInv, AutoTypeOK, serverSide, grants, clientTasks, Staying
<1>20. CASE CleanUpDisconnects
  BY <1>20, CutOffTyped DEF CleanUpDisconnects, Closes, AutoInv, AutoTypeOK, clientTasks
<1>21. CASE UserConnects
  BY <1>21, AutoAssumption DEF UserConnects, AutoInv, AutoTypeOK, serverSide, grants, clientTasks
<1>22. CASE UserLeaves
  <2>1. leave' \in Leaving
    <3>1. DOMAIN virtual \in SUBSET Grip /\ leave \in Leaving
      BY DEF AutoInv, AutoTypeOK
    <3>2. ASSUME NEW S \in SUBSET Grip, NEW pc \in {"detach", "disconnect"}
          PROVE  [leave EXCEPT !.pc = pc, !.todo = S] \in Leaving
      BY <3>1 DEF Leaving
    <3>3. CASE leave' = [leave EXCEPT !.pc = "disconnect", !.todo = DOMAIN virtual]
      BY <3>1, <3>2, <3>3
    <3>4. ASSUME NEW g \in DOMAIN virtual, leave' = [leave EXCEPT !.pc = "detach", !.todo = {g}]
          PROVE  leave' \in Leaving
      <4>1. {g} \in SUBSET Grip
        BY <3>1
      <4> QED
        BY <3>2, <3>4, <4>1
    <3> QED
      BY <1>22, <3>3, <3>4 DEF UserLeaves
  <2> QED
    BY <2>1, <1>22, AutoAssumption DEF UserLeaves, AutoInv, AutoTypeOK, serverSide, grants, clientTasks
<1>23. CASE UserHasLeft
  <2>1. leave' \in Leaving
    BY <1>23 DEF UserHasLeft, Leaving, AutoInv, AutoTypeOK
  <2>2. CASE leave.pc = "disconnect" /\ lane # "closed"
    BY <2>1, <2>2, <1>23, CutOffTyped DEF UserHasLeft, Closes, AutoInv, AutoTypeOK
  <2>3. CASE ~(leave.pc = "disconnect" /\ lane # "closed")
    BY <2>1, <2>3, <1>23 DEF UserHasLeft, AutoInv, AutoTypeOK, serverSide, grants
  <2> QED
    BY <2>2, <2>3
<1>24. CASE UserEnters
  <2>1. menu' \in Menu
    BY <1>24 DEF UserEnters, Idle, Menu
  <2>2. menu.grip \in given /\ menu.unit \in Unit
    BY <1>24 DEF UserEnters, AutoInv, AutoTypeOK, Links, Entering, Bound
  <2>3. DOMAIN virtual' \subseteq given /\ \A g \in DOMAIN virtual' : virtual'[g] \in Unit
    BY <1>24, <2>2 DEF UserEnters, With, AutoInv, AutoTypeOK
  <2> QED
    BY <2>1, <2>3, <1>24 DEF UserEnters, AutoInv, AutoTypeOK, serverSide, grants
<1>25. CASE MonitorConnects
  <2>1. recon' \in Reconciliation
    BY <1>25, AutoAssumption DEF MonitorConnects, AutoInv, AutoTypeOK, serverSide, grants, clientTasks, Reconciliation
  <2> QED
    BY <2>1, <1>25, AutoAssumption DEF MonitorConnects, AutoInv, AutoTypeOK, serverSide, grants, clientTasks
<1>26. CASE ReconList
  <2>1. recon' \in Reconciliation
    BY <1>26, AutoAssumption DEF ReconList, AutoInv, AutoTypeOK, serverSide, grants, clientTasks, Reconciliation
  <2> QED
    BY <2>1, <1>26, AutoAssumption DEF ReconList, AutoInv, AutoTypeOK, serverSide, grants, clientTasks
<1>27. CASE ReconCompare
  <2>1. recon' \in Reconciliation
    BY <1>27, AutoAssumption DEF ReconCompare, AutoInv, AutoTypeOK, serverSide, grants, clientTasks, Reconciliation
  <2> QED
    BY <2>1, <1>27, AutoAssumption DEF ReconCompare, AutoInv, AutoTypeOK, serverSide, grants, clientTasks
<1>28. CASE MonitorEnters
  <2>1. recon' \in Reconciliation
    BY <1>28, AutoAssumption DEF MonitorEnters, AutoInv, AutoTypeOK, serverSide, grants, clientTasks, Reconciliation
  <2> QED
    BY <2>1, <1>28, AutoAssumption DEF MonitorEnters, AutoInv, AutoTypeOK, serverSide, grants, clientTasks
<1>33. ASSUME NEW g \in Grip, StrayBreaks(g)
      PROVE  AutoTypeOK'
  BY <1>33 DEF StrayBreaks, Less, AutoInv, AutoTypeOK, clientTasks
<1>29. CASE UNCHANGED autoVars
  BY <1>29 DEF autoVars, AutoInv, AutoTypeOK
<1> QED
  BY <1>1, <1>2, <1>3, <1>4, <1>5, <1>6, <1>7, <1>8, <1>9, <1>10, <1>11, <1>12, <1>13, <1>14, <1>15, <1>16,
     <1>17, <1>18, <1>19, <1>20, <1>21, <1>22, <1>23, <1>24, <1>25, <1>26, <1>27, <1>28, <1>29,
     <1>30, <1>31, <1>32, <1>33
  DEF AutoNext, MainStep

-----------------------------------------------------------------------------
(* What the handles stand for *)

\* A connection that is lost makes what the server held, and what was on its way,
\* unknown to the client, and changes nothing else.
LEMMA CutOffLinks ==
  ASSUME AutoInv, CutOff, UNCHANGED <<feed, virtual, mainTask, menu, recon>>
  PROVE  Links'
<1>1. /\ DOMAIN granted' \subseteq DOMAIN granted
      /\ \A g \in DOMAIN granted' : granted'[g] = granted[g]
      /\ DOMAIN granted \subseteq DOMAIN granted' \cup missed'
      /\ wire' = <<>> /\ missed \cup GripsIn(wire) \subseteq missed'
      /\ UNCHANGED <<plugged, gone, given, unlisted>>
  BY CutOffTyped DEF AutoInv
<1>2. GripsIn(wire') = {} /\ Quiet(wire')
  BY <1>1, GripsOfNone
<1>3. Told' \subseteq Told /\ Told \subseteq Told' \cup missed'
  BY <1>1, <1>2 DEF Told
<1>4. \A g, w : Bound(g, w) => Bound(g, w)'
  BY <1>1, <1>3 DEF Bound
<1> QED
  BY <1>1, <1>2, <1>3, <1>4 DEF AutoInv, Links, Entering

\* A handle that the server closes, and tells nobody of, leaves the others as they are.
LEMMA ClosedLinks ==
  ASSUME AutoInv, NEW g, granted' = Less(granted, {g}), missed' = missed \cup {g},
         UNCHANGED <<plugged, gone, given, unlisted, wire, feed, virtual, mainTask, menu, recon>>
  PROVE  Links'
<1>1. /\ DOMAIN granted' = DOMAIN granted \ {g}
      /\ \A x \in DOMAIN granted' : granted'[x] = granted[x]
  BY DEF Less
<1>2. Told' = Told
  BY DEF Told
<1>3. \A x, w : Bound(x, w) => Bound(x, w)'
  BY <1>1, <1>2 DEF Bound
<1> QED
  BY <1>2, <1>3 DEF AutoInv, Links, Entering

\* A handle the server has just given out is bound to its unit, and to no other.
LEMMA FreshIsBound ==
  ASSUME AutoInv, NEW u, NEW g \in Grip, Grant(u, g), Told' = Told,
         UNCHANGED <<plugged, gone, missed, recon>>
  PROVE  /\ Bound(g, u)' /\ given' = given \cup {g}
         /\ g \notin given /\ g \notin DOMAIN virtual
         /\ \A x, w : Bound(x, w) => Bound(x, w)'
<1>1. /\ g \notin given /\ given' = given \cup {g} /\ u \in plugged
      /\ unlisted \subseteq unlisted' /\ (recon.pc = "compare" => g \in unlisted')
      /\ Told \cup recon.todo \subseteq given /\ DOMAIN virtual \subseteq given
  BY DEF Grant, AutoInv, AutoTypeOK, Links
<1>2. /\ DOMAIN granted' = DOMAIN granted \cup {g} /\ granted'[g] = u
      /\ \A x \in DOMAIN granted : x # g => granted'[x] = granted[x]
  BY DEF Grant, With
<1> QED
  BY <1>1, <1>2 DEF Bound

LEMMA LinksStep ==
  ASSUME AutoInv, [AutoNext]_autoVars
  PROVE  Links'
<1>1. ASSUME NEW u \in Unit, PlugIn(u)
      PROVE  Links'
  <2>1. Arrived(u) \in Notice /\ Arrived(u).grips = {} /\ Arrived(u).kind = "arrived"
    BY DEF Arrived, Notice
  <2>2. Told' = Told /\ missed' = missed /\ Quiet(wire')
    <3>1. wire \in Seq(Notice) /\ Quiet(wire) /\ Notify(Arrived(u))
      BY <1>1 DEF PlugIn, AutoInv, AutoTypeOK, Links
    <3>2. CASE wire' = Append(wire, Arrived(u)) /\ UNCHANGED missed
      <4>1. GripsIn(wire') = GripsIn(wire) /\ Quiet(wire')
        BY <2>1, <3>1, <3>2, GripsAppend
      <4> QED
        BY <4>1, <3>2, <1>1 DEF PlugIn, Told, clientTasks
    <3>3. CASE missed' = missed \cup Arrived(u).grips /\ UNCHANGED wire
      BY <2>1, <3>1, <3>3, <1>1 DEF PlugIn, Told, clientTasks
    <3> QED
      BY <3>1, <3>2, <3>3 DEF Notify
  <2> QED
    BY <2>2, <1>1 DEF PlugIn, grants, clientTasks, AutoInv, Links, Bound, Entering
<1>2. ASSUME NEW u \in Unit, Unplug(u)
      PROVE  Links'
  <2> DEFINE notice == Departed(u, GripsOf(u))
  <2>1. notice \in Notice /\ notice.grips = GripsOf(u) /\ notice.kind = "removed"
    BY DEF Departed, Notice, GripsOf, AutoInv, AutoTypeOK
  <2>2. /\ Quiet(wire')
        /\ GripsIn(wire') \subseteq GripsIn(wire) \cup GripsOf(u) /\ GripsIn(wire) \subseteq GripsIn(wire')
        /\ GripsOf(u) \subseteq GripsIn(wire') \cup missed' /\ missed \subseteq missed'
    <3>1. wire \in Seq(Notice) /\ Quiet(wire) /\ Notify(notice)
      BY <1>2 DEF Unplug, AutoInv, AutoTypeOK, Links
    <3>2. CASE wire' = Append(wire, notice) /\ UNCHANGED missed
      <4>1. GripsIn(wire') = GripsIn(wire) \cup notice.grips /\ Quiet(wire')
        BY <2>1, <3>1, <3>2, GripsAppend
      <4> QED
        BY <2>1, <3>2, <4>1
    <3>3. CASE missed' = missed \cup notice.grips /\ UNCHANGED wire
      BY <2>1, <3>1, <3>3
    <3> QED
      BY <3>1, <3>2, <3>3 DEF Notify
  <2>3. /\ Told' \subseteq Told \cup GripsOf(u) /\ Told \subseteq Told'
        /\ GripsOf(u) \subseteq Told' \cup missed'
    BY <2>2, <1>2 DEF Unplug, Told, clientTasks
  <2>4. /\ plugged' \cup gone' = plugged \cup gone /\ u \in gone' /\ gone \subseteq gone'
        /\ DOMAIN granted' = DOMAIN granted \ GripsOf(u)
        /\ \A g \in DOMAIN granted' : granted'[g] = granted[g]
        /\ GripsOf(u) \subseteq given
        /\ UNCHANGED <<given, unlisted, virtual, mainTask, menu, recon, lane, feed>>
    BY <1>2 DEF Unplug, clientTasks, Less, GripsOf, AutoInv, AutoTypeOK
  <2>5. \A g, w : Bound(g, w) => Bound(g, w)'
    BY <2>2, <2>3, <2>4 DEF Bound, GripsOf
  <2> QED
    BY <2>2, <2>3, <2>4, <2>5 DEF AutoInv, Links, Entering
<1>3. ASSUME NEW u \in Unit, AttachNext(u)
      PROVE  Links'
  <2>1. mainTask'.grips = mainTask.grips /\ mainTask'.pc = "attach" /\ mainTask.grips = {}
    BY <1>3 DEF AttachNext, MainTask, AutoInv, AutoTypeOK, Links
  <2>2. Told' = Told
    BY <2>1, <1>3 DEF AttachNext, Told
  <2> QED
    BY <2>1, <2>2, <1>3 DEF AttachNext, serverSide, grants, AutoInv, Links, Bound, Entering
<1>4. ASSUME NEW g \in Grip, CleanUpDetaches(g)
      PROVE  Links'
  <2>1. Told' = Told
    BY <1>4 DEF CleanUpDetaches, Detaches, Less, Told
  <2> QED
    BY <2>1, <1>4 DEF CleanUpDetaches, Detaches, Less, AutoInv, AutoTypeOK, Links, Bound, Entering
<1>5. ASSUME NEW g \in Grip, UserDetaches(g)
      PROVE  Links'
  <2>1. Told' = Told
    BY <1>5 DEF UserDetaches, Detaches, Less, Told
  <2> QED
    BY <2>1, <1>5 DEF UserDetaches, Detaches, Less, AutoInv, AutoTypeOK, Links, Bound, Entering
<1>6. ASSUME NEW u \in Unit, NEW g \in Grip, UserAttaches(u, g)
      PROVE  Links'
  <2>1. Told' = Told
    BY <1>6 DEF UserAttaches, Told
  <2>2. UNCHANGED <<plugged, gone, wire, feed, lane, virtual, mainTask, recon, missed>>
    BY <1>6 DEF UserAttaches
  <2>3. /\ Bound(g, u)' /\ given' = given \cup {g}
        /\ g \notin given /\ g \notin DOMAIN virtual
        /\ \A x, w : Bound(x, w) => Bound(x, w)'
    BY <1>6, <2>1, <2>2, FreshIsBound DEF UserAttaches
  <2>4. menu'.grip = g /\ menu'.unit = u
    BY <1>6 DEF UserAttaches
  <2>5. mainTask.pc \in {"enter", "forget"} => mainTask.grip \in given
    BY DEF AutoInv, InHand, Links, Entering, Bound, Told
  <2> QED
    BY <2>1, <2>2, <2>3, <2>4, <2>5 DEF AutoInv, Links, Entering
<1>7. ASSUME NEW g \in Grip, ReconDetach(g)
      PROVE  Links'
  <2>1. recon'.pc = "detach" /\ recon.pc = "detach" /\ recon'.todo = recon.todo \ {g}
    BY <1>7 DEF ReconDetach, Reconciliation, AutoInv, AutoTypeOK
  <2>2. DOMAIN virtual' \subseteq DOMAIN virtual /\ \A x \in DOMAIN virtual' : virtual'[x] = virtual[x]
    BY <1>7 DEF ReconDetach, Detaches, Less
  <2>3. Told' = Told /\ UNCHANGED <<plugged, gone, given, missed, unlisted>>
    BY <1>7 DEF ReconDetach, Told
  <2>4. CASE granted' = granted
    <3>1. \A x, w : Bound(x, w) => Bound(x, w)'
      BY <2>1, <2>3, <2>4 DEF Bound
    <3> QED
      BY <2>1, <2>2, <2>3, <3>1, <1>7 DEF ReconDetach, AutoInv, Links, Entering
  <2>5. CASE granted' = Less(granted, {g}) /\ g \in DOMAIN virtual
    <3>1. /\ DOMAIN granted' = DOMAIN granted \ {g}
          /\ \A x \in DOMAIN granted' : granted'[x] = granted[x]
      BY <2>5 DEF Less
    <3>2. \A x, w : x # g => (Bound(x, w) => Bound(x, w)')
      BY <2>1, <2>3, <3>1 DEF Bound
    <3>3. g \notin DOMAIN virtual'
      BY <1>7 DEF ReconDetach, Detaches, Less
    <3>4. Entering(mainTask)' /\ Entering(menu)'
      BY <2>2, <2>5, <3>2, <1>7 DEF ReconDetach, AutoInv, Links, Entering
    <3> QED
      BY <2>1, <2>2, <2>3, <3>2, <3>3, <3>4, <1>7 DEF ReconDetach, AutoInv, Links
  <2> QED
    BY <2>4, <2>5, <1>7 DEF ReconDetach, Detaches
<1>8. CASE ReadNotice
  <2>1. wire \in Seq(Notice) /\ wire # <<>> /\ feed \in Seq(Notice) /\ Quiet(wire) /\ Quiet(feed)
    BY <1>8 DEF ReadNotice, AutoInv, AutoTypeOK, Links
  <2>2. /\ Head(wire) \in Notice /\ Quiet(wire')
        /\ Head(wire).kind = "arrived" => Head(wire).grips = {}
        /\ GripsIn(wire) = GripsIn(wire') \cup Head(wire).grips
    BY <1>8, <2>1, GripsTail DEF ReadNotice
  <2>3. /\ Quiet(feed')
        /\ GripsIn(feed') \subseteq GripsIn(feed) \cup Head(wire).grips
        /\ GripsIn(feed) \cup Head(wire).grips \subseteq GripsIn(feed') \cup missed'
        /\ missed \subseteq missed'
    <3>1. CASE ~hears
      BY <3>1, <1>8, <2>1 DEF ReadNotice
    <3>2. CASE hears /\ Len(feed) < FeedCap
      <4>1. feed' = Append(feed, Head(wire)) /\ missed' = missed
        BY <3>2, <1>8 DEF ReadNotice
      <4> QED
        BY <4>1, <2>1, <2>2, GripsAppend
    <3>3. CASE hears /\ ~(Len(feed) < FeedCap)
      <4>1. feed # <<>>
        BY <3>3, AutoAssumption
      <4>2. /\ Tail(feed) \in Seq(Notice) /\ Quiet(Tail(feed))
            /\ GripsIn(feed) = GripsIn(Tail(feed)) \cup Head(feed).grips
        BY <4>1, <2>1, GripsTail
      <4>3. feed' = Append(Tail(feed), Head(wire)) /\ missed' = missed \cup Head(feed).grips
        BY <3>3, <1>8 DEF ReadNotice
      <4>4. Quiet(feed') /\ GripsIn(feed') = GripsIn(Tail(feed)) \cup Head(wire).grips
        BY <4>2, <4>3, <2>2, GripsAppend
      <4> QED
        BY <4>2, <4>3, <4>4
    <3> QED
      BY <3>1, <3>2, <3>3, <2>1 DEF AutoInv, AutoTypeOK
  <2>4. Told' \subseteq Told /\ Told \subseteq Told' \cup missed' /\ missed \subseteq missed'
    BY <2>2, <2>3, <1>8 DEF ReadNotice, Told, clientTasks
  <2>5. \A g, w : Bound(g, w) => Bound(g, w)'
    BY <2>4, <1>8 DEF ReadNotice, Bound, serverSide, grants, clientTasks
  <2> QED
    BY <2>2, <2>3, <2>4, <2>5, <1>8 DEF ReadNotice, serverSide, grants, clientTasks, AutoInv, Links, Entering
<1>9. CASE Breaks
  <2>1. CutOff /\ UNCHANGED <<feed, virtual, mainTask, menu, recon>>
    BY <1>9 DEF Breaks, clientTasks
  <2> QED
    BY <2>1, CutOffLinks
<1>10. CASE Reopens
  <2>1. Told' = Told
    BY <1>10 DEF Reopens, serverSide, grants, clientTasks, Told
  <2> QED
    BY <2>1, <1>10 DEF Reopens, serverSide, grants, clientTasks, AutoInv, AutoTypeOK, Links, Bound, Entering
<1>11. CASE ListDevices
  <2>1. Told' = Told
    BY <1>11 DEF ListDevices, serverSide, grants, Told, MainTask, AutoInv, AutoTypeOK
  <2> QED
    BY <2>1, <1>11 DEF ListDevices, serverSide, grants, AutoInv, AutoTypeOK, Links, Bound, Entering
<1>12. CASE AttachAtServer
  <2>1. UNCHANGED <<plugged, gone, wire, feed, lane, virtual, menu, recon, missed>> /\ mainTask.grips = {}
    BY <1>12 DEF AttachAtServer, AutoInv, Links
  <2>2. CASE mainTask' = Onward /\ UNCHANGED <<granted, given, unlisted>>
    <3>1. mainTask'.grips = {} /\ mainTask'.pc \in {"each", "listen"}
      BY <2>1, <2>2 DEF Onward, MainTask, AutoInv, AutoTypeOK
    <3>2. Told' = Told
      BY <2>1, <3>1 DEF Told
    <3> QED
      BY <2>1, <2>2, <3>1, <3>2 DEF AutoInv, Links, Bound, Entering
  <2>3. ASSUME NEW g \in Grip, Grant(mainTask.unit, g),
               mainTask' = [mainTask EXCEPT !.pc = "enter", !.grip = g]
        PROVE  Links'
    <3>1. /\ mainTask'.grips = {} /\ mainTask'.pc = "enter"
          /\ mainTask'.grip = g /\ mainTask'.unit = mainTask.unit
      BY <2>1, <2>3 DEF MainTask, AutoInv, AutoTypeOK
    <3>2. Told' = Told
      BY <2>1, <3>1 DEF Told
    <3>3. /\ Bound(g, mainTask.unit)' /\ given' = given \cup {g}
          /\ g \notin given /\ g \notin DOMAIN virtual
          /\ \A x, w : Bound(x, w) => Bound(x, w)'
      BY <2>1, <2>3, <3>2, FreshIsBound
    <3>4. Entering(mainTask)'
      BY <2>1, <3>1, <3>3 DEF Entering
    <3>5. menu.pc = "enter" => menu.grip \in given
      BY DEF AutoInv, Links, Entering, Bound
    <3> QED
      BY <2>1, <3>1, <3>2, <3>3, <3>4, <3>5 DEF AutoInv, Links, Entering
  <2> QED
    BY <2>2, <2>3, <1>12 DEF AttachAtServer, grants
<1>13. CASE EnterVirtual
  <2>1. mainTask.grips = {} /\ mainTask'.grips = {} /\ mainTask'.pc \in {"each", "listen"}
    BY <1>13 DEF EnterVirtual, Onward, MainTask, AutoInv, AutoTypeOK, Links
  <2>2. Told' = Told
    BY <2>1, <1>13 DEF EnterVirtual, Told
  <2>3. \A g, w : Bound(g, w) => Bound(g, w)'
    BY <2>2, <1>13 DEF EnterVirtual, Bound, serverSide, grants
  <2>4. \A g \in DOMAIN virtual' : Bound(g, virtual'[g])
    BY <1>13 DEF EnterVirtual, With, AutoInv, Links, Entering
  <2>5. DOMAIN virtual' \subseteq DOMAIN virtual \cup {mainTask.grip}
    BY <1>13 DEF EnterVirtual, With
  <2> QED
    BY <2>1, <2>2, <2>3, <2>4, <2>5, <1>13
    DEF EnterVirtual, serverSide, grants, AutoInv, Links, Entering
<1>14. CASE Subscribe
  <2>1. Told' = Told
    BY <1>14 DEF Subscribe, serverSide, grants, Told, MainTask, AutoInv, AutoTypeOK
  <2> QED
    BY <2>1, <1>14 DEF Subscribe, serverSide, grants, AutoInv, AutoTypeOK, Links, Bound, Entering
<1>15. CASE TakeArrived
  <2>1. feed \in Seq(Notice) /\ feed # <<>> /\ Quiet(feed) /\ feed' = Tail(feed)
    BY <1>15 DEF TakeArrived, AutoInv, AutoTypeOK, Links
  <2>2. Quiet(feed') /\ GripsIn(feed') = GripsIn(feed)
    BY <2>1, <1>15, GripsTail DEF TakeArrived
  <2>3. mainTask'.grips = mainTask.grips /\ mainTask'.pc # "enter" /\ mainTask.grips = {}
    BY <1>15 DEF TakeArrived, MainTask, AutoInv, AutoTypeOK, Links
  <2>4. Told' = Told
    BY <2>2, <2>3, <1>15 DEF TakeArrived, Told
  <2> QED
    BY <2>2, <2>3, <2>4, <1>15 DEF TakeArrived, serverSide, grants, AutoInv, Links, Bound, Entering
<1>16. CASE TakeRemoved
  <2>1. feed \in Seq(Notice) /\ feed # <<>> /\ Quiet(feed) /\ feed' = Tail(feed)
    BY <1>16 DEF TakeRemoved, AutoInv, AutoTypeOK, Links
  <2>2. Quiet(feed') /\ GripsIn(feed) = GripsIn(feed') \cup Head(feed).grips
    BY <2>1, GripsTail
  <2>3. mainTask'.grips = Head(feed).grips /\ mainTask'.pc = "remove" /\ mainTask.grips = {}
    BY <1>16 DEF TakeRemoved, MainTask, AutoInv, AutoTypeOK, Links
  <2>4. Told' = Told
    BY <2>2, <2>3, <1>16 DEF TakeRemoved, Told
  <2> QED
    BY <2>2, <2>3, <2>4, <1>16 DEF TakeRemoved, serverSide, grants, AutoInv, Links, Bound, Entering
<1>17. ASSUME NEW g \in Grip, ForceDetach(g)
      PROVE  Links'
  <2>1. /\ mainTask'.grips = mainTask.grips /\ mainTask'.pc \in {"forget", "jammed"}
        /\ mainTask'.pc = "forget" => mainTask'.grip = g /\ g \in DOMAIN virtual
    BY <1>17 DEF ForceDetach, MainTask, AutoInv, AutoTypeOK
  <2>2. Told' = Told
    BY <2>1, <1>17 DEF ForceDetach, Told
  <2> QED
    BY <2>1, <2>2, <1>17 DEF ForceDetach, serverSide, grants, AutoInv, Links, Bound, Entering
<1>30. CASE Forget
  <2> DEFINE g == mainTask.grip
  <2>1. mainTask'.grips = mainTask.grips \ {g} /\ mainTask'.pc = "remove"
    BY <1>30 DEF Forget, MainTask, AutoInv, AutoTypeOK
  <2>2. Told' \subseteq Told /\ Told \subseteq Told' \cup {g}
    BY <2>1, <1>30 DEF Forget, Told
  <2>3. DOMAIN virtual' = DOMAIN virtual \ {g} /\ \A x \in DOMAIN virtual' : virtual'[x] = virtual[x]
    BY <1>30 DEF Forget, Less
  <2>4. UNCHANGED <<plugged, gone, granted, given, unlisted, wire, feed, lane, menu, recon, missed>>
    BY <1>30 DEF Forget, serverSide, grants
  <2>5. \A x, w : x # g => (Bound(x, w) => Bound(x, w)')
    BY <2>2, <2>4 DEF Bound
  <2>6. Entering(menu)'
    BY <2>3, <2>4, <2>5, <1>30 DEF Forget, AutoInv, Links, Entering
  <2> QED
    BY <2>1, <2>2, <2>3, <2>4, <2>5, <2>6 DEF AutoInv, Links, Entering
<1>31. CASE RemovalEnds
  <2>1. mainTask'.grips = {} /\ mainTask.grips = {} /\ mainTask'.pc = "listen"
    BY <1>31 DEF RemovalEnds, MainTask, AutoInv, AutoTypeOK
  <2>2. Told' = Told
    BY <2>1, <1>31 DEF RemovalEnds, Told
  <2> QED
    BY <2>1, <2>2, <1>31 DEF RemovalEnds, serverSide, grants, AutoInv, Links, Bound, Entering
<1>32. ASSUME NEW g \in Grip, UserForceDetaches(g)
      PROVE  Links'
  <2>1. DOMAIN virtual' \subseteq DOMAIN virtual /\ \A x \in DOMAIN virtual' : virtual'[x] = virtual[x]
    BY <1>32 DEF UserForceDetaches, Less
  <2>2. Told' = Told
    BY <1>32 DEF UserForceDetaches, Told
  <2>3. UNCHANGED <<plugged, gone, granted, given, unlisted, wire, feed, lane, mainTask, menu, recon, missed>>
    BY <1>32 DEF UserForceDetaches, serverSide, grants
  <2>4. \A x, w : Bound(x, w) => Bound(x, w)'
    BY <2>2, <2>3 DEF Bound
  <2> QED
    BY <2>1, <2>2, <2>3, <2>4 DEF AutoInv, Links, Entering
<1>18. CASE ChannelCloses
  <2>1. Told' = Told
    BY <1>18 DEF ChannelCloses, serverSide, grants, Told, MainTask, AutoInv, AutoTypeOK
  <2> QED
    BY <2>1, <1>18 DEF ChannelCloses, serverSide, grants, AutoInv, AutoTypeOK, Links, Bound, Entering
<1>19. CASE CleanUpBegins
  <2>1. Told' = Told
    BY <1>19 DEF CleanUpBegins, serverSide, grants, Told
  <2> QED
    BY <2>1, <1>19 DEF CleanUpBegins, serverSide, grants, AutoInv, AutoTypeOK, Links, Bound, Entering
<1>20. CASE CleanUpDisconnects
  <2>1. CutOff /\ lane' = "closed" /\ lane # "closed"
    BY <1>20 DEF CleanUpDisconnects, Closes
  <2>2. UNCHANGED <<feed, virtual, mainTask, menu, recon>>
    BY <1>20 DEF CleanUpDisconnects, clientTasks
  <2> QED
    BY <2>1, <2>2, CutOffLinks
<1>21. CASE UserConnects
  <2>1. Told' = Told
    BY <1>21 DEF UserConnects, serverSide, grants, clientTasks, Told
  <2> QED
    BY <2>1, <1>21 DEF UserConnects, serverSide, grants, clientTasks, AutoInv, AutoTypeOK, Links, Bound, Entering
<1>22. CASE UserLeaves
  <2>1. Told' = Told
    BY <1>22 DEF UserLeaves, serverSide, grants, Told
  <2> QED
    BY <2>1, <1>22 DEF UserLeaves, serverSide, grants, AutoInv, AutoTypeOK, Links, Bound, Entering
<1>23. CASE UserHasLeft
  <2>1. UNCHANGED <<feed, virtual, mainTask, menu, recon>>
    BY <1>23 DEF UserHasLeft
  <2>2. CASE leave.pc = "disconnect" /\ lane # "closed"
    BY <2>1, <2>2, <1>23, CutOffLinks DEF UserHasLeft, Closes
  <2>3. CASE ~(leave.pc = "disconnect" /\ lane # "closed")
    <3>1. UNCHANGED <<plugged, gone, granted, given, unlisted, wire, lane, missed>>
      BY <2>3, <1>23 DEF UserHasLeft, serverSide, grants
    <3> QED
      BY <2>1, <3>1 DEF AutoInv, Links, Bound, Entering, Told
  <2> QED
    BY <2>2, <2>3
<1>24. CASE UserEnters
  <2>1. Told' = Told /\ menu'.pc = "idle"
    BY <1>24 DEF UserEnters, Idle, Told
  <2>2. \A g, w : Bound(g, w) => Bound(g, w)'
    BY <2>1, <1>24 DEF UserEnters, Bound, serverSide, grants
  <2>3. \A g \in DOMAIN virtual' : Bound(g, virtual'[g])
    BY <1>24 DEF UserEnters, With, AutoInv, Links, Entering
  <2>4. DOMAIN virtual' \subseteq DOMAIN virtual \cup {menu.grip}
    BY <1>24 DEF UserEnters, With
  <2> QED
    BY <2>1, <2>2, <2>3, <2>4, <1>24 DEF UserEnters, serverSide, grants, AutoInv, Links, Entering
<1>25. CASE MonitorConnects
  <2>1. Told' = Told
    BY <1>25 DEF MonitorConnects, serverSide, grants, Reconciliation, Told
  <2> QED
    BY <2>1, <1>25 DEF MonitorConnects, serverSide, grants, Reconciliation, AutoInv, AutoTypeOK, Links, Bound, Entering
<1>26. CASE ReconList
  <2>1. Told' = Told
    BY <1>26 DEF ReconList, serverSide, grants, Reconciliation, Told
  <2> QED
    BY <2>1, <1>26 DEF ReconList, serverSide, grants, Reconciliation, AutoInv, AutoTypeOK, Links, Bound, Entering
<1>27. CASE ReconCompare
  <2>1. Told' = Told
    BY <1>27 DEF ReconCompare, serverSide, grants, Reconciliation, Told
  <2> QED
    BY <2>1, <1>27 DEF ReconCompare, serverSide, grants, Reconciliation, AutoInv, AutoTypeOK, Links, Bound, Entering
<1>28. CASE MonitorEnters
  <2>1. Told' = Told
    BY <1>28 DEF MonitorEnters, serverSide, grants, Reconciliation, Told
  <2> QED
    BY <2>1, <1>28 DEF MonitorEnters, serverSide, grants, Reconciliation, AutoInv, AutoTypeOK, Links, Bound, Entering
<1>33. ASSUME NEW g \in Grip, StrayBreaks(g)
      PROVE  Links'
  BY <1>33, ClosedLinks DEF StrayBreaks, clientTasks
<1>29. CASE UNCHANGED autoVars
  BY <1>29 DEF autoVars, AutoInv, Links, Bound, Entering, Told
<1> QED
  BY <1>1, <1>2, <1>3, <1>4, <1>5, <1>6, <1>7, <1>8, <1>9, <1>10,
     <1>11, <1>12, <1>13, <1>14, <1>15, <1>16, <1>17, <1>18, <1>19, <1>20,
     <1>21, <1>22, <1>23, <1>24, <1>25, <1>26, <1>27, <1>28, <1>29,
     <1>30, <1>31, <1>32, <1>33
  DEF AutoNext, MainStep

\* The handle that is forgotten is the one that was looked for.
LEMMA HandStep ==
  ASSUME AutoInv, [AutoNext]_autoVars
  PROVE  InHand'
<1>1. CASE UNCHANGED mainTask
  BY <1>1 DEF AutoInv, InHand
<1>2. ASSUME NEW g \in Grip, ForceDetach(g)
      PROVE  InHand'
  BY <1>2 DEF ForceDetach, InHand, MainTask, AutoInv, AutoTypeOK
<1>3. CASE ListDevices \/ AttachAtServer \/ EnterVirtual \/ Subscribe
  BY <1>3 DEF ListDevices, AttachAtServer, EnterVirtual, Subscribe, Onward, InHand, MainTask,
              AutoInv, AutoTypeOK
<1>4. CASE (\E u \in Unit : AttachNext(u)) \/ TakeArrived \/ TakeRemoved
  BY <1>4 DEF AttachNext, TakeArrived, TakeRemoved, InHand, MainTask, AutoInv, AutoTypeOK
<1>5. CASE Forget \/ RemovalEnds \/ ChannelCloses
  BY <1>5 DEF Forget, RemovalEnds, ChannelCloses, InHand, MainTask, AutoInv, AutoTypeOK
<1>6. ASSUME AutoNext, ~MainStep
      PROVE  UNCHANGED mainTask
  BY <1>6 DEF AutoNext, clientTasks, PlugIn, Unplug, ReadNotice, Breaks, Reopens, StrayBreaks,
              CleanUpBegins, CleanUpDetaches, CleanUpDisconnects, UserConnects, UserLeaves,
              UserHasLeft, UserDetaches, UserForceDetaches, UserAttaches,
              UserEnters, MonitorConnects, ReconList, ReconCompare, MonitorEnters, ReconDetach
<1> QED
  BY <1>1, <1>2, <1>3, <1>4, <1>5, <1>6 DEF MainStep, autoVars

-----------------------------------------------------------------------------
(* The theorems *)

\* The handles in the client's hands are bound as the invariant says in every
\* reachable state, for any number of devices, handles and lost connections.
THEOREM AutoConsistent == AutoSpec => []AutoInv
<1>1. AutoInit => AutoInv
  <2> SUFFICES ASSUME AutoInit
               PROVE  AutoInv
    OBVIOUS
  <2>1. DOMAIN granted = {} /\ DOMAIN virtual = {} /\ given = {} /\ astray = {} /\ unlisted = {}
    BY DEF AutoInit
  <2>2. /\ wire = <<>> /\ feed = <<>> /\ Len(feed) = 0
    BY DEF AutoInit
  <2>3. /\ wire \in Seq(Notice) /\ feed \in Seq(Notice) /\ Len(feed) <= FeedCap
        /\ GripsIn(wire) = {} /\ GripsIn(feed) = {} /\ Quiet(wire) /\ Quiet(feed)
    BY <2>2, GripsOfNone, AutoAssumption
  <2>4. /\ mainTask \in MainTask /\ mainTask.grips = {} /\ mainTask.pc = "list"
    BY DEF AutoInit, MainTask
  <2>5. menu \in Menu /\ menu.pc = "idle"
    BY DEF AutoInit, Menu, Idle
  <2>6. recon \in Reconciliation /\ recon.pc = "idle" /\ recon.todo = {}
    BY DEF AutoInit, Reconciliation
  <2>7. leave \in Leaving /\ toDetach = Staying
    BY DEF AutoInit, Leaving
  <2>8. hears \in BOOLEAN
    BY DEF AutoInit
  <2>9. plugged \subseteq Unit /\ gone = {} /\ previous = {} /\ missed = {} /\ lane = "up"
    BY DEF AutoInit
  <2>10. AutoTypeOK
    BY <2>1, <2>3, <2>4, <2>5, <2>6, <2>7, <2>8, <2>9 DEF AutoTypeOK
  <2>11. Links
    BY <2>1, <2>3, <2>4, <2>5, <2>6 DEF Links, Told, Entering
  <2> QED
    BY <2>4, <2>10, <2>11 DEF AutoInv, InHand
<1>2. AutoInv /\ [AutoNext]_autoVars => AutoInv'
  BY TypeStep, LinksStep, HandStep DEF AutoInv
<1> QED
  BY <1>1, <1>2, PTL DEF AutoSpec

\* A virtual device whose handle is dead at the server is always one whose removal
\* is on its way, or was never told in time.
THEOREM StaleExplained == AutoSpec => []StaleIsExplained
<1>1. AutoInv => StaleIsExplained
  BY DEF AutoInv, Links, Bound, Told, StaleIsExplained
<1> QED
  BY <1>1, AutoConsistent, PTL

\* Only a device that has left the server, or that the user gives up, is taken
\* away from the client, however notices, attaches and reconciliations overlap; but
\* for a device that the server gave to the user after it had listed its devices for
\* the monitor, and before the monitor looked what was attached.
THEOREM NothingInVain == AutoSpec => NothingTakenInVain
<1> DEFINE Kept == \A g \in DOMAIN virtual \ DOMAIN virtual' :
                     \/ virtual[g] \in gone
                     \/ g \in leave.todo \cup toDetach
                     \/ g \in recon.todo \cap unlisted
<1>1. AutoInv /\ [AutoNext]_autoVars => [Kept]_autoVars
  <2> SUFFICES ASSUME AutoInv, AutoNext
               PROVE  Kept
    OBVIOUS
  <2>1. CASE EnterVirtual
    BY <2>1 DEF EnterVirtual, With
  <2>2. CASE UserEnters
    BY <2>2 DEF UserEnters, With
  <2>3. ASSUME NEW g \in Grip, CleanUpDetaches(g)
        PROVE  Kept
    BY <2>3 DEF CleanUpDetaches, Detaches, Less
  <2>4. ASSUME NEW g \in Grip, UserDetaches(g)
        PROVE  Kept
    BY <2>4 DEF UserDetaches, Detaches, Less
  <2>5. ASSUME NEW g \in Grip, ReconDetach(g)
        PROVE  Kept
    BY <2>5 DEF ReconDetach, Detaches, Less, AutoInv, Links, Bound
  <2>6. CASE Forget
    <3>1. mainTask.grip \in DOMAIN virtual => virtual[mainTask.grip] \in gone
      BY <2>6 DEF Forget, AutoInv, InHand, Links, Bound, Told
    <3> QED
      BY <2>6, <3>1 DEF Forget, Less
  <2>11. ASSUME NEW g \in Grip, UserForceDetaches(g)
         PROVE  Kept
    BY <2>11 DEF UserForceDetaches, Less
  <2>7. CASE UNCHANGED virtual
    BY <2>7
  <2>8. ASSUME NEW u \in Unit,
               \/ PlugIn(u) \/ Unplug(u) \/ AttachNext(u) \/ \E g \in Grip : UserAttaches(u, g)
        PROVE  UNCHANGED virtual
    BY <2>8 DEF PlugIn, Unplug, AttachNext, UserAttaches
  <2>12. ASSUME NEW g \in Grip, ForceDetach(g) \/ StrayBreaks(g)
         PROVE  UNCHANGED virtual
    BY <2>12 DEF ForceDetach, StrayBreaks
  <2>9. ASSUME \/ ReadNotice \/ Breaks \/ Reopens \/ ListDevices \/ AttachAtServer \/ Subscribe
               \/ TakeArrived \/ TakeRemoved \/ RemovalEnds \/ ChannelCloses
        PROVE  UNCHANGED virtual
    BY <2>9 DEF ReadNotice, Breaks, Reopens, ListDevices, AttachAtServer, Subscribe,
                TakeArrived, TakeRemoved, RemovalEnds, ChannelCloses
  <2>10. ASSUME \/ CleanUpBegins \/ CleanUpDisconnects \/ UserConnects \/ UserLeaves \/ UserHasLeft
                \/ MonitorConnects \/ ReconList \/ ReconCompare \/ MonitorEnters
         PROVE  UNCHANGED virtual
    BY <2>10 DEF CleanUpBegins, CleanUpDisconnects, UserConnects, UserLeaves, UserHasLeft,
                 MonitorConnects, ReconList, ReconCompare, MonitorEnters
  <2> HIDE DEF Kept
  <2> QED
    BY <2>1, <2>2, <2>3, <2>4, <2>5, <2>6, <2>7, <2>8, <2>9, <2>10, <2>11, <2>12
    DEF AutoNext, MainStep
<1> QED
  BY <1>1, AutoConsistent, PTL DEF AutoSpec, NothingTakenInVain

-----------------------------------------------------------------------------
(* All parts *)

\* A step of one part is a step or a stutter of each.
LEMMA EachPartSteps ==
  ASSUME [Next]_<<focus, portVars, ButPorts>>
  PROVE  /\ [PortsNext]_portVars /\ [BridgeNext]_bridgeVars
         /\ [ReceiveNext]_receiveVars /\ [AutoNext]_autoVars
<1>1. CASE UNCHANGED <<focus, portVars, ButPorts>>
  BY <1>1 DEF ButPorts
<1>2. CASE PortsNext /\ UNCHANGED ButPorts
  BY <1>2 DEF ButPorts
<1>3. CASE BridgeNext /\ UNCHANGED ButBridge
  BY <1>3 DEF ButBridge
<1>4. CASE ReceiveNext /\ UNCHANGED ButReceive
  BY <1>4 DEF ButReceive
<1>5. CASE AutoNext /\ UNCHANGED ButAuto
  BY <1>5 DEF ButAuto
<1> QED
  BY <1>1, <1>2, <1>3, <1>4, <1>5 DEF Next

\* Every variable of the four parts has values of its type (TypeOK).
THEOREM ClientPartsTypes == Spec => []TypeOK
<1>1. Init => PortsInit /\ BridgeInit /\ ReceiveInit /\ AutoInit
  BY DEF Init
<1>2. [Next]_<<focus, portVars, ButPorts>> =>
        /\ [PortsNext]_portVars /\ [BridgeNext]_bridgeVars
        /\ [ReceiveNext]_receiveVars /\ [AutoNext]_autoVars
  BY EachPartSteps
<1>3. Spec => []PortsTypeOK
  BY <1>1, <1>2, PortsStayTyped, PTL DEF Spec, PortsSpec
<1>4. Spec => []BridgeTypeOK
  BY <1>1, <1>2, ReportsStayInOrder, PTL DEF Spec, BridgeSpec
<1>5. Spec => []ReceiveTypeOK
  BY <1>1, <1>2, ReceiverStaysSound, PTL DEF Spec, ReceiveSpec
<1>6. AutoInv => AutoTypeOK
  BY DEF AutoInv
<1>7. Spec => []AutoTypeOK
  BY <1>1, <1>2, <1>6, AutoConsistent, PTL DEF Spec, AutoSpec
<1> QED
  BY <1>3, <1>4, <1>5, <1>7, PTL DEF TypeOK

================================================================================
