------------------------- MODULE SharingStateProofs -------------------------
(***************************************************************************)
(* Every method of DeviceSharingState preserves the invariant of the       *)
(* record, for every set of handles, capacity and timeout.                 *)
(***************************************************************************)
EXTENDS SharingState, TLAPS, FiniteSetTheorems, SequenceTheorems,
        WellFoundedInduction

SharingInv(s) ==
  /\ s \in DeviceSharingState
  /\ LockConsistent(s)
  /\ QueueConsistent(s)
  /\ WithinCapacity(s)

-----------------------------------------------------------------------------
(* Facts about the queue's indices *)

LessThanRel == {p \in Nat \X Nat : p[1] < p[2]}

\* Every non-empty set of naturals has a least element: what lets the loops
\* over the queue (position, the expired prefix) find the first match.
LEMMA LeastNatural ==
  ASSUME NEW S \in SUBSET Nat, S # {}
  PROVE  \E m \in S : \A n \in S : m <= n
<1>1. IsWellFoundedOn(LessThanRel, Nat)
  BY NatLessThanWellFounded DEF OpToRel, LessThanRel
<1>2. PICK x \in S : \A y \in S : ~(<<y, x>> \in LessThanRel)
  BY <1>1, WFMin, Zenon
<1>3. \A y \in S : ~(y < x)
  BY <1>2 DEF LessThanRel
<1> QED
  BY <1>3

\* The loop at the front of process_queue stops: at the first entry that has
\* not expired, or at the end of the queue.
LEMMA ExpiredPrefixLemma ==
  ASSUME NEW q \in Seq(QueueEntry)
  PROVE  /\ ExpiredPrefix(q) \in 0 .. Len(q)
         /\ \A i \in 1 .. ExpiredPrefix(q) : Expired(q[i].elapsed)
         /\ ExpiredPrefix(q) < Len(q) => ~Expired(q[ExpiredPrefix(q) + 1].elapsed)
<1> DEFINE Stops(k) == /\ \A i \in 1 .. k : Expired(q[i].elapsed)
                       /\ k < Len(q) => ~Expired(q[k + 1].elapsed)
           live     == {i \in 1 .. Len(q) : ~Expired(q[i].elapsed)}
<1>1. \E k \in 0 .. Len(q) : Stops(k)
  <2>1. CASE live = {}
    <3>1. Len(q) \in 0 .. Len(q) /\ Stops(Len(q))
      BY <2>1
    <3> QED
      BY <3>1
  <2>2. CASE live # {}
    <3>0. live \in SUBSET Nat
      OBVIOUS
    <3>1. PICK m \in live : \A n \in live : m <= n
      BY <2>2, <3>0, LeastNatural
    <3>2. m - 1 \in 0 .. Len(q) /\ Stops(m - 1)
      BY <3>1
    <3> QED
      BY <3>2
  <2> QED
    BY <2>1, <2>2
<1>2. ExpiredPrefix(q) = CHOOSE k \in 0 .. Len(q) : Stops(k)
  BY DEF ExpiredPrefix
<1> HIDE DEF Stops
<1>3. ExpiredPrefix(q) \in 0 .. Len(q) /\ Stops(ExpiredPrefix(q))
  BY <1>1, <1>2
<1> QED
  BY <1>3 DEF Stops

\* What the entries of a queue are made of.
LEMMA QueueEntries ==
  ASSUME NEW q \in Seq(QueueEntry)
  PROVE  /\ Len(q) \in Nat
         /\ DOMAIN q = 1 .. Len(q)
         /\ \A i \in DOMAIN q : /\ q[i] \in QueueEntry
                                /\ q[i].handle \in Handle
                                /\ q[i].wants_write \in BOOLEAN
                                /\ q[i].elapsed \in Elapsed
                                /\ q[i].elapsed \in Int /\ q[i].elapsed >= 0
<1>1. \A i \in DOMAIN q : q[i] \in QueueEntry
  OBVIOUS
<1>2. \A x \in Elapsed : x \in Int /\ x >= 0
  BY SharingAssumption DEF Elapsed
<1> QED
  BY <1>1, <1>2 DEF QueueEntry

\* iter().position() finds a queued client, at the first entry of its.
LEMMA QueueIndexLemma ==
  ASSUME NEW s \in DeviceSharingState, NEW h \in Handle, Queued(s, h)
  PROVE  /\ QueueIndex(s, h) \in 1 .. Len(s.access_queue)
         /\ s.access_queue[QueueIndex(s, h)].handle = h
         /\ \A j \in 1 .. QueueIndex(s, h) - 1 : s.access_queue[j].handle # h
<1> DEFINE q        == s.access_queue
           First(i) == /\ q[i].handle = h
                       /\ \A j \in 1 .. i - 1 : q[j].handle # h
           mine     == {i \in 1 .. Len(q) : q[i].handle = h}
<1>0. q \in Seq(QueueEntry) /\ DOMAIN q = 1 .. Len(q) /\ Len(q) \in Nat
  BY DEF DeviceSharingState
<1>1. mine # {} /\ mine \in SUBSET Nat
  BY <1>0 DEF Queued
<1>2. PICK m \in mine : \A n \in mine : m <= n
  BY <1>1, LeastNatural
<1>3. m \in DOMAIN q /\ First(m)
  BY <1>0, <1>2
<1>4. QueueIndex(s, h) = CHOOSE i \in DOMAIN q : First(i)
  BY DEF QueueIndex
<1> HIDE DEF First
<1>5. QueueIndex(s, h) \in DOMAIN q /\ First(QueueIndex(s, h))
  BY <1>3, <1>4
<1> QED
  BY <1>0, <1>5 DEF First

-----------------------------------------------------------------------------
(* The initial record, and the methods that leave the queue alone *)

LEMMA NewInv ==
  ASSUME NEW mode \in SharingMode
  PROVE  SharingInv(New(mode))
<1> DEFINE s == New(mode)
<1>1. s \in DeviceSharingState
  BY DEF New, DeviceSharingState, MaybeHandle, QueueEntry
<1>2. LockConsistent(s)
  BY SharingAssumption DEF New, LockConsistent, Holder, SharingMode
<1>3. QueueConsistent(s)
  BY DEF New, QueueConsistent
<1>4. WithinCapacity(s)
  BY FS_EmptySet, SharingAssumption DEF New, WithinCapacity
<1> QED
  BY <1>1, <1>2, <1>3, <1>4 DEF SharingInv

\* Admitting a client keeps the invariant, provided can_attach was asked.
LEMMA AttachClientInv ==
  ASSUME NEW s, SharingInv(s), NEW h \in Handle,
         h \notin s.attached, CanAttach(s)
  PROVE  SharingInv(AttachClient(s, h))
<1> DEFINE t == AttachClient(s, h)
<1> USE SharingAssumption
<1>0. s \in DeviceSharingState
  BY DEF SharingInv
<1>1. /\ t.mode = s.mode
      /\ t.attached = s.attached \cup {h}
      /\ t.has_access = IF s.mode = "Exclusive" \/ s.attached = {}
                        THEN s.has_access \cup {h} ELSE s.has_access \ {h}
      /\ t.has_write_lock = s.has_write_lock \ {h}
      /\ t.access_queue = s.access_queue
      /\ t.write_lock_holder = s.write_lock_holder
      /\ t.exclusive_lock_holder = s.exclusive_lock_holder
      /\ t.lock_acquired = [s.lock_acquired EXCEPT ![h] =
                              IF s.mode = "Exclusive" THEN 0 ELSE NoTime]
  BY <1>0 DEF AttachClient, DeviceSharingState
<1>T. t \in DeviceSharingState
  <2> DEFINE lock   == [s.lock_acquired EXCEPT ![h] =
                          IF s.mode = "Exclusive" THEN 0 ELSE NoTime]
             access == IF s.mode = "Exclusive" \/ s.attached = {}
                       THEN s.has_access \cup {h} ELSE s.has_access \ {h}
  <2>1. lock \in [Handle -> Elapsed \cup {NoTime}]
    BY <1>0 DEF DeviceSharingState, Elapsed
  <2>2. access \in SUBSET Handle
    BY <1>0 DEF DeviceSharingState
  <2>3. t = [s EXCEPT !.attached = s.attached \cup {h},
                      !.has_write_lock = s.has_write_lock \ {h},
                      !.has_access = access,
                      !.lock_acquired = lock]
    BY DEF AttachClient
  <2> HIDE DEF lock, access, t
  <2> QED
    BY <1>0, <2>1, <2>2, <2>3 DEF DeviceSharingState
<1>2. Holder(t) = Holder(s)
  BY <1>1 DEF Holder
<1>3. Holder(s) # h /\ s.exclusive_lock_holder # h /\ s.write_lock_holder # h
  BY DEF SharingInv, LockConsistent, Holder
<1>4. LockConsistent(t)
  <2>1. \A g \in Handle : s.mode # "Exclusive" =>
          (t.lock_acquired[g] # NoTime <=> g = Holder(t))
    BY <1>0, <1>1, <1>2, <1>3 DEF SharingInv, LockConsistent, DeviceSharingState
  <2> QED
    BY <2>1, <1>0, <1>1, <1>2, <1>3 DEF SharingInv, LockConsistent
<1>5. QueueConsistent(t)
  <2>1. \A i \in DOMAIN s.access_queue :
           s.access_queue[i].handle # h /\ s.access_queue[i].handle \in Handle
    BY <1>0 DEF SharingInv, QueueConsistent, DeviceSharingState, QueueEntry
  <2>2. \A i \in DOMAIN s.access_queue :
          t.lock_acquired[s.access_queue[i].handle]
            = s.lock_acquired[s.access_queue[i].handle]
    BY <1>0, <1>1, <2>1 DEF DeviceSharingState
  <2> QED
    BY <2>1, <2>2, <1>1, <1>2 DEF SharingInv, QueueConsistent
<1>6. WithinCapacity(t)
  <2>1. CASE s.mode = "Exclusive"
    BY <2>1, <1>1 DEF SharingInv, WithinCapacity, CanAttach
  <2>2. CASE s.mode # "Exclusive"
    <3>1. IsFiniteSet(s.attached)
      BY <1>0, FS_Subset DEF DeviceSharingState
    <3>2. /\ Cardinality(s.attached \cup {h}) = Cardinality(s.attached) + 1
          /\ Cardinality(s.attached) \in Nat
      BY <3>1, FS_AddElement, FS_CardinalityType
    <3> QED
      BY <2>2, <3>2, <1>1 DEF WithinCapacity, CanAttach
  <2> QED
    BY <2>1, <2>2
<1> QED
  BY <1>T, <1>4, <1>5, <1>6 DEF SharingInv

\* Giving a free lock to an attached client keeps the invariant, whatever
\* else is in the queue; an entry of its own is at least as old as the lock.
LEMMA GrantInv ==
  ASSUME NEW s, SharingInv(s), NEW h \in s.attached,
         s.mode # "Exclusive", Holder(s) = NoHandle
  PROVE  SharingInv(Grant(s, h))
<1> DEFINE t == Grant(s, h)
<1> USE SharingAssumption
<1>0. s \in DeviceSharingState /\ h \in Handle /\ h # NoHandle
  BY DEF SharingInv, DeviceSharingState
<1>1. /\ t.mode = s.mode
      /\ t.attached = s.attached
      /\ t.access_queue = s.access_queue
      /\ t.lock_acquired = [s.lock_acquired EXCEPT ![h] = 0]
      /\ s.mode = "Shared" =>
           /\ t.exclusive_lock_holder = h
           /\ t.write_lock_holder = s.write_lock_holder
           /\ t.has_access = s.has_access \cup {h}
           /\ t.has_write_lock = s.has_write_lock
      /\ s.mode # "Shared" =>
           /\ t.write_lock_holder = h
           /\ t.exclusive_lock_holder = s.exclusive_lock_holder
           /\ t.has_write_lock = s.has_write_lock \cup {h}
           /\ t.has_access = s.has_access
  BY <1>0 DEF Grant, DeviceSharingState
<1>T. t \in DeviceSharingState
  <2> DEFINE lock == [s.lock_acquired EXCEPT ![h] = 0]
  <2>1. lock \in [Handle -> Elapsed \cup {NoTime}]
    BY <1>0 DEF DeviceSharingState, Elapsed
  <2>2. t = IF s.mode = "Shared"
            THEN [s EXCEPT !.exclusive_lock_holder = h,
                           !.has_access = s.has_access \cup {h},
                           !.lock_acquired = lock]
            ELSE [s EXCEPT !.write_lock_holder = h,
                           !.has_write_lock = s.has_write_lock \cup {h},
                           !.lock_acquired = lock]
    BY DEF Grant
  <2> HIDE DEF lock, t
  <2> QED
    BY <1>0, <2>1, <2>2 DEF DeviceSharingState, MaybeHandle
<1>2. Holder(t) = h
  BY <1>1 DEF Holder
<1>3. s.mode \in {"Shared", "ReadOnly"}
  BY <1>0 DEF DeviceSharingState, SharingMode
<1>4. LockConsistent(t)
  <2>1. \A g \in Handle : t.lock_acquired[g] # NoTime <=> g = Holder(t)
    BY <1>0, <1>1, <1>2
    DEF SharingInv, LockConsistent, DeviceSharingState, NoTime
  <2> QED
    BY <2>1, <1>0, <1>1, <1>2, <1>3 DEF SharingInv, LockConsistent, Holder
<1>5. QueueConsistent(t)
  <2>1. \A i \in DOMAIN s.access_queue : s.access_queue[i].elapsed >= 0
    BY <1>0, QueueEntries DEF DeviceSharingState
  <2>2. t.lock_acquired[h] = 0
    BY <1>0, <1>1 DEF DeviceSharingState
  <2> QED
    BY <2>1, <2>2, <1>1, <1>2 DEF SharingInv, QueueConsistent
<1>6. WithinCapacity(t)
  BY <1>1 DEF SharingInv, WithinCapacity
<1> QED
  BY <1>T, <1>4, <1>5, <1>6 DEF SharingInv

LEMMA ReleaseLockInv ==
  ASSUME NEW s, SharingInv(s), NEW h \in Handle
  PROVE  SharingInv(ReleaseLock(s, h))
<1> DEFINE t == ReleaseLock(s, h)
<1> USE SharingAssumption
<1> SUFFICES ASSUME h \in s.attached, s.mode # "Exclusive", Holder(s) = h
             PROVE  SharingInv(t)
  BY DEF ReleaseLock
<1>0. s \in DeviceSharingState /\ h # NoHandle
  BY DEF SharingInv
<1>1. /\ t.mode = s.mode
      /\ t.attached = s.attached
      /\ t.access_queue = s.access_queue
      /\ t.lock_acquired = [s.lock_acquired EXCEPT ![h] = NoTime]
      /\ s.mode = "Shared" =>
           /\ t.exclusive_lock_holder = NoHandle
           /\ t.write_lock_holder = s.write_lock_holder
           /\ t.has_access = s.has_access \ {h}
           /\ t.has_write_lock = s.has_write_lock
      /\ s.mode # "Shared" =>
           /\ t.write_lock_holder = NoHandle
           /\ t.exclusive_lock_holder = s.exclusive_lock_holder
           /\ t.has_write_lock = s.has_write_lock \ {h}
           /\ t.has_access = s.has_access
  BY <1>0 DEF ReleaseLock, DeviceSharingState
<1>T. t \in DeviceSharingState
  <2> DEFINE lock == [s.lock_acquired EXCEPT ![h] = NoTime]
  <2>1. lock \in [Handle -> Elapsed \cup {NoTime}]
    BY <1>0 DEF DeviceSharingState
  <2>2. t = IF s.mode = "Shared"
            THEN [s EXCEPT !.exclusive_lock_holder = NoHandle,
                           !.has_access = s.has_access \ {h},
                           !.lock_acquired = lock]
            ELSE [s EXCEPT !.write_lock_holder = NoHandle,
                           !.has_write_lock = s.has_write_lock \ {h},
                           !.lock_acquired = lock]
    BY DEF ReleaseLock
  <2> HIDE DEF lock, t
  <2> QED
    BY <1>0, <2>1, <2>2 DEF DeviceSharingState, MaybeHandle
<1>2. Holder(t) = NoHandle
  BY <1>1 DEF Holder
<1>3. s.mode \in {"Shared", "ReadOnly"}
  BY <1>0 DEF DeviceSharingState, SharingMode
<1>4. LockConsistent(t)
  <2>1. \A g \in Handle : t.lock_acquired[g] # NoTime <=> g = Holder(t)
    BY <1>0, <1>1, <1>2 DEF SharingInv, LockConsistent, DeviceSharingState
  <2> QED
    BY <2>1, <1>0, <1>1, <1>2, <1>3 DEF SharingInv, LockConsistent, Holder
<1>5. QueueConsistent(t)
  <2>1. \A i \in DOMAIN s.access_queue : s.access_queue[i].handle # NoHandle
    BY <1>0, QueueEntries DEF DeviceSharingState
  <2> QED
    BY <2>1, <1>1, <1>2 DEF SharingInv, QueueConsistent
<1>6. WithinCapacity(t)
  BY <1>1 DEF SharingInv, WithinCapacity
<1> QED
  BY <1>T, <1>4, <1>5, <1>6 DEF SharingInv

-----------------------------------------------------------------------------
(* The methods that change the queue *)

\* Joining the queue behind another client's lock keeps its order: the new
\* entry is the youngest, and it is the only one of its client.
LEMMA AddToQueueInv ==
  ASSUME NEW s, SharingInv(s), NEW h \in s.attached, NEW w \in BOOLEAN,
         s.mode # "Exclusive", s.mode = "ReadOnly" => w, Holder(s) # h
  PROVE  SharingInv(AddToQueue(s, h, w))
<1> DEFINE q == s.access_queue
           e == [handle |-> h, wants_write |-> w, elapsed |-> 0]
           r == Append(q, e)
           t == [s EXCEPT !.access_queue = r]
<1> SUFFICES ASSUME ~Queued(s, h)
             PROVE  SharingInv(t)
  BY DEF AddToQueue
<1>0. s \in DeviceSharingState /\ h \in Handle /\ q \in Seq(QueueEntry)
  BY DEF SharingInv, DeviceSharingState
<1>e. e \in QueueEntry
  BY <1>0, SharingAssumption DEF QueueEntry, Elapsed
<1>q. /\ Len(q) \in Nat /\ DOMAIN q = 1 .. Len(q)
      /\ \A i \in DOMAIN q : q[i].elapsed \in Int /\ q[i].elapsed >= 0
  BY <1>0, QueueEntries
<1>r. /\ r \in Seq(QueueEntry)
      /\ DOMAIN r = 1 .. Len(q) + 1
      /\ \A i \in 1 .. Len(q) : r[i] = q[i]
      /\ r[Len(q) + 1] = e
  BY <1>0, <1>e, AppendProperties
<1>1. /\ t.mode = s.mode /\ t.attached = s.attached
      /\ t.has_access = s.has_access /\ t.has_write_lock = s.has_write_lock
      /\ t.lock_acquired = s.lock_acquired
      /\ t.write_lock_holder = s.write_lock_holder
      /\ t.exclusive_lock_holder = s.exclusive_lock_holder
      /\ t.access_queue = r
  BY <1>0 DEF DeviceSharingState
<1>T. t \in DeviceSharingState
  <2> HIDE DEF r
  <2> QED
    BY <1>0, <1>r DEF DeviceSharingState
<1> HIDE DEF t, r
<1>2. Holder(t) = Holder(s)
  BY <1>1 DEF Holder
<1>3. LockConsistent(t)
  BY <1>1, <1>2 DEF SharingInv, LockConsistent
<1>4. QueueConsistent(t)
  <2>0. \A i \in 1 .. Len(q) : q[i].handle # h
    BY <1>q DEF Queued
  <2>1. \A i \in DOMAIN r : r[i].handle \in s.attached
    BY <1>q, <1>r DEF SharingInv, QueueConsistent
  <2>2. s.mode = "ReadOnly" => \A i \in DOMAIN r : r[i].wants_write
    BY <1>q, <1>r DEF SharingInv, QueueConsistent
  <2>3. \A i, j \in DOMAIN r : r[i].handle = r[j].handle => i = j
    <3> SUFFICES ASSUME NEW i \in DOMAIN r, NEW j \in DOMAIN r,
                        r[i].handle = r[j].handle
                 PROVE  i = j
      OBVIOUS
    <3>1. CASE i \in 1 .. Len(q) /\ j \in 1 .. Len(q)
      BY <3>1, <1>q, <1>r DEF SharingInv, QueueConsistent
    <3>2. CASE i = Len(q) + 1 \/ j = Len(q) + 1
      BY <3>2, <2>0, <1>q, <1>r
    <3> QED
      BY <3>1, <3>2, <1>q, <1>r
  <2>n. r[Len(q) + 1].elapsed = 0 /\ r[Len(q) + 1].handle = h
    BY <1>r
  <2>4. \A i, j \in DOMAIN r : i < j => r[i].elapsed >= r[j].elapsed
    <3> SUFFICES ASSUME NEW i \in DOMAIN r, NEW j \in DOMAIN r, i < j
                 PROVE  r[i].elapsed >= r[j].elapsed
      OBVIOUS
    <3>1. i \in 1 .. Len(q)
      BY <1>q, <1>r
    <3>2. CASE j = Len(q) + 1
      BY <3>1, <3>2, <2>n, <1>q, <1>r
    <3>3. CASE j \in 1 .. Len(q)
      BY <3>1, <3>3, <1>q, <1>r DEF SharingInv, QueueConsistent
    <3> QED
      BY <3>2, <3>3, <1>q, <1>r
  <2>5. \A i \in DOMAIN r : r[i].handle = Holder(s) =>
          r[i].elapsed >= s.lock_acquired[r[i].handle]
    <3> SUFFICES ASSUME NEW i \in DOMAIN r, r[i].handle = Holder(s)
                 PROVE  r[i].elapsed >= s.lock_acquired[r[i].handle]
      OBVIOUS
    <3>1. i \in 1 .. Len(q)
      BY <2>n, <1>q, <1>r
    <3> QED
      BY <3>1, <1>q, <1>r DEF SharingInv, QueueConsistent
  <2> QED
    BY <2>1, <2>2, <2>3, <2>4, <2>5, <1>1, <1>2 DEF QueueConsistent
<1>5. WithinCapacity(t)
  BY <1>1 DEF SharingInv, WithinCapacity
<1> QED
  BY <1>T, <1>3, <1>4, <1>5 DEF SharingInv

LEMMA AcquireLockInv ==
  ASSUME NEW s, SharingInv(s), NEW h \in Handle, NEW w \in BOOLEAN
  PROVE  SharingInv(AcquireLock(s, h, w))
<1>1. CASE ~Competes(s, h, w) \/ Holder(s) = h
  BY <1>1 DEF AcquireLock
<1>2. CASE Competes(s, h, w) /\ Holder(s) # h
  <2>1. /\ h \in s.attached /\ s.mode # "Exclusive"
        /\ s.mode = "ReadOnly" => w
    BY <1>2 DEF Competes
  <2>2. CASE Holder(s) = NoHandle
    BY <1>2, <2>1, <2>2, GrantInv DEF AcquireLock
  <2>3. CASE Holder(s) # NoHandle
    BY <1>2, <2>1, <2>3, AddToQueueInv DEF AcquireLock
  <2> QED
    BY <2>2, <2>3
<1> QED
  BY <1>1, <1>2

\* Replacing the queue by a part of it, in the same order, keeps the invariant.
LEMMA SubQueueInv ==
  ASSUME NEW s, SharingInv(s), NEW r \in Seq(QueueEntry),
         NEW f \in [DOMAIN r -> DOMAIN s.access_queue],
         \A i \in DOMAIN r : r[i] = s.access_queue[f[i]],
         \A i, j \in DOMAIN r : i < j => f[i] < f[j]
  PROVE  SharingInv([s EXCEPT !.access_queue = r])
<1> DEFINE q == s.access_queue
           t == [s EXCEPT !.access_queue = r]
<1> SUFFICES SharingInv(t)
  OBVIOUS
<1>0. s \in DeviceSharingState /\ q \in Seq(QueueEntry)
  BY DEF SharingInv, DeviceSharingState
<1>q. Len(q) \in Nat /\ DOMAIN q = 1 .. Len(q)
  BY <1>0, QueueEntries
<1>r. Len(r) \in Nat /\ DOMAIN r = 1 .. Len(r)
  BY QueueEntries
<1>1. /\ t.mode = s.mode /\ t.attached = s.attached
      /\ t.has_access = s.has_access /\ t.has_write_lock = s.has_write_lock
      /\ t.lock_acquired = s.lock_acquired
      /\ t.write_lock_holder = s.write_lock_holder
      /\ t.exclusive_lock_holder = s.exclusive_lock_holder
      /\ t.access_queue = r
      /\ t \in DeviceSharingState
  BY <1>0 DEF DeviceSharingState
<1> HIDE DEF t
<1>2. Holder(t) = Holder(s)
  BY <1>1 DEF Holder
<1>3. LockConsistent(t)
  BY <1>1, <1>2 DEF SharingInv, LockConsistent
<1>4. QueueConsistent(t)
  <2>1. \A i \in DOMAIN r : f[i] \in DOMAIN q
    OBVIOUS
  <2>2. s.mode = "Exclusive" => r = <<>>
    BY <2>1, <1>r DEF SharingInv, QueueConsistent
  <2>3. \A i, j \in DOMAIN r : r[i].handle = r[j].handle => i = j
    <3> SUFFICES ASSUME NEW i \in DOMAIN r, NEW j \in DOMAIN r,
                        r[i].handle = r[j].handle, i # j
                 PROVE  FALSE
      OBVIOUS
    <3>1. f[i] = f[j]
      BY <2>1 DEF SharingInv, QueueConsistent
    <3>2. f[i] \in Int /\ (i < j \/ j < i)
      BY <1>q, <1>r, <2>1
    <3> QED
      BY <3>1, <3>2
  <2>4. \A i, j \in DOMAIN r : i < j => r[i].elapsed >= r[j].elapsed
    BY <2>1 DEF SharingInv, QueueConsistent
  <2> QED
    BY <2>1, <2>2, <2>3, <2>4, <1>1, <1>2 DEF SharingInv, QueueConsistent
<1>5. WithinCapacity(t)
  BY <1>1 DEF SharingInv, WithinCapacity
<1> QED
  BY <1>1, <1>3, <1>4, <1>5 DEF SharingInv

\* Retaining the entries of the other handles removes exactly the entry of h,
\* and keeps the rest in order.
LEMMA RetainLemma ==
  ASSUME NEW s, SharingInv(s), NEW h \in Handle
  PROVE  LET q == s.access_queue
             r == Retain(s, h)
         IN  /\ r \in Seq(QueueEntry)
             /\ \A i \in DOMAIN r : r[i].handle # h
             /\ \E f \in [DOMAIN r -> DOMAIN q] :
                  /\ \A i \in DOMAIN r : r[i] = q[f[i]]
                  /\ \A i, j \in DOMAIN r : i < j => f[i] < f[j]
             /\ \A i \in DOMAIN q : q[i].handle # h => \E j \in DOMAIN r : r[j] = q[i]
<1> DEFINE q == s.access_queue
           r == Retain(s, h)
           Kept == /\ r \in Seq(QueueEntry)
                   /\ \A i \in DOMAIN r : r[i].handle # h
                   /\ \E f \in [DOMAIN r -> DOMAIN q] :
                        /\ \A i \in DOMAIN r : r[i] = q[f[i]]
                        /\ \A i, j \in DOMAIN r : i < j => f[i] < f[j]
                   /\ \A i \in DOMAIN q : q[i].handle # h
                                            => \E j \in DOMAIN r : r[j] = q[i]
<1> SUFFICES Kept
  OBVIOUS
<1>0. s \in DeviceSharingState /\ q \in Seq(QueueEntry)
  BY DEF SharingInv, DeviceSharingState
<1>q. Len(q) \in Nat /\ DOMAIN q = 1 .. Len(q)
  BY <1>0, QueueEntries
<1>1. CASE ~Queued(s, h)
  <2>1. r = q
    BY <1>1 DEF Retain
  <2>2. [i \in DOMAIN r |-> i] \in [DOMAIN r -> DOMAIN q]
    BY <2>1
  <2>3. \A i \in DOMAIN q : q[i].handle # h
    BY <1>1 DEF Queued
  <2>4. \E f \in [DOMAIN r -> DOMAIN q] :
          /\ \A i \in DOMAIN r : r[i] = q[f[i]]
          /\ \A i, j \in DOMAIN r : i < j => f[i] < f[j]
    BY <2>1, <2>2
  <2> HIDE DEF r
  <2> QED
    BY <2>1, <2>3, <2>4, <1>0
<1>2. CASE Queued(s, h)
  <2> DEFINE k == QueueIndex(s, h)
             f == [i \in DOMAIN r |-> IF i < k THEN i ELSE i + 1]
  <2>1. k \in 1 .. Len(q) /\ q[k].handle = h
    BY <1>2, <1>0, QueueIndexLemma
  <2>2. r = SubSeq(q, 1, k - 1) \o SubSeq(q, k + 1, Len(q))
    BY <1>2 DEF Retain
  <2> HIDE DEF k, r
  <2>3. /\ SubSeq(q, 1, k - 1) \in Seq(QueueEntry)
        /\ Len(SubSeq(q, 1, k - 1)) = k - 1
        /\ \A i \in 1 .. k - 1 : SubSeq(q, 1, k - 1)[i] = q[i]
    BY <2>1, <1>0, <1>q
  <2>4. /\ SubSeq(q, k + 1, Len(q)) \in Seq(QueueEntry)
        /\ Len(SubSeq(q, k + 1, Len(q))) = Len(q) - k
        /\ \A i \in 1 .. Len(q) - k : SubSeq(q, k + 1, Len(q))[i] = q[k + i]
    BY <2>1, <1>0, <1>q
  <2>c. /\ r \in Seq(QueueEntry)
        /\ Len(r) = Len(q) - 1
        /\ \A i \in 1 .. Len(q) - 1 :
             r[i] = IF i < k THEN SubSeq(q, 1, k - 1)[i]
                             ELSE SubSeq(q, k + 1, Len(q))[i - (k - 1)]
    <3> DEFINE a == SubSeq(q, 1, k - 1)
               b == SubSeq(q, k + 1, Len(q))
    <3>1. r = a \o b
      BY <2>2
    <3>2. a \in Seq(QueueEntry) /\ b \in Seq(QueueEntry)
      BY <2>3, <2>4
    <3>3. Len(a) = k - 1 /\ Len(b) = Len(q) - k
      BY <2>3, <2>4
    <3> HIDE DEF a, b
    <3>4. /\ r \in Seq(QueueEntry)
          /\ Len(r) = Len(a) + Len(b)
          /\ \A i \in 1 .. Len(a) + Len(b) :
               r[i] = IF i <= Len(a) THEN a[i] ELSE b[i - Len(a)]
      BY <3>1, <3>2, ConcatProperties
    <3>5. \A i \in 1 .. Len(q) - 1 : r[i] = IF i < k THEN a[i] ELSE b[i - (k - 1)]
      BY <3>3, <3>4, <2>1, <1>q
    <3>6. Len(r) = Len(q) - 1
      BY <3>3, <3>4, <2>1, <1>q
    <3> QED
      BY <3>4, <3>5, <3>6 DEF a, b
  <2>5. /\ r \in Seq(QueueEntry)
        /\ DOMAIN r = 1 .. Len(q) - 1
        /\ \A i \in DOMAIN r : r[i] = q[f[i]]
    <3>1. DOMAIN r = 1 .. Len(q) - 1
      BY <2>c, QueueEntries
    <3>2. ASSUME NEW i \in DOMAIN r
          PROVE  r[i] = q[f[i]]
      <4>1. CASE i < k
        BY <4>1, <3>1, <2>1, <2>3, <2>c, <1>q
      <4>2. CASE ~(i < k)
        <5>1. i - (k - 1) \in 1 .. Len(q) - k /\ f[i] = i + 1
          BY <4>2, <3>1, <2>1, <1>q
        <5>2. r[i] = q[k + (i - (k - 1))]
          BY <4>2, <5>1, <3>1, <2>4, <2>c
        <5> QED
          BY <5>1, <5>2, <3>1, <2>1, <1>q
      <4> QED
        BY <4>1, <4>2
    <3> QED
      BY <2>c, <3>1, <3>2
  <2>6. f \in [DOMAIN r -> DOMAIN q]
    BY <2>1, <2>5, <1>q
  <2>7. \A i, j \in DOMAIN r : i < j => f[i] < f[j]
    BY <2>1, <2>5, <1>q
  <2>8. \A i \in DOMAIN r : f[i] # k
    BY <2>1, <2>5, <1>q
  <2>9. \A i \in DOMAIN r : q[f[i]].handle # h
    <3> HIDE DEF f
    <3> QED
      BY <2>1, <2>6, <2>8, <1>q DEF SharingInv, QueueConsistent
  <2>a. ASSUME NEW i \in DOMAIN q, q[i].handle # h
        PROVE  \E j \in DOMAIN r : r[j] = q[i]
    <3>1. i # k /\ i \in 1 .. Len(q)
      BY <2>a, <2>1, <1>q
    <3>2. CASE i < k
      <4>1. i \in DOMAIN r /\ f[i] = i
        BY <3>1, <3>2, <2>1, <2>5, <1>q
      <4> QED
        BY <4>1, <2>5
    <3>3. CASE i > k
      <4>1. i - 1 \in DOMAIN r /\ f[i - 1] = i
        BY <3>1, <3>3, <2>1, <2>5, <1>q
      <4> QED
        BY <4>1, <2>5
    <3> QED
      BY <3>1, <3>2, <3>3, <2>1, <1>q
  <2> HIDE DEF f
  <2> QED
    BY <2>5, <2>6, <2>7, <2>9, <2>a
<1> QED
  BY <1>1, <1>2

\* Detaching drops the client's lock, flags and queue entry together.
LEMMA DetachClientInv ==
  ASSUME NEW s, SharingInv(s), NEW h \in Handle
  PROVE  SharingInv(DetachClient(s, h))
<1> DEFINE q == s.access_queue
           r == Retain(s, h)
           t == DetachClient(s, h)
<1> USE SharingAssumption
<1> SUFFICES ASSUME h \in s.attached
             PROVE  SharingInv(t)
  BY DEF DetachClient
<1>0. s \in DeviceSharingState /\ q \in Seq(QueueEntry) /\ h # NoHandle
  BY DEF SharingInv, DeviceSharingState
<1>q. Len(q) \in Nat /\ DOMAIN q = 1 .. Len(q)
  BY <1>0, QueueEntries
<1>r. /\ r \in Seq(QueueEntry)
      /\ \A i \in DOMAIN r : r[i].handle # h
      /\ \E f \in [DOMAIN r -> DOMAIN q] :
           /\ \A i \in DOMAIN r : r[i] = q[f[i]]
           /\ \A i, j \in DOMAIN r : i < j => f[i] < f[j]
  BY RetainLemma
<1> DEFINE u == [s EXCEPT !.access_queue = r]
<1> HIDE DEF r
<1>u. SharingInv(u)
  BY <1>r, SubQueueInv
<1>1. /\ t.mode = u.mode
      /\ t.attached = u.attached \ {h}
      /\ t.has_access = u.has_access \ {h}
      /\ t.has_write_lock = u.has_write_lock \ {h}
      /\ t.lock_acquired = [u.lock_acquired EXCEPT ![h] = NoTime]
      /\ t.write_lock_holder = IF u.write_lock_holder = h
                               THEN NoHandle ELSE u.write_lock_holder
      /\ t.exclusive_lock_holder = IF u.exclusive_lock_holder = h
                                   THEN NoHandle ELSE u.exclusive_lock_holder
      /\ t.access_queue = r /\ u.access_queue = r
  BY <1>0 DEF DetachClient, DeviceSharingState, r
<1>T. t \in DeviceSharingState
  <2> DEFINE lock == [s.lock_acquired EXCEPT ![h] = NoTime]
  <2>1. lock \in [Handle -> Elapsed \cup {NoTime}]
    BY <1>0 DEF DeviceSharingState
  <2>2. t = [s EXCEPT
               !.attached              = s.attached \ {h},
               !.has_access            = s.has_access \ {h},
               !.has_write_lock        = s.has_write_lock \ {h},
               !.lock_acquired         = lock,
               !.write_lock_holder     = IF s.write_lock_holder = h
                                         THEN NoHandle ELSE s.write_lock_holder,
               !.exclusive_lock_holder = IF s.exclusive_lock_holder = h
                                         THEN NoHandle ELSE s.exclusive_lock_holder,
               !.access_queue          = r]
    BY DEF DetachClient, r
  <2> HIDE DEF lock, t
  <2> QED
    BY <1>0, <1>r, <2>1, <2>2 DEF DeviceSharingState, MaybeHandle
<1>t. u \in DeviceSharingState
  BY <1>u DEF SharingInv
<1> HIDE DEF t, u
<1>2. Holder(t) = IF Holder(u) = h THEN NoHandle ELSE Holder(u)
  BY <1>1 DEF Holder
<1>3. LockConsistent(t)
  <2>1. \A g \in Handle : u.mode # "Exclusive" =>
          (t.lock_acquired[g] # NoTime <=> g = Holder(t))
    BY <1>t, <1>u, <1>0, <1>1, <1>2 DEF SharingInv, LockConsistent, DeviceSharingState
  <2> QED
    BY <2>1, <1>0, <1>u, <1>1, <1>2 DEF SharingInv, LockConsistent
<1>4. QueueConsistent(t)
  <2>1. \A i \in DOMAIN r : r[i].handle \in Handle \ {h, NoHandle}
    BY <1>r, QueueEntries
  <2>2. \A i \in DOMAIN r : t.lock_acquired[r[i].handle] = u.lock_acquired[r[i].handle]
    BY <2>1, <1>t, <1>1 DEF DeviceSharingState
  <2>3. \A i \in DOMAIN r : r[i].handle = Holder(t) => r[i].handle = Holder(u)
    BY <2>1, <1>2
  <2> QED
    BY <2>1, <2>2, <2>3, <1>u, <1>1 DEF SharingInv, QueueConsistent
<1>5. WithinCapacity(t)
  <2>1. IsFiniteSet(u.attached)
    BY <1>t, FS_Subset DEF DeviceSharingState
  <2>2. /\ Cardinality(u.attached \ {h}) <= Cardinality(u.attached)
        /\ Cardinality(u.attached) \in Nat /\ Cardinality(u.attached \ {h}) \in Nat
    BY <2>1, FS_Subset, FS_CardinalityType, u.attached \ {h} \subseteq u.attached
  <2> QED
    BY <2>2, <1>u, <1>1 DEF SharingInv, WithinCapacity
<1> QED
  BY <1>T, <1>3, <1>4, <1>5 DEF SharingInv

\* Granting from the queue keeps the invariant: the entries that are dropped
\* or served are a prefix of the queue.
LEMMA ProcessQueueInv ==
  ASSUME NEW s, SharingInv(s)
  PROVE  SharingInv(ProcessQueue(s))
<1> DEFINE q == s.access_queue
           k == ExpiredPrefix(q)
           Suffix(n) == [s EXCEPT !.access_queue = SubSeq(q, n, Len(q))]
<1> SUFFICES ASSUME s.mode # "Exclusive", Holder(s) = NoHandle
             PROVE  SharingInv(ProcessQueue(s))
  BY DEF ProcessQueue
<1>0. s \in DeviceSharingState /\ q \in Seq(QueueEntry)
  BY DEF SharingInv, DeviceSharingState
<1>q. Len(q) \in Nat /\ DOMAIN q = 1 .. Len(q)
  BY <1>0, QueueEntries
<1>k. k \in 0 .. Len(q)
  BY <1>0, ExpiredPrefixLemma
<1> HIDE DEF k
<1>1. ASSUME NEW n \in 1 .. Len(q) + 1
      PROVE  SharingInv(Suffix(n))
  <2> DEFINE r == SubSeq(q, n, Len(q))
             f == [i \in DOMAIN r |-> n + i - 1]
  <2>1. /\ r \in Seq(QueueEntry)
        /\ DOMAIN r = 1 .. Len(q) - n + 1
        /\ \A i \in DOMAIN r : r[i] = q[n + i - 1]
    BY <1>0, <1>q
  <2> HIDE DEF r
  <2>2. f \in [DOMAIN r -> DOMAIN q]
    BY <2>1, <1>q
  <2>3. \A i, j \in DOMAIN r : i < j => f[i] < f[j]
    BY <2>1, <1>q
  <2>4. \A i \in DOMAIN r : r[i] = q[f[i]]
    BY <2>1
  <2> HIDE DEF f
  <2> QED
    BY <2>1, <2>2, <2>3, <2>4, SubQueueInv DEF r
<1>2. ASSUME NEW n \in 1 .. Len(q) + 1
      PROVE  /\ Suffix(n).mode = s.mode
             /\ Suffix(n).attached = s.attached
             /\ Holder(Suffix(n)) = NoHandle
  BY <1>0 DEF DeviceSharingState, Holder
<1>3. CASE q = <<>>
  BY <1>3 DEF ProcessQueue
<1>4. CASE q # <<>> /\ k = Len(q)
  <2>1. SubSeq(q, Len(q) + 1, Len(q)) = <<>>
    BY <1>0, <1>q
  <2>2. ProcessQueue(s) = Suffix(Len(q) + 1)
    BY <1>4, <2>1 DEF ProcessQueue, k
  <2>3. Len(q) + 1 \in 1 .. Len(q) + 1
    BY <1>q
  <2> HIDE DEF Suffix
  <2> QED
    BY <2>2, <2>3, <1>1
<1>5. CASE q # <<>> /\ k # Len(q)
  <2> DEFINE entry == q[k + 1]
             rest  == Suffix(k + 2)
  <2>1. k + 2 \in 1 .. Len(q) + 1
    BY <1>5, <1>k, <1>q
  <2>2. SharingInv(rest) /\ rest.mode = s.mode /\ rest.attached = s.attached
        /\ Holder(rest) = NoHandle
    BY <2>1, <1>1, <1>2
  <2>3. ProcessQueue(s) = IF /\ entry.handle \in s.attached
                             /\ s.mode = "Shared" \/ entry.wants_write
                          THEN Grant(rest, entry.handle) ELSE rest
    BY <1>5 DEF ProcessQueue, k
  <2> HIDE DEF rest, entry
  <2> QED
    BY <2>2, <2>3, GrantInv
<1> QED
  BY <1>3, <1>4, <1>5

LEMMA ProcessAllInv ==
  ASSUME NEW s, SharingInv(s)
  PROVE  SharingInv(ProcessAll(s))
<1>1. CheckLockTimeout(s) \in Handle \cup {NoHandle}
  BY DEF CheckLockTimeout, SharingInv, DeviceSharingState, MaybeHandle
<1> QED
  BY <1>1, ReleaseLockInv, ProcessQueueInv DEF ProcessAll

\* Time passes for every client alike, so the order of the queue and the age
\* of the lock relative to the queue entries stay as they are.
LEMMA AgeInv ==
  ASSUME NEW s, SharingInv(s)
  PROVE  SharingInv(Age(s))
<1> DEFINE q == s.access_queue
           r == [i \in DOMAIN q |-> [q[i] EXCEPT !.elapsed = Older(@)]]
           l == [h \in Handle |-> Older(s.lock_acquired[h])]
           t == Age(s)
<1> USE SharingAssumption
<1> SUFFICES SharingInv(t)
  OBVIOUS
<1>0. s \in DeviceSharingState /\ q \in Seq(QueueEntry)
  BY DEF SharingInv, DeviceSharingState
<1>q. /\ Len(q) \in Nat /\ DOMAIN q = 1 .. Len(q)
      /\ \A i \in DOMAIN q : /\ q[i] \in QueueEntry
                             /\ q[i].elapsed \in Elapsed
                             /\ q[i].handle \in Handle
  BY <1>0, QueueEntries
<1>o. /\ \A x \in Elapsed \cup {NoTime} : /\ Older(x) \in Elapsed \cup {NoTime}
                                          /\ Older(x) # NoTime <=> x # NoTime
      /\ \A x \in Elapsed : Older(x) \in Elapsed
      /\ \A x, y \in Elapsed : x >= y => Older(x) >= Older(y)
      /\ \A x \in Elapsed : x >= NoTime /\ Older(x) >= NoTime
      /\ Older(NoTime) = NoTime
  BY DEF Elapsed, NoTime, Older
<1>r. /\ r \in Seq(QueueEntry)
      /\ DOMAIN r = DOMAIN q
      /\ \A i \in DOMAIN q : /\ r[i].handle = q[i].handle
                             /\ r[i].wants_write = q[i].wants_write
                             /\ r[i].elapsed = Older(q[i].elapsed)
  <2>1. \A e \in QueueEntry, x \in Elapsed :
           /\ [e EXCEPT !.elapsed = x] \in QueueEntry
           /\ [e EXCEPT !.elapsed = x].handle = e.handle
           /\ [e EXCEPT !.elapsed = x].wants_write = e.wants_write
           /\ [e EXCEPT !.elapsed = x].elapsed = x
    BY DEF QueueEntry
  <2>2. \A i \in DOMAIN q : r[i] = [q[i] EXCEPT !.elapsed = Older(q[i].elapsed)]
    OBVIOUS
  <2>3. r \in [1 .. Len(q) -> QueueEntry]
    BY <2>1, <1>q, <1>o
  <2>4. r \in Seq(QueueEntry)
    BY <2>3, <1>q, SeqDef
  <2> QED
    BY <2>1, <2>2, <2>4, <1>q, <1>o
<1>l. l \in [Handle -> Elapsed \cup {NoTime}]
  BY <1>0, <1>o DEF DeviceSharingState
<1>a. t = [s EXCEPT !.lock_acquired = l, !.access_queue = r]
  BY DEF Age
<1> HIDE DEF r, t
<1>1. /\ t.mode = s.mode /\ t.attached = s.attached
      /\ t.has_access = s.has_access /\ t.has_write_lock = s.has_write_lock
      /\ t.write_lock_holder = s.write_lock_holder
      /\ t.exclusive_lock_holder = s.exclusive_lock_holder
      /\ t.lock_acquired = l
      /\ t.access_queue = r
  BY <1>0, <1>a DEF DeviceSharingState
<1>T. t \in DeviceSharingState
  <2> HIDE DEF l
  <2> QED
    BY <1>0, <1>a, <1>r, <1>l DEF DeviceSharingState
<1>2. Holder(t) = Holder(s)
  BY <1>1 DEF Holder
<1>3. LockConsistent(t)
  <2>1. \A h \in Handle : l[h] # NoTime <=> s.lock_acquired[h] # NoTime
    BY <1>0, <1>o DEF DeviceSharingState
  <2> HIDE DEF l
  <2> QED
    BY <2>1, <1>1, <1>2 DEF SharingInv, LockConsistent
<1>4. QueueConsistent(t)
  <2>1. \A i, j \in DOMAIN r : i < j => r[i].elapsed >= r[j].elapsed
    BY <1>q, <1>o, <1>r DEF SharingInv, QueueConsistent
  <2>2. \A i \in DOMAIN r : r[i].handle = Holder(s) =>
           r[i].elapsed >= l[r[i].handle]
    <3> SUFFICES ASSUME NEW i \in DOMAIN q, q[i].handle = Holder(s)
                 PROVE  Older(q[i].elapsed) >= l[q[i].handle]
      BY <1>r
    <3>1. q[i].elapsed >= s.lock_acquired[q[i].handle]
      BY DEF SharingInv, QueueConsistent
    <3>2. s.lock_acquired[q[i].handle] \in Elapsed \cup {NoTime}
      BY <1>0, <1>q DEF DeviceSharingState
    <3> QED
      BY <3>1, <3>2, <1>q, <1>o
  <2> HIDE DEF l
  <2> QED
    BY <2>1, <2>2, <1>r, <1>q, <1>1, <1>2 DEF SharingInv, QueueConsistent
<1>5. WithinCapacity(t)
  BY <1>1 DEF SharingInv, WithinCapacity
<1> QED
  BY <1>T, <1>3, <1>4, <1>5 DEF SharingInv

=============================================================================
