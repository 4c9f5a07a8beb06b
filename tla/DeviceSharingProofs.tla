------------------------- MODULE DeviceSharingProofs -------------------------
(***************************************************************************)
(* The invariants of DeviceSharing, the order in which its queue is        *)
(* served, and the proof that it implements LeaseLock, for every set of    *)
(* handles, capacity and timeout.                                          *)
(***************************************************************************)
EXTENDS DeviceSharing, SharingStateProofs

-----------------------------------------------------------------------------
(* The invariants *)

\* Every call keeps the record consistent: the inductive invariant from which
\* the other results follow.
THEOREM Consistency == SharingSpec => []SharingInv(sharing)
<1>1. SharingInit => SharingInv(sharing)
  BY NewInv DEF SharingInit
<1>2. SharingInv(sharing) /\ [SharingNext]_sharing => SharingInv(sharing)'
  <2> SUFFICES ASSUME SharingInv(sharing), [SharingNext]_sharing
               PROVE  SharingInv(sharing')
    OBVIOUS
  <2>1. ASSUME NEW h \in Handle, Attach(h)
        PROVE  SharingInv(sharing')
    BY <2>1, AttachClientInv DEF Attach
  <2>2. ASSUME NEW h \in Handle, Detach(h)
        PROVE  SharingInv(sharing')
    BY <2>2, DetachClientInv DEF Detach
  <2>3. ASSUME NEW h \in Handle, Unlock(h)
        PROVE  SharingInv(sharing')
    BY <2>3, ReleaseLockInv DEF Unlock
  <2>4. ASSUME NEW h \in Handle, NEW w \in BOOLEAN, Lock(h, w)
        PROVE  SharingInv(sharing')
    BY <2>4, AcquireLockInv DEF Lock
  <2>5. CASE ProcessDeviceQueue
    BY <2>5, ProcessQueueInv DEF ProcessDeviceQueue
  <2>6. CASE ProcessAllQueues
    BY <2>6, ProcessAllInv DEF ProcessAllQueues
  <2>7. CASE Tick
    BY <2>7, AgeInv DEF Tick
  <2>8. CASE UNCHANGED sharing
    BY <2>8
  <2> QED
    BY <2>1, <2>2, <2>3, <2>4, <2>5, <2>6, <2>7, <2>8 DEF SharingNext
<1> QED
  BY <1>1, <1>2, PTL DEF SharingSpec

\* The fields of the record always have their declared types.
THEOREM TypeCorrect == SharingSpec => []SharingTypeOK
<1>1. SharingInv(sharing) => SharingTypeOK
  BY DEF SharingInv, SharingTypeOK
<1> QED
  BY <1>1, Consistency, PTL

\* The lock holder, the clients' flags and the lock time always agree.
THEOREM LockSafety == SharingSpec => []LockIsConsistent
<1>1. SharingInv(sharing) => LockIsConsistent
  BY DEF SharingInv, LockIsConsistent
<1> QED
  BY <1>1, Consistency, PTL

\* The queue is always in arrival order, without duplicates or strangers.
THEOREM QueueSafety == SharingSpec => []QueueIsConsistent
<1>1. SharingInv(sharing) => QueueIsConsistent
  BY DEF SharingInv, QueueIsConsistent
<1> QED
  BY <1>1, Consistency, PTL

\* No mode ever admits more clients than it may.
THEOREM Capacity == SharingSpec => []CapacityKept
<1>1. SharingInv(sharing) => CapacityKept
  BY DEF SharingInv, CapacityKept
<1> QED
  BY <1>1, Consistency, PTL

-----------------------------------------------------------------------------
(* What serving the queue does *)

\* The handles waiting in the record's queue.
Waiting(s) == {h \in Handle : Queued(s, h)}

\* What a call of process_queue on a free lock does: the first entry that has
\* not expired gets the lock, those before it are dropped, and those behind it
\* go on waiting.
ServedFrom(s, t, k) ==
  LET q == s.access_queue
  IN  /\ t.attached = s.attached /\ t.mode = s.mode
      /\ k \in 0 .. Len(q)
      /\ \A i \in 1 .. k : Expired(q[i].elapsed)
      /\ k < Len(q) => /\ ~Expired(q[k + 1].elapsed)
                       /\ Holder(t) = q[k + 1].handle
                       /\ t.lock_acquired[Holder(t)] = 0
      /\ k = Len(q) => Holder(t) = NoHandle
      /\ \A h \in Handle : Queued(t, h) <=> \E i \in k + 2 .. Len(q) : q[i].handle = h

LEMMA ProcessQueueEffect ==
  ASSUME NEW s, SharingInv(s), s.mode # "Exclusive", Holder(s) = NoHandle
  PROVE  ServedFrom(s, ProcessQueue(s), ExpiredPrefix(s.access_queue))
<1> DEFINE q == s.access_queue
           k == ExpiredPrefix(q)
           t == ProcessQueue(s)
<1>0. /\ s \in DeviceSharingState /\ q \in Seq(QueueEntry)
      /\ s.mode \in {"Shared", "ReadOnly"}
  BY DEF SharingInv, DeviceSharingState, SharingMode
<1>q. /\ Len(q) \in Nat /\ DOMAIN q = 1 .. Len(q)
      /\ \A i \in DOMAIN q : q[i].handle \in Handle
  BY <1>0, QueueEntries
<1>k. /\ k \in 0 .. Len(q)
      /\ \A i \in 1 .. k : Expired(q[i].elapsed)
      /\ k < Len(q) => ~Expired(q[k + 1].elapsed)
  BY <1>0, ExpiredPrefixLemma
<1> HIDE DEF k
<1>1. CASE k = Len(q)
  <2>e. t = [s EXCEPT !.access_queue = <<>>]
    <3>1. CASE q = <<>>
      <4>1. t = s
        BY <1>0, <3>1 DEF ProcessQueue
      <4> QED
        BY <1>0, <3>1, <4>1 DEF DeviceSharingState
    <3>2. CASE q # <<>>
      BY <1>0, <1>1, <3>2 DEF ProcessQueue, k
    <3> QED
      BY <3>1, <3>2
  <2> HIDE DEF t
  <2>1. t.access_queue = <<>> /\ t.attached = s.attached /\ t.mode = s.mode
        /\ Holder(t) = Holder(s)
    BY <1>0, <2>e DEF DeviceSharingState, Holder
  <2>2. \A h \in Handle : ~Queued(t, h)
    BY <2>1 DEF Queued
  <2>3. ~ \E i \in k + 2 .. Len(q) : TRUE
    BY <1>1, <1>k, <1>q
  <2> SUFFICES ServedFrom(s, t, k)
    BY DEF t, k
  <2> QED
    BY <1>1, <1>k, <1>q, <2>1, <2>2, <2>3 DEF ServedFrom
<1>2. CASE k < Len(q)
  <2> DEFINE entry == q[k + 1]
             r     == SubSeq(q, k + 2, Len(q))
             rest  == [s EXCEPT !.access_queue = r]
  <2>1. /\ entry.handle \in s.attached /\ entry.handle \in Handle
        /\ s.mode = "Shared" \/ entry.wants_write
    BY <1>0, <1>2, <1>k, <1>q DEF SharingInv, QueueConsistent
  <2>2. q # <<>>
    BY <1>2, <1>k, <1>q
  <2>3. t = Grant(rest, entry.handle)
    BY <1>2, <1>k, <1>q, <2>1, <2>2 DEF ProcessQueue, k
  <2>r. /\ DOMAIN r = 1 .. Len(q) - k - 1
        /\ \A i \in DOMAIN r : r[i] = q[k + 1 + i]
    BY <1>0, <1>2, <1>k, <1>q
  <2>4. /\ rest.mode = s.mode /\ rest.attached = s.attached
        /\ rest.access_queue = r /\ rest.lock_acquired = s.lock_acquired
        /\ DOMAIN rest = DOMAIN s
    BY <1>0 DEF DeviceSharingState
  <2> DEFINE h0 == entry.handle
  <2> HIDE DEF entry, r
  <2>5. /\ t.attached = s.attached /\ t.mode = s.mode /\ t.access_queue = r
        /\ Holder(t) = h0
        /\ t.lock_acquired = [s.lock_acquired EXCEPT ![h0] = 0]
    BY <1>0, <2>3 DEF Grant, Holder, DeviceSharingState
  <2>6. t.lock_acquired[h0] = 0
    BY <1>0, <2>1, <2>5 DEF DeviceSharingState
  <2> HIDE DEF t
  <2>7. \A h \in Handle : Queued(t, h) <=> \E i \in k + 2 .. Len(q) : q[i].handle = h
    <3> SUFFICES ASSUME NEW h \in Handle
                 PROVE  Queued(t, h) <=> \E i \in k + 2 .. Len(q) : q[i].handle = h
      OBVIOUS
    <3>1. ASSUME NEW i \in DOMAIN r, r[i].handle = h
          PROVE  k + 1 + i \in k + 2 .. Len(q) /\ q[k + 1 + i].handle = h
      BY <3>1, <2>r, <1>k, <1>q
    <3>2. ASSUME NEW i \in k + 2 .. Len(q), q[i].handle = h
          PROVE  i - k - 1 \in DOMAIN r /\ r[i - k - 1].handle = h
      <4>1. i - k - 1 \in DOMAIN r /\ k + 1 + (i - k - 1) = i
        BY <2>r, <1>k, <1>q
      <4> QED
        BY <3>2, <4>1, <2>r
    <3> QED
      BY <3>1, <3>2, <2>5 DEF Queued
  <2>8. h0 = q[k + 1].handle
    BY DEF entry
  <2> SUFFICES ServedFrom(s, t, k)
    BY DEF t, k
  <2> HIDE DEF h0
  <2> QED
    BY <1>2, <1>k, <1>q, <2>5, <2>6, <2>7, <2>8 DEF ServedFrom
<1> QED
  BY <1>1, <1>2, <1>k, <1>q

-----------------------------------------------------------------------------
(* What each call does to the lease: who is attached, who holds the lock,  *)
(* who waits and whether the holder's time is up.                          *)

Overdue(s) == LockExpired(s, Holder(s))

\* Overdue is a truth value, so that two of them can be compared.
LEMMA OverdueBoolean ==
  ASSUME NEW s
  PROVE  Overdue(s) \in BOOLEAN
BY DEF Overdue, LockExpired

\* A record whose lock is free has no overdue lease.
LEMMA FreeNotOverdue ==
  ASSUME NEW s, SharingInv(s), Holder(s) = NoHandle
  PROVE  ~Overdue(s)
BY SharingAssumption DEF SharingInv, DeviceSharingState, Overdue, LockExpired

\* The holder of a lock is an attached client of a mode that has a lock.
LEMMA HolderAttached ==
  ASSUME NEW s, SharingInv(s), Holder(s) # NoHandle
  PROVE  /\ Holder(s) \in s.attached /\ Holder(s) \in Handle
         /\ s.mode \in {"Shared", "ReadOnly"}
BY DEF SharingInv, DeviceSharingState, LockConsistent, Holder, SharingMode, MaybeHandle

\* Attaching changes neither the lock nor the queue.
LEMMA AttachEffect ==
  ASSUME NEW s, SharingInv(s), NEW h \in Handle, h \notin s.attached
  PROVE  LET t == AttachClient(s, h)
         IN  /\ t.attached = s.attached \cup {h}
             /\ Holder(t) = Holder(s)
             /\ t.access_queue = s.access_queue
             /\ Overdue(t) = Overdue(s)
<1> DEFINE t == AttachClient(s, h)
<1>0. s \in DeviceSharingState
  BY DEF SharingInv
<1>1. /\ t.attached = s.attached \cup {h}
      /\ t.access_queue = s.access_queue
      /\ \A g \in Handle \ {h} : t.lock_acquired[g] = s.lock_acquired[g]
  BY <1>0 DEF AttachClient, DeviceSharingState
<1>2. Holder(t) = Holder(s)
  BY <1>0 DEF AttachClient, DeviceSharingState, Holder
<1> SUFFICES Overdue(t) = Overdue(s)
  BY <1>1, <1>2
<1> HIDE DEF t
<1>3. CASE Holder(s) = NoHandle
  BY <1>1, <1>2, <1>3, <1>0, SharingAssumption DEF Overdue, LockExpired, DeviceSharingState
<1>4. CASE Holder(s) # NoHandle
  BY <1>1, <1>2, <1>4, HolderAttached DEF Overdue, LockExpired
<1> QED
  BY <1>3, <1>4

\* A client that detaches gives up its lock and its place in the queue.
LEMMA DetachEffect ==
  ASSUME NEW s, SharingInv(s), NEW h \in s.attached
  PROVE  LET t == DetachClient(s, h)
         IN  /\ t.attached = s.attached \ {h}
             /\ Holder(t) = (IF Holder(s) = h THEN NoHandle ELSE Holder(s))
             /\ Waiting(t) = Waiting(s) \ {h}
             /\ Overdue(t) = (Holder(s) # h /\ Overdue(s))
<1> DEFINE t == DetachClient(s, h)
           q == s.access_queue
           r == Retain(s, h)
<1>0. s \in DeviceSharingState /\ h \in Handle
  BY DEF SharingInv, DeviceSharingState
<1>1. /\ t.attached = s.attached \ {h}
      /\ t.access_queue = r
      /\ \A g \in Handle \ {h} : t.lock_acquired[g] = s.lock_acquired[g]
  BY <1>0 DEF DetachClient, DeviceSharingState
<1>2. Holder(t) = (IF Holder(s) = h THEN NoHandle ELSE Holder(s))
  BY <1>0 DEF DetachClient, DeviceSharingState, Holder
<1>r. /\ \A i \in DOMAIN r : r[i].handle # h
      /\ \E f \in [DOMAIN r -> DOMAIN q] : \A i \in DOMAIN r : r[i] = q[f[i]]
      /\ \A i \in DOMAIN q : q[i].handle # h => \E j \in DOMAIN r : r[j] = q[i]
  BY <1>0, RetainLemma
<1>i. SharingInv(t)
  BY <1>0, DetachClientInv
<1> HIDE DEF t, r
<1>3. ASSUME NEW g \in Handle
      PROVE  Queued(t, g) <=> Queued(s, g) /\ g # h
  BY <1>r, <1>1 DEF Queued
<1>4. Waiting(t) = Waiting(s) \ {h}
  BY <1>3 DEF Waiting
<1>5. Overdue(t) = (Holder(s) # h /\ Overdue(s))
  <2>1. CASE Holder(t) = NoHandle
    <3>1. ~Overdue(t)
      BY <2>1, <1>i, FreeNotOverdue
    <3>2. Holder(s) = h \/ Holder(s) = NoHandle
      BY <2>1, <1>2
    <3> QED
      BY <3>1, <3>2, FreeNotOverdue DEF Overdue, LockExpired
  <2>2. CASE Holder(t) # NoHandle
    BY <2>2, <1>1, <1>2, HolderAttached DEF Overdue, LockExpired
  <2> QED
    BY <2>1, <2>2
<1> QED
  BY <1>1, <1>2, <1>4, <1>5 DEF t

\* A client that asks for a free lock gets it, with a lease that starts now.
LEMMA GrantEffect ==
  ASSUME NEW s, SharingInv(s), NEW h \in s.attached,
         s.mode # "Exclusive", Holder(s) = NoHandle
  PROVE  LET t == Grant(s, h)
         IN  /\ t.attached = s.attached
             /\ Holder(t) = h
             /\ t.access_queue = s.access_queue
             /\ ~Overdue(t)
<1> DEFINE t == Grant(s, h)
<1>0. /\ s \in DeviceSharingState /\ h \in Handle
      /\ s.mode \in {"Shared", "ReadOnly"}
  BY DEF SharingInv, DeviceSharingState, SharingMode
<1>1. /\ t.attached = s.attached /\ t.access_queue = s.access_queue
      /\ t.mode = s.mode /\ Holder(t) = h
  BY <1>0 DEF Grant, DeviceSharingState, Holder
<1>2. t.lock_acquired[h] = 0
  BY <1>0 DEF Grant, DeviceSharingState
<1> SUFFICES ~Overdue(t)
  BY <1>1
<1> HIDE DEF t
<1> QED
  BY <1>1, <1>2, SharingAssumption DEF Overdue, LockExpired, Expired

\* A client that asks for a lock another one holds joins the queue.
LEMMA AddToQueueEffect ==
  ASSUME NEW s, SharingInv(s), NEW h \in s.attached, NEW w \in BOOLEAN
  PROVE  LET t == AddToQueue(s, h, w)
         IN  /\ t.attached = s.attached
             /\ Holder(t) = Holder(s)
             /\ Waiting(t) = Waiting(s) \cup {h}
             /\ Overdue(t) = Overdue(s)
<1> DEFINE q == s.access_queue
           e == [handle |-> h, wants_write |-> w, elapsed |-> 0]
           t == AddToQueue(s, h, w)
<1>0. s \in DeviceSharingState /\ h \in Handle /\ q \in Seq(QueueEntry)
  BY DEF SharingInv, DeviceSharingState
<1>q. Len(q) \in Nat /\ DOMAIN q = 1 .. Len(q)
  BY <1>0, QueueEntries
<1>1. /\ t.attached = s.attached /\ t.lock_acquired = s.lock_acquired
      /\ Holder(t) = Holder(s)
  BY <1>0 DEF AddToQueue, DeviceSharingState, Holder
<1>2. CASE Queued(s, h)
  <2>1. Waiting(t) = Waiting(s) /\ h \in Waiting(s)
    BY <1>2, <1>0 DEF AddToQueue, Waiting
  <2> QED
    BY <1>1, <2>1 DEF Overdue, LockExpired
<1>3. CASE ~Queued(s, h)
  <2>1. t.access_queue = Append(q, e)
    BY <1>3, <1>0 DEF AddToQueue, DeviceSharingState
  <2> HIDE DEF t
  <2>2. e \in QueueEntry /\ e.handle = h
    BY <1>0, SharingAssumption DEF QueueEntry, Elapsed
  <2> HIDE DEF e
  <2>3. /\ DOMAIN Append(q, e) = 1 .. Len(q) + 1
        /\ \A i \in 1 .. Len(q) : Append(q, e)[i] = q[i]
        /\ Append(q, e)[Len(q) + 1] = e
    BY <1>0, <2>2, AppendProperties
  <2>4. ASSUME NEW g \in Handle
        PROVE  Queued(t, g) <=> Queued(s, g) \/ g = h
    <3>1. Queued(t, g) <=> \E i \in 1 .. Len(q) + 1 : Append(q, e)[i].handle = g
      BY <2>1, <2>3 DEF Queued
    <3>2. Queued(s, g) <=> \E i \in 1 .. Len(q) : q[i].handle = g
      BY <1>q DEF Queued
    <3>3. \A i \in 1 .. Len(q) + 1 : i \in 1 .. Len(q) \/ i = Len(q) + 1
      BY <1>q
    <3>4. Len(q) + 1 \in 1 .. Len(q) + 1 /\ 1 .. Len(q) \subseteq 1 .. Len(q) + 1
      BY <1>q
    <3> QED
      BY <2>2, <2>3, <3>1, <3>2, <3>3, <3>4
  <2>5. Waiting(t) = Waiting(s) \cup {h}
    BY <2>4, <1>0 DEF Waiting
  <2> QED
    BY <1>1, <2>5 DEF Overdue, LockExpired, t
<1> QED
  BY <1>2, <1>3

\* The holder that lets go leaves the lock free and the queue alone.
LEMMA ReleaseLockEffect ==
  ASSUME NEW s, SharingInv(s), NEW h \in Handle, Holder(s) = h
  PROVE  LET t == ReleaseLock(s, h)
         IN  /\ t.attached = s.attached /\ t.mode = s.mode
             /\ Holder(t) = NoHandle
             /\ t.access_queue = s.access_queue
<1>1. h # NoHandle
  BY SharingAssumption
<1>2. /\ s \in DeviceSharingState /\ h \in s.attached
      /\ s.mode \in {"Shared", "ReadOnly"}
  BY <1>1, HolderAttached DEF SharingInv
<1> QED
  BY <1>1, <1>2 DEF ReleaseLock, DeviceSharingState, Holder

\* A tick ages the lease and leaves everything else.
LEMMA AgeEffect ==
  ASSUME NEW s, SharingInv(s)
  PROVE  LET t == Age(s)
         IN  /\ t.attached = s.attached
             /\ Holder(t) = Holder(s)
             /\ Waiting(t) = Waiting(s)
             /\ Overdue(s) => Overdue(t)
<1> DEFINE q == s.access_queue
           t == Age(s)
<1>0. s \in DeviceSharingState /\ q \in Seq(QueueEntry)
  BY DEF SharingInv, DeviceSharingState
<1>1. /\ t.attached = s.attached
      /\ Holder(t) = Holder(s)
      /\ t.access_queue = [i \in DOMAIN q |-> [q[i] EXCEPT !.elapsed = Older(@)]]
      /\ t.lock_acquired = [h \in Handle |-> Older(s.lock_acquired[h])]
  BY <1>0 DEF Age, DeviceSharingState, Holder
<1> HIDE DEF t
<1>2. \A i \in DOMAIN q : q[i] \in QueueEntry
  BY <1>0, QueueEntries
<1>3. \A i \in DOMAIN q : t.access_queue[i].handle = q[i].handle
  BY <1>1, <1>2 DEF QueueEntry
<1>4. Waiting(t) = Waiting(s)
  BY <1>1, <1>3 DEF Waiting, Queued
<1>5. ASSUME Overdue(s)
      PROVE  Overdue(t)
  <2>1. Holder(s) \in s.attached /\ Holder(s) \in Handle
    BY <1>5, HolderAttached, FreeNotOverdue
  <2>2. s.lock_acquired[Holder(s)] \in Elapsed \cup {NoTime}
    BY <1>0, <2>1 DEF DeviceSharingState
  <2>3. Older(s.lock_acquired[Holder(s)]) > LockTimeout
    BY <1>5, <2>2, SharingAssumption
       DEF Overdue, LockExpired, Expired, Older, Elapsed, NoTime
  <2> QED
    BY <1>1, <2>1, <2>3 DEF Overdue, LockExpired, Expired
<1> QED
  BY <1>1, <1>4, <1>5 DEF t

-----------------------------------------------------------------------------
(* Serving the queue *)

\* Who is served, seen from the abstract lock: the waiters that time out are
\* dropped, and the lock goes to one of the others unless there is none.
LEMMA ServeEffect ==
  ASSUME NEW s, SharingInv(s), s.mode # "Exclusive", Holder(s) = NoHandle
  PROVE  LET t == ProcessQueue(s)
             q == s.access_queue
         IN  /\ t.attached = s.attached
             /\ Holder(t) \in MaybeHandle
             /\ ~Overdue(t)
             /\ \A i \in DOMAIN q : q[i].handle = Holder(t) => ~Expired(q[i].elapsed)
             /\ \E dropped \in SUBSET Handle :
                  /\ dropped \subseteq Waiting(s)
                  /\ IF Holder(t) = NoHandle THEN dropped = Waiting(s)
                     ELSE Holder(t) \in Waiting(s) \ dropped
                  /\ Waiting(t) = Waiting(s) \ (dropped \cup {Holder(t)})
<1> DEFINE t == ProcessQueue(s)
           q == s.access_queue
           k == ExpiredPrefix(q)
           dropped == {q[i].handle : i \in 1 .. k}
           Drops(d) == /\ d \subseteq Waiting(s)
                       /\ IF Holder(t) = NoHandle THEN d = Waiting(s)
                          ELSE Holder(t) \in Waiting(s) \ d
                       /\ Waiting(t) = Waiting(s) \ (d \cup {Holder(t)})
<1> SUFFICES /\ t.attached = s.attached
             /\ Holder(t) \in MaybeHandle
             /\ ~Overdue(t)
             /\ \A i \in DOMAIN q : q[i].handle = Holder(t) => ~Expired(q[i].elapsed)
             /\ \E d \in SUBSET Handle : Drops(d)
  BY Zenon
<1>0. /\ s \in DeviceSharingState /\ q \in Seq(QueueEntry)
      /\ Len(q) \in Nat /\ DOMAIN q = 1 .. Len(q)
      /\ \A i \in DOMAIN q : q[i].handle \in Handle
  <2>1. s \in DeviceSharingState /\ q \in Seq(QueueEntry)
    BY DEF SharingInv, DeviceSharingState
  <2> QED
    BY <2>1, QueueEntries
<1>1. ServedFrom(s, t, k)
  BY ProcessQueueEffect
<1>i. SharingInv(t)
  BY ProcessQueueInv
<1>u. \A i, j \in DOMAIN q : q[i].handle = q[j].handle => i = j
  BY DEF SharingInv, QueueConsistent
<1> HIDE DEF t, k
<1>2. t.attached = s.attached /\ k \in 0 .. Len(q)
  BY <1>1 DEF ServedFrom
<1>3. Waiting(s) = {q[i].handle : i \in 1 .. Len(q)}
  BY <1>0 DEF Waiting, Queued
<1>4. Waiting(t) = {q[i].handle : i \in k + 2 .. Len(q)}
  <2>1. \A i \in k + 2 .. Len(q) : i \in DOMAIN q
    BY <1>0, <1>2
  <2> QED
    BY <1>0, <1>1, <2>1 DEF Waiting, ServedFrom
<1>5. 1 .. k \subseteq 1 .. Len(q)
  BY <1>0, <1>2
<1>6. dropped \in SUBSET Handle /\ dropped \subseteq Waiting(s)
  BY <1>0, <1>3, <1>5
<1>7. CASE k = Len(q)
  <2>1. Holder(t) = NoHandle
    BY <1>1, <1>7 DEF ServedFrom
  <2>2. Waiting(t) = {} /\ dropped = Waiting(s)
    BY <1>0, <1>3, <1>4, <1>7
  <2>3. ~Overdue(t)
    BY <2>1, <1>i, FreeNotOverdue
  <2> HIDE DEF dropped
  <2> QED
    BY <1>0, <1>2, <1>6, <2>1, <2>2, <2>3, SharingAssumption DEF MaybeHandle
<1>8. CASE k < Len(q)
  <2>1. /\ ~Expired(q[k + 1].elapsed)
        /\ Holder(t) = q[k + 1].handle
        /\ t.lock_acquired[Holder(t)] = 0
    BY <1>1, <1>8 DEF ServedFrom
  <2>2. k + 1 \in DOMAIN q /\ k + 1 \notin 1 .. k
    BY <1>0, <1>2, <1>8
  <2>3. Holder(t) \in Handle /\ Holder(t) # NoHandle
    BY <1>0, <2>1, <2>2, SharingAssumption
  <2>4. \A i \in DOMAIN q : q[i].handle = Holder(t) => i = k + 1
    BY <1>u, <2>1, <2>2
  <2>5. Holder(t) \in Waiting(s) \ dropped
    BY <1>0, <1>3, <1>5, <2>1, <2>2, <2>4
  <2>6. Waiting(t) = Waiting(s) \ (dropped \cup {Holder(t)})
    <3>1. \A i \in 1 .. Len(q) : i \in k + 2 .. Len(q) <=> i \notin 1 .. k /\ i # k + 1
      BY <1>0, <1>2
    <3>2. k + 2 .. Len(q) \subseteq 1 .. Len(q)
      BY <1>0, <1>2
    <3> QED
      BY <1>0, <1>3, <1>4, <1>5, <1>u, <2>1, <2>2, <3>1, <3>2
  <2>7. ~Overdue(t)
    BY <2>1, SharingAssumption DEF Overdue, LockExpired, Expired
  <2> HIDE DEF dropped
  <2> QED
    BY <1>2, <1>6, <2>1, <2>3, <2>4, <2>5, <2>6, <2>7 DEF MaybeHandle
<1>9. k = Len(q) \/ k < Len(q)
  BY <1>0, <1>2
<1> QED
  BY <1>7, <1>8, <1>9

\* check_lock_timeout finds the holder of the lock exactly when it is overdue.
LEMMA TimeoutFindsHolder ==
  ASSUME NEW s, SharingInv(s)
  PROVE  CheckLockTimeout(s) = IF Overdue(s) THEN Holder(s) ELSE NoHandle
<1>1. ~LockExpired(s, NoHandle)
  BY SharingAssumption DEF SharingInv, DeviceSharingState, LockExpired
<1>2. /\ s.mode # "Shared" => s.exclusive_lock_holder = NoHandle
      /\ s.mode # "ReadOnly" => s.write_lock_holder = NoHandle
  BY DEF SharingInv, LockConsistent
<1> QED
  BY <1>1, <1>2 DEF CheckLockTimeout, Overdue, Holder

\* process_all makes an overdue holder let go before it serves the queue.
LEMMA ProcessAllCases ==
  ASSUME NEW s, SharingInv(s)
  PROVE  ProcessAll(s) = ProcessQueue(IF Overdue(s) THEN ReleaseLock(s, Holder(s)) ELSE s)
<1>1. Overdue(s) => Holder(s) # NoHandle
  BY FreeNotOverdue
<1> QED
  BY <1>1, TimeoutFindsHolder DEF ProcessAll

\* An unlocked queue in a mode without a lock, or with the lock taken, is left
\* alone.
LEMMA ProcessQueueIdle ==
  ASSUME NEW s, s.mode = "Exclusive" \/ Holder(s) # NoHandle
  PROVE  ProcessQueue(s) = s
BY DEF ProcessQueue

\* A client that gets the lock out of the queue is the one process_queue met
\* first among those that had not timed out.
LEMMA ServedEntry ==
  ASSUME NEW s, SharingInv(s), NEW h \in Handle,
         s.mode # "Exclusive", Holder(s) = NoHandle,
         Holder(ProcessQueue(s)) = h
  PROVE  LET q == s.access_queue
             i == QueueIndex(s, h)
         IN  ~Expired(q[i].elapsed) /\ \A j \in 1 .. i - 1 : Expired(q[j].elapsed)
<1> DEFINE q == s.access_queue
           k == ExpiredPrefix(q)
           i == QueueIndex(s, h)
<1>0. /\ s \in DeviceSharingState /\ q \in Seq(QueueEntry)
      /\ Len(q) \in Nat /\ DOMAIN q = 1 .. Len(q)
  <2>1. s \in DeviceSharingState /\ q \in Seq(QueueEntry)
    BY DEF SharingInv, DeviceSharingState
  <2> QED
    BY <2>1, QueueEntries
<1>1. ServedFrom(s, ProcessQueue(s), k)
  BY ProcessQueueEffect
<1> HIDE DEF k
<1>2. k \in 0 .. Len(q) /\ \A j \in 1 .. k : Expired(q[j].elapsed)
  BY <1>1 DEF ServedFrom
<1>3. k # Len(q)
  BY <1>1, SharingAssumption DEF ServedFrom
<1>4. k + 1 \in DOMAIN q /\ k < Len(q)
  BY <1>0, <1>2, <1>3
<1>5. ~Expired(q[k + 1].elapsed) /\ q[k + 1].handle = h
  BY <1>1, <1>4 DEF ServedFrom
<1>6. i \in DOMAIN q /\ q[i].handle = h
  BY <1>0, <1>4, <1>5, QueueIndexLemma DEF Queued
<1>7. i = k + 1
  BY <1>4, <1>5, <1>6 DEF SharingInv, QueueConsistent
<1> HIDE DEF i
<1>8. i - 1 = k
  BY <1>2, <1>7
<1> QED
  BY <1>2, <1>5, <1>7, <1>8 DEF i

\* The queue is served in order: nobody that could still be served is passed
\* over for the client that gets the lock.
THEOREM ServiceOrder == SharingSpec => ServedInOrder
<1>1. SharingInv(sharing) /\ [SharingNext]_sharing
        => [\A h \in Handle : FromQueue(h) => InOrder(h)]_sharing
  <2> SUFFICES ASSUME SharingInv(sharing), SharingNext, NEW h \in Handle, FromQueue(h)
               PROVE  InOrder(h)
    OBVIOUS
  <2> USE SharingAssumption
  <2>0. h # NoHandle /\ h \in Waiting(sharing) /\ h \notin Waiting(sharing')
    BY DEF FromQueue, Waiting
  <2>1. ASSUME NEW g \in Handle, Attach(g)
        PROVE  FALSE
    BY <2>1, AttachEffect DEF Attach, FromQueue
  <2>2. ASSUME NEW g \in Handle, Detach(g)
        PROVE  FALSE
    <3>1. CASE g \in sharing.attached
      BY <2>0, <2>2, <3>1, DetachEffect DEF Detach, FromQueue
    <3>2. CASE g \notin sharing.attached
      BY <2>2, <3>2 DEF Detach, DetachClient, FromQueue
    <3> QED
      BY <3>1, <3>2
  <2>3. ASSUME NEW g \in Handle, Unlock(g)
        PROVE  FALSE
    <3>1. CASE Holder(sharing) = g
      BY <2>0, <2>3, <3>1, ReleaseLockEffect DEF Unlock, FromQueue
    <3>2. CASE Holder(sharing) # g
      BY <2>3, <3>2 DEF Unlock, ReleaseLock, FromQueue
    <3> QED
      BY <3>1, <3>2
  <2>4. ASSUME NEW g \in Handle, NEW w \in BOOLEAN, Lock(g, w)
        PROVE  FALSE
    <3>1. CASE ~Competes(sharing, g, w) \/ Holder(sharing) = g
      BY <2>4, <3>1 DEF Lock, AcquireLock, FromQueue
    <3>2. CASE Competes(sharing, g, w) /\ Holder(sharing) # g
      <4>1. g \in sharing.attached /\ sharing.mode # "Exclusive"
        BY <3>2 DEF Competes
      <4>2. CASE Holder(sharing) = NoHandle
        BY <2>4, <3>2, <4>1, <4>2, GrantEffect DEF Lock, AcquireLock, FromQueue, Queued
      <4>3. CASE Holder(sharing) # NoHandle
        BY <2>4, <3>2, <4>1, <4>3, AddToQueueEffect DEF Lock, AcquireLock, FromQueue
      <4> QED
        BY <4>2, <4>3
    <3> QED
      BY <3>1, <3>2
  <2>5. CASE ProcessDeviceQueue
    <3>1. sharing' # sharing
      BY DEF FromQueue
    <3>2. sharing.mode # "Exclusive" /\ Holder(sharing) = NoHandle
      BY <2>5, <3>1, ProcessQueueIdle DEF ProcessDeviceQueue
    <3> QED
      BY <2>5, <3>2, ServedEntry DEF ProcessDeviceQueue, FromQueue, InOrder
  <2>6. CASE ProcessAllQueues
    <3> DEFINE u == IF Overdue(sharing) THEN ReleaseLock(sharing, Holder(sharing))
                                        ELSE sharing
    <3>1. sharing' = ProcessQueue(u)
      BY <2>6, ProcessAllCases DEF ProcessAllQueues
    <3>2. /\ SharingInv(u) /\ u.access_queue = sharing.access_queue
          /\ Holder(u) \in {NoHandle, Holder(sharing)}
      <4>1. CASE Overdue(sharing)
        <5>1. Holder(sharing) \in Handle
          BY <4>1, FreeNotOverdue, HolderAttached
        <5> QED
          BY <4>1, <5>1, ReleaseLockInv, ReleaseLockEffect
      <4>2. CASE ~Overdue(sharing)
        BY <4>2
      <4> QED
        BY <4>1, <4>2
    <3> HIDE DEF u
    <3>3. sharing' # u
      BY <2>0, <3>2 DEF FromQueue
    <3>4. u.mode # "Exclusive" /\ Holder(u) = NoHandle
      BY <3>1, <3>3, ProcessQueueIdle
    <3>5. QueueIndex(u, h) = QueueIndex(sharing, h)
      BY <3>2 DEF QueueIndex
    <3> QED
      BY <3>1, <3>2, <3>4, <3>5, ServedEntry DEF FromQueue, InOrder
  <2>7. CASE Tick
    BY <2>7, AgeEffect DEF Tick, FromQueue
  <2> QED
    BY <2>1, <2>2, <2>3, <2>4, <2>5, <2>6, <2>7 DEF SharingNext
<1> QED
  BY <1>1, Consistency, PTL DEF SharingSpec, ServedInOrder

-----------------------------------------------------------------------------
(* The refinement *)

\* The abstract lock's variables, as functions of the record.
LeaseView(s) == <<s.attached, Holder(s), Waiting(s), Overdue(s)>>

\* A call of process_queue on a free lock, or on one that was just taken from
\* an overdue holder, is one service of the abstract lock.
LEMMA ServeStep ==
  ASSUME SharingInv(sharing), NEW u, SharingInv(u),
         u.attached = sharing.attached, u.access_queue = sharing.access_queue,
         u.mode # "Exclusive", Holder(u) = NoHandle,
         Holder(sharing) = NoHandle \/ Overdue(sharing),
         sharing' = ProcessQueue(u)
  PROVE  Lease!Next
<1>1. PICK dropped \in SUBSET Handle :
        /\ dropped \subseteq Waiting(u)
        /\ IF Holder(sharing') = NoHandle THEN dropped = Waiting(u)
           ELSE Holder(sharing') \in Waiting(u) \ dropped
        /\ Waiting(sharing') = Waiting(u) \ (dropped \cup {Holder(sharing')})
  BY ServeEffect, Zenon
<1>2. /\ sharing'.attached = sharing.attached
      /\ Holder(sharing') \in Handle \cup {NoHandle}
      /\ ~Overdue(sharing')
      /\ \A i \in DOMAIN sharing.access_queue :
           sharing.access_queue[i].handle = Holder(sharing')
             => ~Expired(sharing.access_queue[i].elapsed)
  BY ServeEffect DEF MaybeHandle
<1>3. Waiting(u) = Waiting(sharing)
  BY DEF Waiting, Queued
<1>4. ASSUME Overdue(sharing)
      PROVE  Holder(sharing') # Holder(sharing)
  <2> SUFFICES ASSUME Holder(sharing') = Holder(sharing)
               PROVE  FALSE
    OBVIOUS
  <2> DEFINE q == sharing.access_queue
  <2>1. Holder(sharing) # NoHandle
    BY <1>4, FreeNotOverdue
  <2>2. Queued(sharing, Holder(sharing))
    BY <2>1, <1>1, <1>3 DEF Waiting
  <2>3. PICK i \in DOMAIN q : q[i].handle = Holder(sharing)
    BY <2>2 DEF Queued
  <2>4. ~Expired(q[i].elapsed)
    BY <2>3, <1>2
  <2>5. q[i].elapsed >= sharing.lock_acquired[Holder(sharing)]
    BY <2>3 DEF SharingInv, QueueConsistent
  <2>6. sharing.lock_acquired[Holder(sharing)] > LockTimeout
    BY <1>4 DEF Overdue, LockExpired, Expired
  <2>7. /\ q[i].elapsed \in Int
        /\ sharing.lock_acquired[Holder(sharing)] \in Int
    <3>1. q \in Seq(QueueEntry) /\ sharing \in DeviceSharingState
      BY DEF SharingInv, DeviceSharingState
    <3>2. Holder(sharing) \in Handle
      BY <2>1, HolderAttached
    <3>3. sharing.lock_acquired[Holder(sharing)] \in Elapsed \cup {NoTime}
      BY <3>1, <3>2 DEF DeviceSharingState
    <3>4. q[i].elapsed \in Int
      BY <3>1, QueueEntries
    <3> QED
      BY <3>3, <3>4, SharingAssumption DEF Elapsed, NoTime
  <2> QED
    BY <2>4, <2>5, <2>6, <2>7, SharingAssumption DEF Expired
<1>5. Lease!Serve(dropped, Holder(sharing'))
  BY <1>1, <1>2, <1>3, <1>4 DEF Lease!Serve, Waiting, Overdue
<1> QED
  BY <1>2, <1>5 DEF Lease!Next

\* The code's calls are steps of the lease that LeaseLock promises: one holder
\* at a time, that loses the lock only by letting go, leaving or holding it
\* for too long, and a queue that is served whenever the lock can be given.
THEOREM LeaseRefinement == SharingSpec => ImplementsLease
<1>1. SharingInit => Lease!Init
  <2> SUFFICES ASSUME NEW mode \in SharingMode, sharing = New(mode)
               PROVE  Lease!Init
    BY DEF SharingInit
  <2>1. /\ sharing.attached = {} /\ Holder(sharing) = NoHandle
        /\ sharing.access_queue = <<>>
    BY DEF New, Holder
  <2>2. ~\E h \in Handle : Queued(sharing, h)
    BY <2>1 DEF Queued
  <2> QED
    BY <2>1, <2>2 DEF Lease!Init, LockExpired
<1>2. SharingInv(sharing) /\ [SharingNext]_sharing => [Lease!Next]_(Lease!vars)
  <2> SUFFICES ASSUME SharingInv(sharing), [SharingNext]_sharing
               PROVE  Lease!Next \/ UNCHANGED Lease!vars
    OBVIOUS
  <2> USE SharingAssumption
  <2>v. ASSUME LeaseView(sharing') = LeaseView(sharing)
        PROVE  UNCHANGED Lease!vars
    BY <2>v DEF LeaseView, Lease!vars, Waiting, Overdue
  <2>1. ASSUME NEW h \in Handle, Attach(h)
        PROVE  Lease!Next
    <3>1. Lease!Join(h)
      BY <2>1, AttachEffect DEF Attach, Lease!Join, Overdue, Queued
    <3> QED
      BY <3>1 DEF Lease!Next
  <2>2. ASSUME NEW h \in Handle, Detach(h)
        PROVE  Lease!Next \/ UNCHANGED Lease!vars
    <3>1. CASE h \in sharing.attached
      <4>1. /\ sharing'.attached = sharing.attached \ {h}
            /\ Holder(sharing') = IF Holder(sharing) = h THEN NoHandle ELSE Holder(sharing)
            /\ Waiting(sharing') = Waiting(sharing) \ {h}
            /\ Overdue(sharing') = (Holder(sharing) # h /\ Overdue(sharing))
        BY <2>2, <3>1, DetachEffect DEF Detach
      <4>2. /\ Holder(sharing) = h => Overdue(sharing') = FALSE
            /\ Holder(sharing) # h => Overdue(sharing') = Overdue(sharing)
        BY <4>1, OverdueBoolean
      <4>3. Lease!Leave(h)
        BY <4>1, <4>2 DEF Lease!Leave, Overdue, Waiting
      <4> QED
        BY <4>3 DEF Lease!Next
    <3>2. CASE h \notin sharing.attached
      BY <2>2, <2>v, <3>2 DEF Detach, DetachClient
    <3> QED
      BY <3>1, <3>2
  <2>3. ASSUME NEW h \in Handle, Unlock(h)
        PROVE  Lease!Next \/ UNCHANGED Lease!vars
    <3>1. CASE Holder(sharing) = h
      <4>1. /\ sharing'.attached = sharing.attached
            /\ Holder(sharing') = NoHandle
            /\ sharing'.access_queue = sharing.access_queue
            /\ SharingInv(sharing')
        BY <2>3, <3>1, ReleaseLockEffect, ReleaseLockInv DEF Unlock
      <4>2. ~Overdue(sharing')
        BY <4>1, FreeNotOverdue
      <4>3. Lease!Release(h)
        BY <3>1, <4>1, <4>2 DEF Lease!Release, Overdue, Queued
      <4> QED
        BY <4>3 DEF Lease!Next
    <3>2. CASE Holder(sharing) # h
      BY <2>3, <2>v, <3>2 DEF Unlock, ReleaseLock
    <3> QED
      BY <3>1, <3>2
  <2>4. ASSUME NEW h \in Handle, NEW w \in BOOLEAN, Lock(h, w)
        PROVE  Lease!Next \/ UNCHANGED Lease!vars
    <3>1. CASE ~Competes(sharing, h, w) \/ Holder(sharing) = h
      BY <2>4, <2>v, <3>1 DEF Lock, AcquireLock
    <3>2. CASE Competes(sharing, h, w) /\ Holder(sharing) # h
      <4>1. h \in sharing.attached /\ sharing.mode # "Exclusive"
        BY <3>2 DEF Competes
      <4>2. CASE Holder(sharing) = NoHandle
        <5>1. sharing' = Grant(sharing, h) /\ ~Overdue(sharing)
          BY <2>4, <3>2, <4>2, FreeNotOverdue DEF Lock, AcquireLock
        <5>2. /\ sharing'.attached = sharing.attached
              /\ Holder(sharing') = h
              /\ sharing'.access_queue = sharing.access_queue
              /\ Overdue(sharing') = Overdue(sharing)
          BY <4>1, <4>2, <5>1, GrantEffect, OverdueBoolean
        <5>3. Lease!Take(h)
          BY <4>1, <4>2, <5>2 DEF Lease!Take, Overdue, Queued
        <5> QED
          BY <5>3 DEF Lease!Next
      <4>3. CASE Holder(sharing) # NoHandle
        <5>1. sharing' = AddToQueue(sharing, h, w)
          BY <2>4, <3>2, <4>3 DEF Lock, AcquireLock
        <5>2. Lease!Wait(h)
          BY <3>2, <4>1, <4>3, <5>1, AddToQueueEffect DEF Lease!Wait, Overdue, Waiting
        <5> QED
          BY <5>2 DEF Lease!Next
      <4> QED
        BY <4>2, <4>3
    <3> QED
      BY <3>1, <3>2
  <2>5. CASE ProcessDeviceQueue
    <3>1. sharing' = ProcessQueue(sharing)
      BY <2>5 DEF ProcessDeviceQueue
    <3>2. CASE sharing.mode = "Exclusive" \/ Holder(sharing) # NoHandle
      BY <2>v, <3>1, <3>2, ProcessQueueIdle
    <3>3. CASE ~(sharing.mode = "Exclusive" \/ Holder(sharing) # NoHandle)
      BY <3>1, <3>3, ServeStep
    <3> QED
      BY <3>2, <3>3
  <2>6. CASE ProcessAllQueues
    <3>1. CASE Overdue(sharing)
      <4> DEFINE u == ReleaseLock(sharing, Holder(sharing))
      <4>1. /\ Holder(sharing) \in Handle /\ sharing.mode # "Exclusive"
            /\ sharing' = ProcessQueue(u)
        BY <2>6, <3>1, ProcessAllCases, FreeNotOverdue, HolderAttached DEF ProcessAllQueues
      <4>2. /\ SharingInv(u) /\ Holder(u) = NoHandle
            /\ u.attached = sharing.attached /\ u.mode = sharing.mode
            /\ u.access_queue = sharing.access_queue
        BY <4>1, ReleaseLockInv, ReleaseLockEffect
      <4> HIDE DEF u
      <4> QED
        BY <3>1, <4>1, <4>2, ServeStep
    <3>2. CASE ~Overdue(sharing)
      <4>1. sharing' = ProcessQueue(sharing)
        BY <2>6, <3>2, ProcessAllCases DEF ProcessAllQueues
      <4>2. CASE sharing.mode = "Exclusive" \/ Holder(sharing) # NoHandle
        BY <2>v, <4>1, <4>2, ProcessQueueIdle
      <4>3. CASE ~(sharing.mode = "Exclusive" \/ Holder(sharing) # NoHandle)
        BY <4>1, <4>3, ServeStep
      <4> QED
        BY <4>2, <4>3
    <3> QED
      BY <3>1, <3>2
  <2>7. CASE Tick
    <3>1. /\ sharing'.attached = sharing.attached
          /\ Holder(sharing') = Holder(sharing)
          /\ Waiting(sharing') = Waiting(sharing)
          /\ Overdue(sharing) => Overdue(sharing')
      BY <2>7, AgeEffect DEF Tick
    <3>2. CASE Overdue(sharing') = Overdue(sharing)
      BY <2>v, <3>1, <3>2 DEF LeaseView
    <3>3. CASE Overdue(sharing') # Overdue(sharing)
      <4>1. Overdue(sharing') /\ ~Overdue(sharing)
        BY <3>1, <3>3 DEF Overdue, LockExpired
      <4>2. SharingInv(sharing')
        BY <2>7, AgeInv DEF Tick
      <4>3. Lease!RunOut
        BY <3>1, <4>1, <4>2, FreeNotOverdue DEF Lease!RunOut, Overdue, Waiting
      <4> QED
        BY <4>3 DEF Lease!Next
    <3> QED
      BY <3>2, <3>3
  <2>8. CASE UNCHANGED sharing
    BY <2>v, <2>8
  <2> QED
    BY <2>1, <2>2, <2>3, <2>4, <2>5, <2>6, <2>7, <2>8 DEF SharingNext
<1> QED
  BY <1>1, <1>2, Consistency, PTL DEF SharingSpec, ImplementsLease, Lease!Spec

-----------------------------------------------------------------------------
(* Places in the queue *)

\* Whoever is in both queues is no further back in the second.
NoFurtherBack(s, t) ==
  \A i \in DOMAIN s.access_queue : \A j \in DOMAIN t.access_queue :
    s.access_queue[i].handle = t.access_queue[j].handle => j <= i

LEMMA SameQueue ==
  ASSUME NEW s, SharingInv(s), NEW t, t.access_queue = s.access_queue
  PROVE  NoFurtherBack(s, t)
<1>1. s \in DeviceSharingState
  BY DEF SharingInv
<1>2. DOMAIN s.access_queue = 1 .. Len(s.access_queue) /\ Len(s.access_queue) \in Nat
  BY <1>1, QueueEntries DEF DeviceSharingState
<1> QED
  BY <1>2 DEF NoFurtherBack, SharingInv, QueueConsistent

\* Entries that are kept in their order move forward only.
LEMMA KeptEntries ==
  ASSUME NEW s, SharingInv(s), NEW t, t.access_queue \in Seq(QueueEntry),
         NEW f \in [DOMAIN t.access_queue -> DOMAIN s.access_queue],
         \A j \in DOMAIN t.access_queue :
           t.access_queue[j].handle = s.access_queue[f[j]].handle,
         \A i, j \in DOMAIN t.access_queue : i < j => f[i] < f[j]
  PROVE  NoFurtherBack(s, t)
<1> DEFINE q == s.access_queue
           r == t.access_queue
<1>1. /\ DOMAIN q = 1 .. Len(q) /\ Len(q) \in Nat /\ DOMAIN r = 1 .. Len(r) /\ Len(r) \in Nat
  BY QueueEntries DEF SharingInv, DeviceSharingState
<1>2. \A i, j \in DOMAIN q : q[i].handle = q[j].handle => i = j
  BY DEF SharingInv, QueueConsistent
<1> HIDE DEF q, r
<1>3. \A j \in DOMAIN r : f[j] \in Nat /\ f[j] >= 1
  BY <1>1 DEF q, r
<1> DEFINE back == {j \in DOMAIN r : f[j] < j}
<1>4. back = {}
  <2> SUFFICES ASSUME back # {} PROVE FALSE
    OBVIOUS
  <2>1. back \in SUBSET Nat
    BY <1>1
  <2>2. PICK j \in back : \A n \in back : j <= n
    BY <2>1, LeastNatural
  <2>3. j \in DOMAIN r /\ j - 1 \in DOMAIN r /\ j \in Nat
    BY <1>1, <1>3, <2>2
  <2>4. f[j - 1] < f[j]
    BY <2>3 DEF r
  <2>5. j - 1 \in back
    BY <1>3, <2>2, <2>3, <2>4
  <2> QED
    BY <2>2, <2>3, <2>5
<1>5. ASSUME NEW i \in DOMAIN q, NEW j \in DOMAIN r, q[i].handle = r[j].handle PROVE j <= i
  <2>1. f[j] = i
    BY <1>2, <1>5 DEF q, r
  <2> QED
    BY <1>1, <1>3, <1>4, <1>5, <2>1
<1> QED
  BY <1>5 DEF NoFurtherBack, q, r

\* Serving the queue drops entries from its front.
LEMMA ServedMoveUp ==
  ASSUME NEW s, SharingInv(s)
  PROVE  NoFurtherBack(s, ProcessQueue(s))
<1> DEFINE q == s.access_queue
           k == ExpiredPrefix(q)
           t == ProcessQueue(s)
<1>0. s \in DeviceSharingState /\ q \in Seq(QueueEntry) /\ s.mode \in SharingMode
  BY DEF SharingInv, DeviceSharingState
<1>1. DOMAIN q = 1 .. Len(q) /\ Len(q) \in Nat
  BY <1>0, QueueEntries
<1>2. k \in 0 .. Len(q)
  BY <1>0, ExpiredPrefixLemma
<1> HIDE DEF k
<1>3. CASE s.mode = "Exclusive" \/ Holder(s) # NoHandle \/ q = <<>>
  <2>1. t = s
    BY <1>3 DEF ProcessQueue
  <2> QED
    BY <2>1, SameQueue
<1>4. CASE ~(s.mode = "Exclusive" \/ Holder(s) # NoHandle \/ q = <<>>)
  <2>1. CASE k = Len(q)
    <3>1. t = [s EXCEPT !.access_queue = <<>>]
      BY <1>4, <2>1 DEF ProcessQueue, k
    <3>2. t.access_queue = <<>>
      BY <1>0, <3>1 DEF DeviceSharingState
    <3> QED
      BY <3>2 DEF NoFurtherBack
  <2>2. CASE k # Len(q)
    <3>1. t.access_queue = SubSeq(q, k + 2, Len(q))
      BY <1>0, <1>4, <2>2 DEF ProcessQueue, k, Grant, DeviceSharingState
    <3> DEFINE r == SubSeq(q, k + 2, Len(q))
    <3>2. /\ r \in Seq(QueueEntry) /\ Len(r) \in Nat /\ DOMAIN r = 1 .. Len(r)
          /\ \A j \in DOMAIN r : r[j] = q[j + (k + 1)] /\ j + (k + 1) \in DOMAIN q
      BY <1>0, <1>1, <1>2, <2>2
    <3> HIDE DEF t, r
    <3>3. ASSUME NEW i \in DOMAIN q, NEW j \in DOMAIN r, q[i].handle = r[j].handle
          PROVE  j <= i
      <4>1. i = j + (k + 1)
        BY <3>2, <3>3 DEF SharingInv, QueueConsistent
      <4> QED
        BY <1>1, <1>2, <3>2, <4>1
    <3> QED
      BY <3>1, <3>3 DEF NoFurtherBack, t, r
  <2> QED
    BY <2>1, <2>2
<1> QED
  BY <1>3, <1>4

\* A client that leaves makes room.
LEMMA LeavingMovesUp ==
  ASSUME NEW s, SharingInv(s), NEW h \in Handle
  PROVE  NoFurtherBack(s, DetachClient(s, h))
<1>1. CASE h \notin s.attached
  BY <1>1, SameQueue DEF DetachClient
<1>2. CASE h \in s.attached
  <2>1. s \in DeviceSharingState
    BY DEF SharingInv
  <2>2. DetachClient(s, h).access_queue = Retain(s, h)
    BY <1>2, <2>1 DEF DetachClient, DeviceSharingState
  <2> DEFINE t == DetachClient(s, h)
  <2>3. t.access_queue \in Seq(QueueEntry)
    BY <2>2, RetainLemma
  <2>4. PICK f \in [DOMAIN Retain(s, h) -> DOMAIN s.access_queue] :
          /\ \A i \in DOMAIN Retain(s, h) : Retain(s, h)[i] = s.access_queue[f[i]]
          /\ \A i, j \in DOMAIN Retain(s, h) : i < j => f[i] < f[j]
    BY RetainLemma
  <2> HIDE DEF t
  <2>5. t.access_queue = Retain(s, h)
    BY <2>2 DEF t
  <2>6. NoFurtherBack(s, t)
    BY <2>3, <2>4, <2>5, KeptEntries
  <2> QED
    BY <2>6 DEF t
<1> QED
  BY <1>1, <1>2

\* A request goes to the end, and one that is there already stays where it is.
LEMMA AskingKeepsPlaces ==
  ASSUME NEW s, SharingInv(s), NEW h \in Handle, NEW w \in BOOLEAN
  PROVE  NoFurtherBack(s, AcquireLock(s, h, w))
<1> DEFINE q == s.access_queue
           e == [handle |-> h, wants_write |-> w, elapsed |-> 0]
<1>0. s \in DeviceSharingState /\ q \in Seq(QueueEntry)
  BY DEF SharingInv, DeviceSharingState
<1>1. DOMAIN q = 1 .. Len(q) /\ Len(q) \in Nat
  BY <1>0, QueueEntries
<1>2. \/ AcquireLock(s, h, w).access_queue = q
      \/ ~Queued(s, h) /\ AcquireLock(s, h, w).access_queue = Append(q, e)
  <2>1. Grant(s, h).access_queue = q
    BY <1>0 DEF Grant, DeviceSharingState
  <2>2. \/ AddToQueue(s, h, w).access_queue = q
        \/ ~Queued(s, h) /\ AddToQueue(s, h, w).access_queue = Append(q, e)
    <3>1. CASE Queued(s, h)
      BY <3>1 DEF AddToQueue
    <3>2. CASE ~Queued(s, h)
      <4>1. AddToQueue(s, h, w) = [s EXCEPT !.access_queue = Append(q, e)]
        BY <3>2 DEF AddToQueue
      <4> HIDE DEF e
      <4>2. AddToQueue(s, h, w).access_queue = Append(q, e)
        BY <1>0, <4>1 DEF DeviceSharingState
      <4> QED
        BY <3>2, <4>2
    <3> QED
      BY <3>1, <3>2
  <2>3. AcquireLock(s, h, w) \in {s, Grant(s, h), AddToQueue(s, h, w)}
    BY DEF AcquireLock
  <2> QED
    BY <2>1, <2>2, <2>3
<1> DEFINE t == AcquireLock(s, h, w)
<1> SUFFICES NoFurtherBack(s, t)
  OBVIOUS
<1> HIDE DEF t
<1>3. CASE t.access_queue = q
  BY <1>3, SameQueue
<1>4. CASE ~Queued(s, h) /\ t.access_queue = Append(q, e)
  <2>1. e \in QueueEntry /\ e.handle = h
    BY <1>0, SharingAssumption DEF QueueEntry, Elapsed
  <2> HIDE DEF e
  <2>2. /\ DOMAIN Append(q, e) = 1 .. Len(q) + 1
        /\ \A i \in 1 .. Len(q) : Append(q, e)[i] = q[i]
        /\ Append(q, e)[Len(q) + 1] = e
    BY <1>0, <2>1, AppendProperties
  <2>3. ASSUME NEW i \in DOMAIN q, NEW j \in 1 .. Len(q) + 1, q[i].handle = Append(q, e)[j].handle
        PROVE  j <= i
    <3>1. CASE j = Len(q) + 1
      BY <1>4, <2>1, <2>2, <2>3, <3>1 DEF Queued
    <3>2. CASE j \in 1 .. Len(q)
      BY <2>2, <2>3, <3>2, <1>1 DEF SharingInv, QueueConsistent
    <3> QED
      BY <1>1, <3>1, <3>2
  <2>4. DOMAIN t.access_queue = 1 .. Len(q) + 1 /\ t.access_queue = Append(q, e)
    BY <1>4, <2>2 DEF e
  <2> HIDE DEF q
  <2> QED
    BY <2>3, <2>4 DEF NoFurtherBack, q
<1> QED
  BY <1>2, <1>3, <1>4 DEF t

\* Time changes nobody's place.
LEMMA AgeKeepsPlaces ==
  ASSUME NEW s, SharingInv(s)
  PROVE  NoFurtherBack(s, Age(s))
<1> DEFINE q == s.access_queue
           t == Age(s)
<1>0. s \in DeviceSharingState /\ q \in Seq(QueueEntry)
  BY DEF SharingInv, DeviceSharingState
<1>1. /\ DOMAIN q = 1 .. Len(q) /\ Len(q) \in Nat /\ \A i \in DOMAIN q : q[i] \in QueueEntry
  BY <1>0, QueueEntries
<1>2. t.access_queue = [i \in DOMAIN q |-> [q[i] EXCEPT !.elapsed = Older(@)]]
  BY <1>0 DEF Age, DeviceSharingState
<1> HIDE DEF t
<1>3. DOMAIN t.access_queue = DOMAIN q /\ \A i \in DOMAIN q : t.access_queue[i].handle = q[i].handle
  BY <1>1, <1>2 DEF QueueEntry
<1>4. NoFurtherBack(s, t)
  BY <1>1, <1>3 DEF NoFurtherBack, SharingInv, QueueConsistent
<1> QED
  BY <1>4 DEF t

\* A waiting client only moves forward (every method of DeviceSharingState).
THEOREM WaitersMoveForward == SharingSpec => NeverMovesBack
<1> DEFINE Forward(h) ==
      Queued(sharing, h) /\ Queued(sharing', h)
        => QueueIndex(sharing', h) <= QueueIndex(sharing, h)
<1>1. SharingInv(sharing) /\ SharingInv(sharing)' /\ [SharingNext]_sharing
        => [\A h \in Handle : Forward(h)]_sharing
  <2> SUFFICES ASSUME SharingInv(sharing), SharingInv(sharing'), SharingNext,
                      NEW h \in Handle, Queued(sharing, h), Queued(sharing', h)
               PROVE  QueueIndex(sharing', h) <= QueueIndex(sharing, h)
    OBVIOUS
  <2>1. NoFurtherBack(sharing, sharing')
    <3>1. ASSUME NEW g \in Handle, Attach(g) PROVE NoFurtherBack(sharing, sharing')
      <4>1. sharing' = AttachClient(sharing, g) /\ g \notin sharing.attached
        BY <3>1 DEF Attach
      <4>2. AttachClient(sharing, g).access_queue = sharing.access_queue
        BY <4>1, AttachEffect
      <4> QED
        BY <4>1, <4>2, SameQueue
    <3>2. ASSUME NEW g \in Handle, Detach(g) PROVE NoFurtherBack(sharing, sharing')
      BY <3>2, LeavingMovesUp DEF Detach
    <3>3. ASSUME NEW g \in Handle, Unlock(g) PROVE NoFurtherBack(sharing, sharing')
      <4>1. CASE Holder(sharing) = g
        BY <3>3, <4>1, ReleaseLockEffect, SameQueue DEF Unlock
      <4>2. CASE Holder(sharing) # g
        BY <3>3, <4>2, SameQueue DEF Unlock, ReleaseLock
      <4> QED
        BY <4>1, <4>2
    <3>4. ASSUME NEW g \in Handle, NEW w \in BOOLEAN, Lock(g, w)
          PROVE  NoFurtherBack(sharing, sharing')
      BY <3>4, AskingKeepsPlaces DEF Lock
    <3>5. CASE ProcessDeviceQueue
      BY <3>5, ServedMoveUp DEF ProcessDeviceQueue
    <3>6. CASE ProcessAllQueues
      <4> DEFINE u == IF Overdue(sharing) THEN ReleaseLock(sharing, Holder(sharing))
                                          ELSE sharing
      <4>1. sharing' = ProcessQueue(u)
        BY <3>6, ProcessAllCases DEF ProcessAllQueues
      <4>2. SharingInv(u) /\ u.access_queue = sharing.access_queue
        <5>1. CASE Overdue(sharing)
          <6>1. Holder(sharing) \in Handle
            BY <5>1, FreeNotOverdue, HolderAttached
          <6>2. u = ReleaseLock(sharing, Holder(sharing))
            BY <5>1
          <6> HIDE DEF u
          <6>3. SharingInv(u)
            BY <6>1, <6>2, ReleaseLockInv
          <6>4. u.access_queue = sharing.access_queue
            BY <6>1, <6>2, ReleaseLockEffect
          <6> QED
            BY <6>3, <6>4
        <5>2. CASE ~Overdue(sharing)
          BY <5>2
        <5> QED
          BY <5>1, <5>2
      <4> HIDE DEF u
      <4>3. NoFurtherBack(u, ProcessQueue(u))
        BY <4>2, ServedMoveUp
      <4> QED
        BY <4>1, <4>2, <4>3 DEF NoFurtherBack
    <3>7. CASE Tick
      BY <3>7, AgeKeepsPlaces DEF Tick
    <3> QED
      BY <3>1, <3>2, <3>3, <3>4, <3>5, <3>6, <3>7 DEF SharingNext
  <2>2. /\ sharing \in DeviceSharingState /\ sharing' \in DeviceSharingState
        /\ sharing.access_queue \in Seq(QueueEntry) /\ sharing'.access_queue \in Seq(QueueEntry)
    BY DEF SharingInv, DeviceSharingState
  <2>3. /\ QueueIndex(sharing, h) \in DOMAIN sharing.access_queue
         /\ sharing.access_queue[QueueIndex(sharing, h)].handle = h
    BY <2>2, QueueIndexLemma, QueueEntries
  <2>4. /\ QueueIndex(sharing', h) \in DOMAIN sharing'.access_queue
         /\ sharing'.access_queue[QueueIndex(sharing', h)].handle = h
    BY <2>2, QueueIndexLemma, QueueEntries
  <2> QED
    BY <2>1, <2>3, <2>4 DEF NoFurtherBack
<1> QED
  BY <1>1, Consistency, PTL DEF SharingSpec, NeverMovesBack
====
