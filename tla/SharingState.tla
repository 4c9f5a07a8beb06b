---------------------------- MODULE SharingState ----------------------------
(***************************************************************************)
(* The sharing state of one USB device: the record DeviceSharingState of   *)
(* crates/server/src/usb/sharing.rs and its methods, as operators from a   *)
(* record to the next record.  DeviceSharing drives one such record as a   *)
(* state machine; DeviceManager keeps one per registered device.           *)
(*                                                                         *)
(* Time.  The code keeps Instants and only ever asks whether more than     *)
(* lock_timeout has elapsed since one of them.  The model keeps the        *)
(* elapsed time, saturated at LockTimeout + 1, so no clock bound is        *)
(* needed.  Client ids and attach times are only logged: left out.  The    *)
(* queue entries' timeout is always Some(lock_timeout) (sharing.rs:284).   *)
(***************************************************************************)
EXTENDS Integers, Sequences, FiniteSets

CONSTANTS
  Handle,       \* the device handles clients may be given
  NoHandle,     \* Option::None of the two lock-holder fields
  MaxClients,   \* max_clients of the Shared and ReadOnly modes
  LockTimeout   \* lock_timeout, in ticks of the clock

ASSUME SharingAssumption ==
  /\ IsFiniteSet(Handle)
  /\ NoHandle \notin Handle
  /\ MaxClients \in Nat
  /\ LockTimeout \in Nat

SharingMode == {"Exclusive", "Shared", "ReadOnly"}
MaybeHandle == Handle \cup {NoHandle}

NoTime  == -1                   \* lock_acquired_at = None
Elapsed == 0 .. LockTimeout + 1 \* the last value stands for "longer"

QueueEntry == [handle : Handle, wants_write : BOOLEAN, elapsed : Elapsed]

\* attached_clients maps a handle to its client record; here its domain is
\* "attached" and each Boolean field is the set of handles that have it.
DeviceSharingState ==
  [ mode                  : SharingMode,
    attached              : SUBSET Handle,
    has_access            : SUBSET Handle,
    has_write_lock        : SUBSET Handle,
    lock_acquired         : [Handle -> Elapsed \cup {NoTime}],
    access_queue          : Seq(QueueEntry),
    write_lock_holder     : MaybeHandle,
    exclusive_lock_holder : MaybeHandle ]

New(mode) ==
  [ mode                  |-> mode,
    attached              |-> {},
    has_access            |-> {},
    has_write_lock        |-> {},
    lock_acquired         |-> [h \in Handle |-> NoTime],
    access_queue          |-> <<>>,
    write_lock_holder     |-> NoHandle,
    exclusive_lock_holder |-> NoHandle ]

-----------------------------------------------------------------------------
(* Attaching and detaching *)

\* Mutant: off by one, the queue's length test in place of the capacity's.
CanAttachOneMore(s) ==
  IF s.mode = "Exclusive"
  THEN s.attached = {}
  ELSE Cardinality(s.attached) <= MaxClients

CanAttach(s) ==
  IF s.mode = "Exclusive"
  THEN s.attached = {}
  ELSE Cardinality(s.attached) < MaxClients

AttachClient(s, h) ==
  [s EXCEPT
     !.attached       = @ \cup {h},
     !.has_write_lock = @ \ {h},
     !.has_access     = IF s.mode = "Exclusive" \/ s.attached = {}
                        THEN @ \cup {h} ELSE @ \ {h},
     !.lock_acquired  = [@ EXCEPT ![h] = IF s.mode = "Exclusive"
                                         THEN 0 ELSE NoTime]]

\* iter().position(|e| e.handle == handle)
Queued(s, h) == \E i \in DOMAIN s.access_queue : s.access_queue[i].handle = h

QueueIndex(s, h) ==
  CHOOSE i \in DOMAIN s.access_queue :
    /\ s.access_queue[i].handle = h
    /\ \A j \in 1 .. i - 1 : s.access_queue[j].handle # h

\* access_queue.retain(|e| e.handle != handle).  AddToQueue never adds a
\* second entry for a handle (invariant QueueConsistent), so at most one goes.
Retain(s, h) ==
  IF Queued(s, h)
  THEN LET i == QueueIndex(s, h)
       IN  SubSeq(s.access_queue, 1, i - 1)
             \o SubSeq(s.access_queue, i + 1, Len(s.access_queue))
  ELSE s.access_queue

\* Mutant: a leaving client takes the exclusive lock with it.
DetachClientKeepsHolder(s, h) ==
  IF h \notin s.attached
  THEN s
  ELSE [s EXCEPT
          !.attached          = @ \ {h},
          !.has_access        = @ \ {h},
          !.has_write_lock    = @ \ {h},
          !.lock_acquired     = [@ EXCEPT ![h] = NoTime],
          !.write_lock_holder = IF @ = h THEN NoHandle ELSE @,
          !.access_queue      = Retain(s, h)]

\* Mutant: a leaving client stays in the queue.
DetachClientStaysQueued(s, h) ==
  IF h \notin s.attached
  THEN s
  ELSE [s EXCEPT
          !.attached              = @ \ {h},
          !.has_access            = @ \ {h},
          !.has_write_lock        = @ \ {h},
          !.lock_acquired         = [@ EXCEPT ![h] = NoTime],
          !.write_lock_holder     = IF @ = h THEN NoHandle ELSE @,
          !.exclusive_lock_holder = IF @ = h THEN NoHandle ELSE @]

DetachClient(s, h) ==
  IF h \notin s.attached
  THEN s
  ELSE [s EXCEPT
          !.attached              = @ \ {h},
          !.has_access            = @ \ {h},
          !.has_write_lock        = @ \ {h},
          !.lock_acquired         = [@ EXCEPT ![h] = NoTime],
          !.write_lock_holder     = IF @ = h THEN NoHandle ELSE @,
          !.exclusive_lock_holder = IF @ = h THEN NoHandle ELSE @,
          !.access_queue          = Retain(s, h)]

-----------------------------------------------------------------------------
(* Locking *)

\* The lock the mode arbitrates: exclusive access (Shared) or the right to
\* write (ReadOnly).  Exclusive mode has neither.
Holder(s) ==
  IF s.mode = "Shared" THEN s.exclusive_lock_holder ELSE s.write_lock_holder

\* A request that competes for the lock: any in Shared mode, a write request
\* in ReadOnly mode; Exclusive mode answers from has_access alone.
Competes(s, h, write_access) ==
  /\ h \in s.attached
  /\ s.mode = "Shared" \/ (s.mode = "ReadOnly" /\ write_access)

Grant(s, h) ==
  IF s.mode = "Shared"
  THEN [s EXCEPT !.exclusive_lock_holder = h,
                 !.has_access            = @ \cup {h},
                 !.lock_acquired         = [@ EXCEPT ![h] = 0]]
  ELSE [s EXCEPT !.write_lock_holder     = h,
                 !.has_write_lock        = @ \cup {h},
                 !.lock_acquired         = [@ EXCEPT ![h] = 0]]

\* Mutant: the request is stamped one tick ahead of the clock.
AddToQueueEarly(s, h, wants_write) ==
  IF Queued(s, h)
  THEN s
  ELSE [s EXCEPT !.access_queue =
          Append(@, [handle |-> h, wants_write |-> wants_write, elapsed |-> -1])]

\* Mutant: asking again sends a client to the back of the queue.
AddToQueueAgain(s, h, wants_write) ==
  [s EXCEPT !.access_queue =
     Append(Retain(s, h), [handle |-> h, wants_write |-> wants_write, elapsed |-> 0])]

AddToQueue(s, h, wants_write) ==
  IF Queued(s, h)
  THEN s
  ELSE [s EXCEPT !.access_queue =
          Append(@, [handle |-> h, wants_write |-> wants_write, elapsed |-> 0])]

\* The lock is granted whenever it is free, whoever waits in the queue, and
\* without taking the requester's own entry out of the queue.
AcquireLock(s, h, write_access) ==
  IF ~Competes(s, h, write_access) \/ Holder(s) = h THEN s
  ELSE IF Holder(s) = NoHandle THEN Grant(s, h)
  ELSE AddToQueue(s, h, write_access)

ReleaseLock(s, h) ==
  IF h \notin s.attached \/ s.mode = "Exclusive" \/ Holder(s) # h
  THEN s
  ELSE IF s.mode = "Shared"
  THEN [s EXCEPT !.exclusive_lock_holder = NoHandle,
                 !.has_access            = @ \ {h},
                 !.lock_acquired         = [@ EXCEPT ![h] = NoTime]]
  ELSE [s EXCEPT !.write_lock_holder     = NoHandle,
                 !.has_write_lock        = @ \ {h},
                 !.lock_acquired         = [@ EXCEPT ![h] = NoTime]]

\* What a client is told: 0 means "has access".
QueuePosition(s, h) ==
  IF h \in s.has_access \cup s.has_write_lock \/ ~Queued(s, h)
  THEN 0
  ELSE QueueIndex(s, h)

-----------------------------------------------------------------------------
(* The queue and the lock timeout *)

Expired(elapsed) == elapsed > LockTimeout

\* Mutant: the loop that drops expired requests is missing.
NoExpiredPrefix(q) == 0

\* How many entries the loop at the front of process_queue pops: it stops at
\* the first entry that has not expired.
ExpiredPrefix(q) ==
  CHOOSE k \in 0 .. Len(q) :
    /\ \A i \in 1 .. k : Expired(q[i].elapsed)
    /\ k < Len(q) => ~Expired(q[k + 1].elapsed)

ProcessQueue(s) ==
  IF s.mode = "Exclusive" \/ Holder(s) # NoHandle \/ s.access_queue = <<>>
  THEN s
  ELSE LET q == s.access_queue
           k == ExpiredPrefix(q)
       IN  IF k = Len(q)
           THEN [s EXCEPT !.access_queue = <<>>]
           ELSE LET entry == q[k + 1]
                    rest  == [s EXCEPT !.access_queue = SubSeq(q, k + 2, Len(q))]
                IN  IF /\ entry.handle \in s.attached
                       /\ s.mode = "Shared" \/ entry.wants_write
                    THEN Grant(rest, entry.handle)
                    ELSE rest

LockExpired(s, h) == h \in s.attached /\ Expired(s.lock_acquired[h])

CheckLockTimeout(s) ==
  IF LockExpired(s, s.exclusive_lock_holder) THEN s.exclusive_lock_holder
  ELSE IF LockExpired(s, s.write_lock_holder) THEN s.write_lock_holder
  ELSE NoHandle

\* Mutant: an overdue lock that nobody waits for is renewed.
ProcessAllRenews(s) ==
  LET expired == CheckLockTimeout(s)
  IN  ProcessQueue(IF expired = NoHandle THEN s
                   ELSE IF s.access_queue = <<>> THEN Grant(s, expired)
                   ELSE ReleaseLock(s, expired))

\* One device's turn in DeviceAccessTracker::process_all.
ProcessAll(s) ==
  LET expired == CheckLockTimeout(s)
  IN  ProcessQueue(IF expired = NoHandle THEN s ELSE ReleaseLock(s, expired))

\* One tick of the clock for every Instant the record holds.
Older(elapsed) ==
  IF elapsed = NoTime \/ elapsed = LockTimeout + 1 THEN elapsed ELSE elapsed + 1

Age(s) ==
  [s EXCEPT
     !.lock_acquired = [h \in Handle |-> Older(s.lock_acquired[h])],
     !.access_queue  = [i \in DOMAIN s.access_queue |->
                          [s.access_queue[i] EXCEPT !.elapsed = Older(@)]]]

-----------------------------------------------------------------------------
(* The invariant every reachable record satisfies. *)

\* The lock holder, the flags and the time stamp tell one story: only the
\* mode's own lock is ever held, its holder is an attached client that carries
\* the flag, and exactly the holder's lock has a time for the timeout to run
\* from.  A holder without a time stamp would keep the lock for ever.
LockConsistent(s) ==
  /\ s.exclusive_lock_holder # NoHandle => s.mode = "Shared"
  /\ s.write_lock_holder # NoHandle => s.mode = "ReadOnly"
  /\ s.has_access \subseteq s.attached
  /\ Holder(s) # NoHandle => Holder(s) \in s.attached
  /\ s.exclusive_lock_holder # NoHandle => s.exclusive_lock_holder \in s.has_access
  /\ s.has_write_lock = {s.write_lock_holder} \ {NoHandle}
  /\ s.mode # "Exclusive" =>
       \A h \in Handle : s.lock_acquired[h] # NoTime <=> h = Holder(s)

\* The queue holds attached clients, each at most once, in the order they
\* asked, never in Exclusive mode, and only writers in ReadOnly mode.  When
\* the holder is itself still queued (it found the lock free after it had been
\* queued), its entry is at least as old as its lock, so the entry has expired
\* whenever the lock has.
QueueConsistent(s) ==
  LET q == s.access_queue
  IN  /\ s.mode = "Exclusive" => q = <<>>
      /\ \A i \in DOMAIN q : q[i].handle \in s.attached
      /\ s.mode = "ReadOnly" => \A i \in DOMAIN q : q[i].wants_write
      /\ \A i, j \in DOMAIN q : q[i].handle = q[j].handle => i = j
      /\ \A i, j \in DOMAIN q : i < j => q[i].elapsed >= q[j].elapsed
      /\ \A i \in DOMAIN q : q[i].handle = Holder(s) =>
           q[i].elapsed >= s.lock_acquired[q[i].handle]

\* Exclusive mode has at most one client, which always has access; the other
\* modes never have more clients than max_clients.
WithinCapacity(s) ==
  /\ s.mode = "Exclusive" =>
       /\ \A g, h \in s.attached : g = h
       /\ s.has_access = s.attached
  /\ s.mode # "Exclusive" => Cardinality(s.attached) <= MaxClients

=============================================================================
