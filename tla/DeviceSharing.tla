---------------------------- MODULE DeviceSharing ----------------------------
(***************************************************************************)
(* One device's sharing state as a state machine: the calls DeviceManager  *)
(* makes on it (crates/server/src/usb/manager.rs), in any order, and the   *)
(* passing of time.  The USB thread owns the state, so a call is one step. *)
(* A handle that has detached may attach again: the manager never reuses   *)
(* a handle, but the record forgets a detached handle altogether, so a     *)
(* reused one stands for a fresh one.                                      *)
(***************************************************************************)
EXTENDS SharingState

VARIABLE sharing  \* the DeviceSharingState of the device

SharingInit == \E mode \in SharingMode : sharing = New(mode)

\* DeviceManager::attach_device: refused unless can_attach.
Attach(h) ==
  /\ h \notin sharing.attached
  /\ CanAttach(sharing)
  /\ sharing' = AttachClient(sharing, h)

Detach(h) == sharing' = DetachClient(sharing, h)

Lock(h, write_access) == sharing' = AcquireLock(sharing, h, write_access)

Unlock(h) == sharing' = ReleaseLock(sharing, h)

\* DeviceManager::process_device_queue
ProcessDeviceQueue == sharing' = ProcessQueue(sharing)

\* DeviceManager::process_all_queues
ProcessAllQueues == sharing' = ProcessAll(sharing)

Tick == sharing' = Age(sharing)

SharingNext ==
  \/ \E h \in Handle : Attach(h) \/ Detach(h) \/ Unlock(h)
  \/ \E h \in Handle, write_access \in BOOLEAN : Lock(h, write_access)
  \/ ProcessDeviceQueue
  \/ ProcessAllQueues
  \/ Tick

SharingSpec == SharingInit /\ [][SharingNext]_sharing

-----------------------------------------------------------------------------
(* Properties *)

\* The record's fields hold values of their declared types.
SharingTypeOK == sharing \in DeviceSharingState

\* The holder fields, the clients' flags and the lock time agree in every
\* state, so that no lock is out of reach of release, detach and timeout.
LockIsConsistent == LockConsistent(sharing)

\* The access queue is in arrival order, without duplicates or strangers.
QueueIsConsistent == QueueConsistent(sharing)

\* No mode admits more clients than it may (can_attach).
CapacityKept == WithinCapacity(sharing)

\* A waiting client only moves forward: as long as it stays in the queue, no
\* call of another client puts it further back than it was told.
NeverMovesBack ==
  [][\A h \in Handle :
       Queued(sharing, h) /\ Queued(sharing', h)
         => QueueIndex(sharing', h) <= QueueIndex(sharing, h)]_sharing

\* When a client is granted the lock out of the queue (it leaves the queue as
\* it becomes the holder), its own request had not timed out and every client
\* that was ahead of it had been waiting longer than the timeout.
FromQueue(h) ==
  /\ Queued(sharing, h) /\ ~Queued(sharing', h)
  /\ Holder(sharing) # h /\ Holder(sharing') = h

InOrder(h) ==
  LET q == sharing.access_queue
      i == QueueIndex(sharing, h)
  IN  /\ ~Expired(q[i].elapsed)
      /\ \A j \in 1 .. i - 1 : Expired(q[j].elapsed)

ServedInOrder == [][\A h \in Handle : FromQueue(h) => InOrder(h)]_sharing

\* The code implements the lease that LeaseLock promises.
Lease == INSTANCE LeaseLock WITH
  Client  <- Handle,
  None    <- NoHandle,
  members <- sharing.attached,
  holder  <- Holder(sharing),
  waiters <- {h \in Handle : Queued(sharing, h)},
  overdue <- LockExpired(sharing, Holder(sharing))

ImplementsLease == Lease!Spec

=============================================================================
