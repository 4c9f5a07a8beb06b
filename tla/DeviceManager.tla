---------------------------- MODULE DeviceManager ----------------------------
(***************************************************************************)
(* The registry of USB devices and of the handles given out for them:      *)
(* DeviceManager of crates/server/src/usb/manager.rs with its              *)
(* DeviceAccessTracker (sharing.rs) and the open/closed state of each      *)
(* UsbDevice (device.rs).  Only the USB thread calls it, so every call is  *)
(* one step.  The maps are total functions; a missing key has the value    *)
(* NoDevice, NoPort, NoAttachment or Unregistered.                         *)
(*                                                                         *)
(* next_device_id and next_handle_id only serve to give every device and   *)
(* attachment a value never used before: the model keeps the sets already  *)
(* used.  A finite DeviceId or Handle bounds a run; the proofs need none.  *)
(***************************************************************************)
EXTENDS SharingState

CONSTANTS
  Port,          \* the (bus, address) keys
  DeviceId,
  Client,        \* the client ids
  NoPort, NoDevice, NoAttachment, Unregistered,
  DefaultMode    \* SharingConfig::default_mode

Attachment == [device : DeviceId, client : Client]

ASSUME ManagerAssumption ==
  /\ NoPort \notin Port
  /\ NoDevice \notin DeviceId
  /\ NoAttachment \notin Attachment
  /\ Unregistered \notin DeviceSharingState
  /\ DefaultMode \in SharingMode

VARIABLES
  devices,       \* port -> the id of the UsbDevice at it
  device_ids,    \* id -> port
  attached,      \* handle -> its device and client
  tracker,       \* id -> the DeviceSharingState of the device
  open,          \* the ids of the UsbDevices whose handle is Some
  used_ids,      \* the ids below next_device_id
  used_handles   \* the handles below next_handle_id

managerVars ==
  <<devices, device_ids, attached, tracker, open, used_ids, used_handles>>

ManagerInit ==
  /\ devices = [p \in Port |-> NoDevice]
  /\ device_ids = [d \in DeviceId |-> NoPort]
  /\ attached = [h \in Handle |-> NoAttachment]
  /\ tracker = [d \in DeviceId |-> Unregistered]
  /\ open = {}
  /\ used_ids = {}
  /\ used_handles = {}

IsAttached(h) == attached[h] # NoAttachment
HandlesOf(d) == {h \in Handle : IsAttached(h) /\ attached[h].device = d}
Registered(d) == device_ids[d] # NoPort

-----------------------------------------------------------------------------
(* The registry *)

\* add_device for a device that passes the filters and is not yet tracked.
\* (A tracked one keeps its UsbDevice, id and handles: no step.)
AddDevice(p, d) ==
  /\ devices[p] = NoDevice
  /\ d \notin used_ids
  /\ devices' = [devices EXCEPT ![p] = d]
  /\ device_ids' = [device_ids EXCEPT ![d] = p]
  /\ tracker' = [tracker EXCEPT ![d] = New(DefaultMode)]
  /\ used_ids' = used_ids \cup {d}
  /\ UNCHANGED <<attached, open, used_handles>>

\* Mutant: the tracker keeps the record of the device that has gone.
RemoveDeviceKeepsRecord(p) ==
  LET d == devices[p]
  IN  /\ d # NoDevice
      /\ devices' = [devices EXCEPT ![p] = NoDevice]
      /\ device_ids' = [device_ids EXCEPT ![d] = NoPort]
      /\ attached' = [h \in Handle |-> IF h \in HandlesOf(d) THEN NoAttachment
                                                             ELSE attached[h]]
      /\ open' = open \ {d}
      /\ UNCHANGED <<tracker, used_ids, used_handles>>

\* remove_device: the device goes with all its handles.
RemoveDevice(p) ==
  LET d == devices[p]
  IN  /\ d # NoDevice
      /\ devices' = [devices EXCEPT ![p] = NoDevice]
      /\ device_ids' = [device_ids EXCEPT ![d] = NoPort]
      /\ attached' = [h \in Handle |-> IF h \in HandlesOf(d) THEN NoAttachment
                                                             ELSE attached[h]]
      /\ tracker' = [tracker EXCEPT ![d] = Unregistered]
      /\ open' = open \ {d}
      /\ UNCHANGED <<used_ids, used_handles>>

-----------------------------------------------------------------------------
(* Attaching and detaching *)

\* Mutant: attach_device only looks the device up.
MayAttachAnyway(d) == Registered(d)

\* The checks of attach_device that precede device.open().
MayAttach(d) ==
  /\ Registered(d)
  /\ CanAttach(tracker[d])
  /\ DefaultMode = "Exclusive" => HandlesOf(d) = {}

\* open of a device, again or for the first time, and close: the interfaces are
\* claimed and released as far as that goes.
OpenDevice(d) == open' = open \cup {d}
CloseDevice(d) == open' = open \ {d}

\* attach_device, when device.open() succeeds.
AttachDevice(d, c, h) ==
  /\ MayAttach(d)
  /\ h \notin used_handles
  /\ OpenDevice(d)
  /\ used_handles' = used_handles \cup {h}
  /\ tracker' = [tracker EXCEPT ![d] = AttachClient(@, h)]
  /\ attached' = [attached EXCEPT ![h] = [device |-> d, client |-> c]]
  /\ UNCHANGED <<devices, device_ids, used_ids>>

\* Mutant: the tracker is not told.
DetachDeviceUntold(h) ==
  /\ IsAttached(h)
  /\ LET d == attached[h].device
     IN  /\ attached' = [attached EXCEPT ![h] = NoAttachment]
         /\ open' = IF HandlesOf(d) = {h} THEN open \ {d} ELSE open
  /\ UNCHANGED <<devices, device_ids, tracker, used_ids, used_handles>>

\* Mutant: the device is left open.
DetachDeviceKeepsOpen(h) ==
  /\ IsAttached(h)
  /\ LET d == attached[h].device
     IN  /\ attached' = [attached EXCEPT ![h] = NoAttachment]
         /\ tracker' = [tracker EXCEPT ![d] = DetachClient(@, h)]
  /\ UNCHANGED <<devices, device_ids, open, used_ids, used_handles>>

\* Mutant: the device is closed under the clients that remain.
DetachDeviceCloses(h) ==
  /\ IsAttached(h)
  /\ LET d == attached[h].device
     IN  /\ attached' = [attached EXCEPT ![h] = NoAttachment]
         /\ tracker' = [tracker EXCEPT ![d] = DetachClient(@, h)]
         /\ CloseDevice(d)
  /\ UNCHANGED <<devices, device_ids, used_ids, used_handles>>

\* detach_device: the device is closed with its last handle.
DetachDevice(h) ==
  /\ IsAttached(h)
  /\ LET d == attached[h].device
     IN  /\ attached' = [attached EXCEPT ![h] = NoAttachment]
         /\ tracker' = [tracker EXCEPT ![d] = DetachClient(@, h)]
         /\ IF HandlesOf(d) = {h} THEN CloseDevice(d) ELSE UNCHANGED open
  /\ UNCHANGED <<devices, device_ids, used_ids, used_handles>>

-----------------------------------------------------------------------------
(* Locks and queues: calls passed on to the device's sharing state *)

LockDevice(h, write_access) ==
  /\ IsAttached(h)
  /\ tracker' = [tracker EXCEPT ![attached[h].device] = AcquireLock(@, h, write_access)]
  /\ UNCHANGED <<devices, device_ids, attached, open, used_ids, used_handles>>

UnlockDevice(h) ==
  /\ IsAttached(h)
  /\ tracker' = [tracker EXCEPT ![attached[h].device] = ReleaseLock(@, h)]
  /\ UNCHANGED <<devices, device_ids, attached, open, used_ids, used_handles>>

\* process_device_queue
ServeDevice(d) ==
  /\ Registered(d)
  /\ tracker' = [tracker EXCEPT ![d] = ProcessQueue(@)]
  /\ UNCHANGED <<devices, device_ids, attached, open, used_ids, used_handles>>

\* process_all_queues
ServeAllDevices ==
  /\ tracker' = [d \in DeviceId |-> IF tracker[d] = Unregistered THEN Unregistered
                                    ELSE ProcessAll(tracker[d])]
  /\ UNCHANGED <<devices, device_ids, attached, open, used_ids, used_handles>>

\* The clock of the locks and queue entries.
TimePasses ==
  /\ tracker' = [d \in DeviceId |-> IF tracker[d] = Unregistered THEN Unregistered
                                    ELSE Age(tracker[d])]
  /\ UNCHANGED <<devices, device_ids, attached, open, used_ids, used_handles>>

ManagerNext ==
  \/ \E p \in Port, d \in DeviceId : AddDevice(p, d)
  \/ \E p \in Port : RemoveDevice(p)
  \/ \E d \in DeviceId, c \in Client, h \in Handle : AttachDevice(d, c, h)
  \/ \E h \in Handle : DetachDevice(h) \/ UnlockDevice(h)
  \/ \E h \in Handle, write_access \in BOOLEAN : LockDevice(h, write_access)
  \/ \E d \in DeviceId : ServeDevice(d)
  \/ ServeAllDevices
  \/ TimePasses

ManagerSpec == ManagerInit /\ [][ManagerNext]_managerVars

-----------------------------------------------------------------------------
(* Properties *)

\* The maps hold values of their declared types.
ManagerTypeOK ==
  /\ devices \in [Port -> DeviceId \cup {NoDevice}]
  /\ device_ids \in [DeviceId -> Port \cup {NoPort}]
  /\ attached \in [Handle -> Attachment \cup {NoAttachment}]
  /\ tracker \in [DeviceId -> DeviceSharingState \cup {Unregistered}]
  /\ open \in SUBSET DeviceId
  /\ used_ids \in SUBSET DeviceId
  /\ used_handles \in SUBSET Handle

\* devices and device_ids are inverse to each other, and the tracker knows
\* exactly the registered devices, each with a record whose lock and queue are
\* consistent, whatever clients were detached or unplugged in between.
RegistryConsistent ==
  /\ \A p \in Port, d \in DeviceId : devices[p] = d <=> device_ids[d] = p
  /\ \A d \in DeviceId : tracker[d] # Unregistered <=> Registered(d)
  /\ \A d \in DeviceId : Registered(d) =>
       LockConsistent(tracker[d]) /\ QueueConsistent(tracker[d]) /\ WithinCapacity(tracker[d])

\* The manager's attached map and the tracker's records name the same clients
\* of every device: unplugging, detaching and refused attachments leave no
\* entry behind in either, so that no device stays taken without a handle that
\* could free it.
AttachmentsConsistent ==
  \A d \in DeviceId :
    HandlesOf(d) = IF tracker[d] = Unregistered THEN {} ELSE tracker[d].attached

\* A device is open exactly as long as some client is attached to it.
OpenWhileAttached == \A d \in DeviceId : d \in open <=> HandlesOf(d) # {}

\* In Exclusive mode no two handles lead to the same device.
ExclusiveUse ==
  DefaultMode = "Exclusive" =>
    \A g, h \in Handle : IsAttached(g) /\ IsAttached(h) =>
      (attached[g].device = attached[h].device => g = h)

=============================================================================
