------------------------------ MODULE UsbServer ------------------------------
(***************************************************************************)
(* The server: the USB thread (crates/server/src/usb/worker.rs) with its   *)
(* DeviceManager and debounced hotplug callbacks, the two bounded channels *)
(* to the Tokio side (crates/common/src/channel.rs), and one connection    *)
(* handler per client (crates/server/src/network/connection.rs).           *)
(*                                                                         *)
(* A connection handler runs one request at a time: from accepting the     *)
(* stream until the USB thread has answered it takes no event.  All        *)
(* handlers clone one event_rx, and an async_channel hands every message   *)
(* to exactly one receiver.                                                *)
(*                                                                         *)
(* Time: a debounced event fires at some moment after it was scheduled.    *)
(* Policy, rate limits and the notifications themselves are not modelled   *)
(* here; a policy check may go either way.                                 *)
(***************************************************************************)
EXTENDS DeviceManager

CONSTANTS
  Shareable,   \* the ports whose device passes the filters and is no root hub
  CmdCap,      \* capacity of the command channel (256 in create_usb_bridge)
  EventCap,    \* capacity of the event channel (256)
  MaxChanges   \* bound of the runs: how often a device is plugged or unplugged

ASSUME ServerAssumption ==
  /\ Shareable \subseteq Port
  /\ CmdCap \in Nat \ {0}
  /\ EventCap \in Nat \ {0}
  /\ MaxChanges \in Nat

VARIABLES
  worker,    \* "starting", "running" or "stopped"
  present,   \* the ports a device is plugged into
  changes,   \* number of pluggings and unpluggings so far
  hotplug,   \* libusb's messages not yet passed to the callback, in order
  debounce,  \* debounce_state: port -> "Arrived", "Left" or "none"
  fired,     \* the rest of events_to_process of process_debounced_events, or
             \* of the devices enumerate_devices found when the thread started
  sending,   \* the event the USB thread is sending (send_blocking), or NoEvent
  cmds,      \* the command channel
  events,    \* the event channel
  conn,      \* client -> its connection handler
  tracked,   \* client -> attached_devices: handle -> device id
  cache      \* client -> the keys of device_info_cache

usbVars == <<worker, hotplug, debounce, fired, sending>>
plugVars == <<present, changes>>
connVars == <<conn, tracked, cache>>
vars == <<managerVars, usbVars, plugVars, cmds, events, connVars>>

NoEvent == [kind |-> "none"]
NoCommand == [op |-> "none"]

\* What a handler is doing: "off" (no connection), "ready" (in select!),
\* "send" (in send_command), "wait" (for the answer), "done" (answer there).
\* "goal" is the device an attach request is for while its info is fetched,
\* "leaving" the handles cleanup has still to detach.
Idle == [pc |-> "off", cmd |-> NoCommand, answer |-> {}, goal |-> NoDevice,
         closing |-> FALSE, leaving |-> {}]

Init ==
  /\ ManagerInit
  /\ worker = "starting"
  /\ present \in SUBSET Port
  /\ changes = 0
  /\ hotplug = <<>>
  /\ debounce = [p \in Port |-> "none"]
  /\ fired = {[port |-> p, kind |-> "Found"] : p \in present}
  /\ sending = NoEvent
  /\ cmds = <<>>
  /\ events = <<>>
  /\ conn = [c \in Client |-> Idle]
  /\ tracked = [c \in Client |-> [h \in Handle |-> NoDevice]]
  /\ cache = [c \in Client |-> {}]

-----------------------------------------------------------------------------
(* The USB bus (libusb): a device comes or goes, and the callback is told in *)
(* order when the USB thread next handles events.                            *)

Plug(p) ==
  /\ changes < MaxChanges
  /\ p \notin present
  /\ present' = present \cup {p}
  /\ hotplug' = Append(hotplug, [port |-> p, kind |-> "Arrived"])
  /\ changes' = changes + 1
  /\ UNCHANGED <<managerVars, worker, debounce, fired, sending, cmds, events, connVars>>

Unplug(p) ==
  /\ changes < MaxChanges
  /\ p \in present
  /\ present' = present \ {p}
  /\ hotplug' = Append(hotplug, [port |-> p, kind |-> "Left"])
  /\ changes' = changes + 1
  /\ UNCHANGED <<managerVars, worker, debounce, fired, sending, cmds, events, connVars>>

-----------------------------------------------------------------------------
(* The USB thread *)

\* enumerate_devices takes the next device of the list it got at the start.
Enumerate(p) ==
  /\ worker = "starting"
  /\ [port |-> p, kind |-> "Found"] \in fired
  /\ fired' = fired \ {[port |-> p, kind |-> "Found"]}
  /\ IF p \in Shareable THEN \E d \in DeviceId : AddDevice(p, d)
                         ELSE UNCHANGED managerVars
  /\ UNCHANGED <<worker, hotplug, debounce, sending, plugVars, cmds, events, connVars>>

\* register_hotplug; the loop of run begins.
StartLoop ==
  /\ worker = "starting"
  /\ fired = {}
  /\ worker' = "running"
  /\ UNCHANGED <<managerVars, hotplug, debounce, fired, sending, plugVars, cmds, events, connVars>>

\* Between two steps of the loop: not inside process_debounced_events.
InLoop == worker = "running" /\ fired = {} /\ sending = NoEvent

\* Mutant: an event that is already pending for the port is kept.
HotplugCallbackKeepsFirst ==
  /\ InLoop
  /\ hotplug # <<>>
  /\ debounce' = [debounce EXCEPT ![Head(hotplug).port] =
                    IF @ = "none" THEN Head(hotplug).kind ELSE @]
  /\ hotplug' = Tail(hotplug)
  /\ UNCHANGED <<managerVars, worker, fired, sending, plugVars, cmds, events, connVars>>

\* handle_events calls device_arrived or device_left, which replaces whatever
\* is pending for the port.
HotplugCallback ==
  /\ InLoop
  /\ hotplug # <<>>
  /\ debounce' = [debounce EXCEPT ![Head(hotplug).port] = Head(hotplug).kind]
  /\ hotplug' = Tail(hotplug)
  /\ UNCHANGED <<managerVars, worker, fired, sending, plugVars, cmds, events, connVars>>

\* process_debounced_events takes the events whose time has come.
DebounceFires(ready) ==
  /\ InLoop
  /\ ready # {}
  /\ \A p \in ready : debounce[p] # "none"
  /\ fired' = {[port |-> p, kind |-> debounce[p]] : p \in ready}
  /\ debounce' = [p \in Port |-> IF p \in ready THEN "none" ELSE debounce[p]]
  /\ UNCHANGED <<managerVars, worker, hotplug, sending, plugVars, cmds, events, connVars>>

ProcessFired(p, kind) ==
  /\ worker = "running"
  /\ sending = NoEvent
  /\ [port |-> p, kind |-> kind] \in fired
  /\ fired' = fired \ {[port |-> p, kind |-> kind]}
  /\ UNCHANGED <<worker, hotplug, debounce, plugVars, cmds, events, connVars>>

\* handle_device_arrived_internal.  A device that has gone again is ignored;
\* one that is tracked already is announced again under its old id.
DeviceArrived(p) ==
  /\ ProcessFired(p, "Arrived")
  /\ \/ /\ p \notin present \cap Shareable
        /\ UNCHANGED <<managerVars, sending>>
     \/ /\ p \in present \cap Shareable
        /\ IF devices[p] = NoDevice THEN \E d \in DeviceId : AddDevice(p, d)
                                    ELSE UNCHANGED managerVars
        /\ sending' = [kind |-> "Arrived", device |-> devices'[p]]

\* handle_device_left_internal
DeviceLeft(p) ==
  /\ ProcessFired(p, "Left")
  /\ \/ devices[p] = NoDevice /\ UNCHANGED <<managerVars, sending>>
     \/ /\ RemoveDevice(p)
        /\ sending' = [kind |-> "Left", device |-> devices[p], handles |-> HandlesOf(devices[p])]

\* Mutant: the event channel is taken to be unbounded.
SendEventUnbounded ==
  /\ sending # NoEvent
  /\ events' = Append(events, sending)
  /\ sending' = NoEvent
  /\ UNCHANGED <<managerVars, worker, hotplug, debounce, fired, plugVars, cmds, connVars>>

\* send_blocking: waits for room in the event channel.
SendEvent ==
  /\ sending # NoEvent
  /\ Len(events) < EventCap
  /\ events' = Append(events, sending)
  /\ sending' = NoEvent
  /\ UNCHANGED <<managerVars, worker, hotplug, debounce, fired, plugVars, cmds, connVars>>

\* The worker takes the next command, c's, and answers through its oneshot.
Answer(c, op, answer) ==
  /\ InLoop
  /\ cmds # <<>>
  /\ Head(cmds).op = op
  /\ Head(cmds).client = c
  /\ cmds' = Tail(cmds)
  /\ conn' = [conn EXCEPT ![c].pc = "done", ![c].answer = answer]
  /\ UNCHANGED <<usbVars, plugVars, events, tracked, cache>>

\* ListDevices, and GetSharingStatus, which changes nothing either.
HandleList(c) ==
  /\ Answer(c, "List", {d \in DeviceId : Registered(d)})
  /\ UNCHANGED managerVars

\* attach_device opens the device; that fails when the device has gone, and
\* may fail for other reasons unless it is open already.
HandleAttach(c) ==
  LET d == Head(cmds).device
  IN  \/ \E h \in Handle : /\ Answer(c, "Attach", {h})
                           /\ d \in open \/ device_ids[d] \in present
                           /\ AttachDevice(d, c, h)
      \/ /\ Answer(c, "Attach", {})
         /\ ~MayAttach(d) \/ d \notin open
         /\ UNCHANGED managerVars

\* Mutant: the handle is dropped without the manager's detach_device.
HandleDetachBypass(c) ==
  LET h == Head(cmds).handle
  IN  /\ Answer(c, "Detach", {h})
      /\ attached' = [attached EXCEPT ![h] = NoAttachment]
      /\ UNCHANGED <<devices, device_ids, tracker, open, used_ids, used_handles>>

\* Mutant: an unknown handle gets no answer.
HandleDetachSilent(c) ==
  \/ Answer(c, "Detach", {Head(cmds).handle}) /\ DetachDevice(Head(cmds).handle)
  \/ /\ InLoop
     /\ cmds # <<>>
     /\ Head(cmds).op = "Detach"
     /\ Head(cmds).client = c
     /\ ~IsAttached(Head(cmds).handle)
     /\ cmds' = Tail(cmds)
     /\ UNCHANGED <<managerVars, usbVars, plugVars, events, connVars>>

\* detach_device: Ok, or HandleNotFound.
HandleDetach(c) ==
  LET h == Head(cmds).handle
  IN  \/ Answer(c, "Detach", {h}) /\ DetachDevice(h)
      \/ Answer(c, "Detach", {}) /\ ~IsAttached(h) /\ UNCHANGED managerVars

\* execute_transfer on the device behind the handle, or an error.
HandleTransfer(c) ==
  /\ Answer(c, "Transfer", IF IsAttached(Head(cmds).handle) THEN {Head(cmds).handle} ELSE {})
  /\ UNCHANGED managerVars

HandleLock(c) ==
  LET h == Head(cmds).handle
  IN  /\ Answer(c, "Lock", {})
      /\ IF IsAttached(h) THEN \E write_access \in BOOLEAN : LockDevice(h, write_access)
                          ELSE UNCHANGED managerVars

HandleUnlock(c) ==
  LET h == Head(cmds).handle
  IN  /\ Answer(c, "Unlock", {})
      /\ IF IsAttached(h) THEN UnlockDevice(h) ELSE UNCHANGED managerVars

HandleShutdown ==
  /\ InLoop
  /\ cmds # <<>>
  /\ Head(cmds).op = "Shutdown"
  /\ cmds' = Tail(cmds)
  /\ worker' = "stopped"
  /\ UNCHANGED <<managerVars, hotplug, debounce, fired, sending, plugVars, events, connVars>>

HandleCommand ==
  \/ \E c \in Client : \/ HandleList(c) \/ HandleAttach(c) \/ HandleDetach(c)
                       \/ HandleTransfer(c) \/ HandleLock(c) \/ HandleUnlock(c)
  \/ HandleShutdown

-----------------------------------------------------------------------------
(* The connection handlers *)

Command(c, op, d, h) == [op |-> op, client |-> c, device |-> d, handle |-> h]

TrackedBy(c) == {h \in Handle : tracked[c][h] # NoDevice}

\* A client that the allowlist lets in connects: a fresh ClientConnection enters
\* its loop.
Connect(c) ==
  /\ conn[c].pc = "off"
  /\ conn' = [conn EXCEPT ![c].pc = "ready"]
  /\ UNCHANGED <<managerVars, usbVars, plugVars, cmds, events, tracked, cache>>

\* The handler builds a command and calls send_command.
Begin(c, op, d, h, goal) ==
  /\ conn[c].pc = "ready"
  /\ conn' = [conn EXCEPT ![c].pc = "send", ![c].cmd = Command(c, op, d, h), ![c].goal = goal]
  /\ UNCHANGED <<managerVars, usbVars, plugVars, cmds, events, tracked, cache>>

RequestList(c) == Begin(c, "List", NoDevice, NoHandle, NoDevice)

\* handle_attach_device: the info of a device not in the cache is fetched
\* first.  A cached one goes through the policy check at once; when that
\* denies access nothing changes.
RequestAttach(c) ==
  \E d \in used_ids :
    IF d \in cache[c] THEN Begin(c, "Attach", d, NoHandle, NoDevice)
                      ELSE Begin(c, "List", NoDevice, NoHandle, d)

\* handle_detach_device passes any handle on, whoever's it is.
RequestDetach(c) ==
  \E h \in used_handles : Begin(c, "Detach", NoDevice, h, NoDevice)

\* Transfers, locks and unlocks are refused unless the handle is tracked.
RequestOnHandle(c, op) ==
  \E h \in TrackedBy(c) : Begin(c, op, NoDevice, h, NoDevice)

RequestTransfer(c) == RequestOnHandle(c, "Transfer")
RequestLock(c) == RequestOnHandle(c, "Lock")
RequestUnlock(c) == RequestOnHandle(c, "Unlock")

\* send_command waits for room in the command channel.
SendCommand(c) ==
  /\ conn[c].pc = "send"
  /\ Len(cmds) < CmdCap
  /\ cmds' = Append(cmds, conn[c].cmd)
  /\ conn' = [conn EXCEPT ![c].pc = "wait"]
  /\ UNCHANGED <<managerVars, usbVars, plugVars, events, tracked, cache>>

\* The handler's answer arrived: back to the loop.
Ready(c) ==
  conn' = [conn EXCEPT ![c].pc = "ready", ![c].cmd = NoCommand,
                       ![c].answer = {}, ![c].goal = NoDevice]

Answered(c, op) ==
  /\ conn[c].pc = "done"
  /\ conn[c].cmd.op = op
  /\ UNCHANGED <<managerVars, usbVars, plugVars, cmds, events>>

\* ListDevices was for the client, or for an attach request: then the cache is
\* filled and, if the device exists and policy allows, AttachDevice is sent.
FinishList(c) ==
  /\ Answered(c, "List")
  /\ UNCHANGED tracked
  /\ cache' = IF conn[c].goal = NoDevice THEN cache
              ELSE [cache EXCEPT ![c] = @ \cup conn[c].answer]
  /\ \/ Ready(c)
     \/ /\ conn[c].goal \in conn[c].answer
        /\ conn' = [conn EXCEPT ![c].pc = "send", ![c].answer = {}, ![c].goal = NoDevice,
                                ![c].cmd = Command(c, "Attach", conn[c].goal, NoHandle)]

FinishAttach(c) ==
  /\ Answered(c, "Attach")
  /\ Ready(c)
  /\ tracked' = [tracked EXCEPT ![c] =
       [h \in Handle |-> IF h \in conn[c].answer THEN conn[c].cmd.device ELSE @[h]]]
  /\ UNCHANGED cache

Untrack(c, handles) ==
  tracked' = [tracked EXCEPT ![c] =
    [h \in Handle |-> IF h \in handles THEN NoDevice ELSE @[h]]]

FinishDetach(c) ==
  /\ ~conn[c].closing
  /\ Answered(c, "Detach")
  /\ Ready(c)
  /\ Untrack(c, conn[c].answer)
  /\ UNCHANGED cache

FinishOther(c) ==
  /\ \E op \in {"Transfer", "Lock", "Unlock"} : Answered(c, op)
  /\ Ready(c)
  /\ UNCHANGED <<tracked, cache>>

\* Mutant: the connection passes a removal on but keeps its handles.
ReceiveEventKeepsHandles(c) ==
  /\ conn[c].pc = "ready"
  /\ events # <<>>
  /\ events' = Tail(events)
  /\ UNCHANGED <<managerVars, usbVars, plugVars, cmds, conn, tracked, cache>>

\* recv_event in select!: the event is this handler's alone.
ReceiveEvent(c) ==
  /\ conn[c].pc = "ready"
  /\ events # <<>>
  /\ LET event == Head(events)
     IN  IF event.kind = "Left"
         THEN Untrack(c, event.handles \cup {h \in Handle : tracked[c][h] = event.device})
         ELSE UNCHANGED tracked
  /\ events' = Tail(events)
  /\ UNCHANGED <<managerVars, usbVars, plugVars, cmds, conn, cache>>

\* cleanup detaches the tracked handles one by one, then forgets them.
CloseNext(c, left) ==
  IF left = {}
  THEN /\ conn' = [conn EXCEPT ![c] = Idle]
       /\ Untrack(c, Handle)
       /\ cache' = [cache EXCEPT ![c] = {}]
  ELSE /\ \E h \in left :
            conn' = [conn EXCEPT ![c] =
              [Idle EXCEPT !.pc = "send", !.closing = TRUE, !.leaving = left,
                           !.cmd = Command(c, "Detach", NoDevice, h)]]
       /\ UNCHANGED <<tracked, cache>>

\* Mutant: the connection ends without cleanup.
DisconnectAtOnce(c) ==
  /\ conn[c].pc = "ready"
  /\ CloseNext(c, {})
  /\ UNCHANGED <<managerVars, usbVars, plugVars, cmds, events>>

\* accept_bi fails: the client has closed the connection, or it was lost.
Disconnect(c) ==
  /\ conn[c].pc = "ready"
  /\ CloseNext(c, TrackedBy(c))
  /\ UNCHANGED <<managerVars, usbVars, plugVars, cmds, events>>

\* Mutant: cleanup insists on every handle until its detach succeeds.
CleanupStepInsists(c) ==
  /\ conn[c].closing
  /\ Answered(c, "Detach")
  /\ CloseNext(c, conn[c].leaving \ conn[c].answer)

CleanupStep(c) ==
  /\ conn[c].closing
  /\ Answered(c, "Detach")
  /\ CloseNext(c, conn[c].leaving \ {conn[c].cmd.handle})

\* main asks the USB thread to stop and joins it.
SendShutdown ==
  /\ Len(cmds) < CmdCap
  /\ \A i \in DOMAIN cmds : cmds[i].op # "Shutdown"
  /\ cmds' = Append(cmds, [op |-> "Shutdown", client |-> "main"])
  /\ UNCHANGED <<managerVars, usbVars, plugVars, events, connVars>>

-----------------------------------------------------------------------------

Bus == \E p \in Port : Plug(p) \/ Unplug(p)

UsbThread ==
  \/ \E p \in Port : Enumerate(p) \/ DeviceArrived(p) \/ DeviceLeft(p)
  \/ StartLoop
  \/ HotplugCallback
  \/ \E ready \in SUBSET Port : DebounceFires(ready)
  \/ SendEvent
  \/ HandleCommand

Request(c) ==
  \/ RequestList(c) \/ RequestAttach(c) \/ RequestDetach(c)
  \/ RequestTransfer(c) \/ RequestLock(c) \/ RequestUnlock(c)

\* What a handler does of itself once a request or an end has come in.
Handler(c) ==
  \/ SendCommand(c)
  \/ FinishList(c) \/ FinishAttach(c) \/ FinishDetach(c) \/ FinishOther(c)
  \/ CleanupStep(c)

\* Once the USB thread has stopped, main returns and the process ends.
Running == worker # "stopped"

Next ==
  /\ Running
  /\ \/ Bus
     \/ UsbThread
     \/ \E c \in Client : Connect(c) \/ Request(c) \/ Handler(c) \/ ReceiveEvent(c) \/ Disconnect(c)
     \/ SendShutdown

\* Every turn of the thread's loop takes a command, handles libusb's events and
\* fires what is due.  A handler that finds itself in select! again and again
\* with an event waiting takes it at some point, since select! polls its
\* branches in random order.  Nobody has to connect, ask, unplug or shut down.
Fairness ==
  /\ WF_vars(UsbThread)
  /\ SF_vars(HandleCommand)
  /\ SF_vars(HotplugCallback)
  /\ SF_vars(\E ready \in SUBSET Port : DebounceFires(ready))
  /\ \A c \in Client : WF_vars(Running /\ Handler(c)) /\ SF_vars(Running /\ ReceiveEvent(c))

Spec == Init /\ [][Next]_vars /\ Fairness

-----------------------------------------------------------------------------
(* Properties *)

Event == [kind : {"Arrived"}, device : DeviceId]
           \cup [kind : {"Left"}, device : DeviceId, handles : SUBSET Handle]

Ops == {"List", "Attach", "Detach", "Transfer", "Lock", "Unlock"}

ClientCommand ==
  [op : Ops, client : Client, device : DeviceId \cup {NoDevice}, handle : MaybeHandle]

\* The variables hold values of their types, within the channels' capacities.
TypeOK ==
  /\ ManagerTypeOK
  /\ worker \in {"starting", "running", "stopped"}
  /\ present \in SUBSET Port
  /\ changes \in 0 .. MaxChanges
  /\ \A i \in DOMAIN hotplug : hotplug[i] \in [port : Port, kind : {"Arrived", "Left"}]
  /\ debounce \in [Port -> {"none", "Arrived", "Left"}]
  /\ fired \in SUBSET [port : Port, kind : {"Found", "Arrived", "Left"}]
  /\ sending \in Event \cup {NoEvent}
  /\ Len(cmds) <= CmdCap
  /\ \A i \in DOMAIN cmds : cmds[i].op = "Shutdown" \/ cmds[i] \in ClientCommand
  /\ Len(events) <= EventCap
  /\ \A i \in DOMAIN events : events[i] \in Event
  /\ \A c \in Client :
       /\ conn[c].pc \in {"off", "ready", "send", "wait", "done"}
       /\ conn[c].cmd \in ClientCommand \cup {NoCommand}
       /\ conn[c].leaving \subseteq Handle
  /\ tracked \in [Client -> [Handle -> DeviceId \cup {NoDevice}]]
  /\ cache \in [Client -> SUBSET DeviceId]

\* No device stays attached for a client that cannot detach it any more: the
\* connection that owns a handle tracks it, or is about to (the answer to its
\* AttachDevice is there), and while it closes the handle is among those still
\* to be detached.
NoOrphanedHandle ==
  \A h \in Handle : IsAttached(h) =>
    LET c == attached[h].client
    IN  \/ /\ tracked[c][h] = attached[h].device
           /\ conn[c].closing => h \in conn[c].leaving
        \/ /\ conn[c].pc = "done" /\ conn[c].cmd.op = "Attach"
           /\ h \in conn[c].answer

\* What a connection tracks and the manager knows, they agree on: requests on
\* a tracked handle reach the device the client attached, for that client.
TrackedIsOwn ==
  \A c \in Client, h \in Handle :
    tracked[c][h] # NoDevice /\ IsAttached(h) =>
      attached[h] = [device |-> tracked[c][h], client |-> c]

\* A handle leads its owner, and nobody else, to the device it was given out for:
\* what a connection tracks agrees with the manager, and the one mode the server
\* configures gives no device to two handles (attach_device, execute_transfer).
HandlesLeadHome == TrackedIsOwn /\ ExclusiveUse

\* Whenever the thread has worked off all that libusb told it, the registry
\* holds exactly the shareable devices that are plugged in, however fast they
\* came and went.
QuietRegistryMatches ==
  InLoop /\ hotplug = <<>> /\ (\A p \in Port : debounce[p] = "none") =>
    \A p \in Port : devices[p] # NoDevice <=> p \in present \cap Shareable

Tells(event, c, h) ==
  event.kind = "Left" /\ (h \in event.handles \/ event.device = tracked[c][h])

Announced(c, h) == Tells(sending, c, h) \/ \E i \in DOMAIN events : Tells(events[i], c, h)

\* An idle connection tracks no handle of a device that the registry has dropped,
\* unless the event that will tell it so is on its way (handle_usb_event).
\* channel.rs:100 calls the clients of that event the "Client IDs that need to be
\* notified".
NoStaleHandle ==
  \A c \in Client : conn[c].pc = "ready" =>
    \A h \in TrackedBy(c) : Registered(tracked[c][h]) \/ Announced(c, h)

Asking(c) == conn[c].pc \in {"send", "wait"}

\* Every command a handler sends is answered.
RequestsAnswered == \A c \in Client : Asking(c) ~> (~Asking(c) \/ ~Running)

\* A connection that starts to close gives all its handles back and ends.
CloseCompletes == \A c \in Client : conn[c].closing ~> (conn[c].pc = "off" \/ ~Running)

\* The registry catches up with the bus once nothing is plugged any more.
RegistryCatchesUp ==
  <>[](~Running \/ \A p \in Port : devices[p] # NoDevice <=> p \in present \cap Shareable)

\* The USB thread obeys a Shutdown that has been sent.
ShutdownCompletes == (\E i \in DOMAIN cmds : cmds[i].op = "Shutdown") ~> ~Running

\* Ends are reached: a closing connection gives back all its handles and is
\* gone, and the USB thread obeys a Shutdown (cleanup, UsbWorkerThread::run).
EndsAreReached == CloseCompletes /\ ShutdownCompletes

\* ARCHITECTURE.md:1679 says of a full channel: "Block until space available
\* (backpressure)".  When the USB thread waits for room in the event channel
\* and a handler waits for the thread, room becomes available.
BlockingEnds ==
  \A c \in Client :
    (sending # NoEvent /\ conn[c].pc = "wait") ~> sending = NoEvent

\* The server uses the manager only through the operations of DeviceManager.
UsesManager == ManagerSpec

=============================================================================
