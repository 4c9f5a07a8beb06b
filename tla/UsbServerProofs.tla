--------------------------- MODULE UsbServerProofs ---------------------------
(***************************************************************************)
(* The server, for any number of ports, devices, clients and handles and   *)
(* any capacity of the two channels: it uses the manager only through the  *)
(* manager's operations, so that the manager's invariant holds in it, and  *)
(* the connection handlers' books agree with the manager's.                *)
(***************************************************************************)
EXTENDS UsbServer, DeviceManagerProofs

Message == [port : Port, kind : {"Arrived", "Left"}]
Stop == [op |-> "Shutdown", client |-> "main"]
OnHandle == {"Detach", "Transfer", "Lock", "Unlock"}

\* The commands the handlers send name what their operation needs.
Sound ==
  {cmd \in ClientCommand : /\ cmd.op = "Attach" => cmd.device \in DeviceId
                           /\ cmd.op \in OnHandle => cmd.handle \in Handle}

HandlerState ==
  [pc : {"off", "ready", "send", "wait", "done"}, cmd : Sound \cup {NoCommand},
   answer : SUBSET (DeviceId \cup Handle), goal : DeviceId \cup {NoDevice},
   closing : BOOLEAN, leaving : SUBSET Handle]

BusTyped ==
  /\ worker \in {"starting", "running", "stopped"}
  /\ present \in SUBSET Port
  /\ changes \in 0 .. MaxChanges
  /\ hotplug \in Seq(Message)
  /\ debounce \in [Port -> {"none", "Arrived", "Left"}]
  /\ fired \in SUBSET [port : Port, kind : {"Found", "Arrived", "Left"}]
  /\ sending \in Event \cup {NoEvent}

CmdsTyped == cmds \in Seq(Sound \cup {Stop}) /\ Len(cmds) <= CmdCap

EventsTyped == events \in Seq(Event) /\ Len(events) <= EventCap

ConnTyped ==
  /\ conn \in [Client -> HandlerState]
  /\ tracked \in [Client -> [Handle -> DeviceId \cup {NoDevice}]]
  /\ cache \in [Client -> SUBSET DeviceId]

\* A handler that waits has one command in the channel, its own.
OneCommand ==
  /\ \A i \in DOMAIN cmds : cmds[i].op # "Shutdown" =>
       conn[cmds[i].client].pc = "wait" /\ conn[cmds[i].client].cmd = cmds[i]
  /\ \A i, j \in DOMAIN cmds :
       cmds[i].op # "Shutdown" /\ cmds[j].op # "Shutdown" /\ cmds[i].client = cmds[j].client => i = j

\* A removal is told of a device that will not come back under its id.
Gone(event) ==
  event.kind = "Left" =>
    /\ event.device \in used_ids /\ ~Registered(event.device)
    /\ event.handles \subseteq used_handles
    /\ \A h \in event.handles : ~IsAttached(h)

Removals == Gone(sending) /\ \A i \in DOMAIN events : Gone(events[i])

\* What an answer says of handles is still true, unless they are dropped.
Answers(c) ==
  /\ conn[c].pc = "done" /\ conn[c].cmd.op = "List" => conn[c].answer \subseteq DeviceId
  /\ conn[c].pc = "done" /\ conn[c].cmd.op = "Attach" =>
       /\ conn[c].answer \subseteq used_handles
       /\ \A h \in conn[c].answer : IsAttached(h) =>
            attached[h] = [device |-> conn[c].cmd.device, client |-> c]
  /\ conn[c].pc = "done" /\ conn[c].cmd.op = "Detach" =>
       \A h \in conn[c].answer \cup {conn[c].cmd.handle} : h \in used_handles /\ ~IsAttached(h)

Books(c) ==
  /\ conn[c].pc \in {"send", "wait", "done"} => conn[c].cmd \in Sound /\ conn[c].cmd.client = c
  /\ conn[c].cmd.op = "Detach" => conn[c].cmd.handle \in used_handles
  /\ conn[c].closing => conn[c].cmd.op = "Detach" /\ conn[c].pc \in {"send", "wait", "done"}
  /\ conn[c].leaving \subseteq used_handles
  /\ TrackedBy(c) \subseteq used_handles

\* The devices attached for a client are tracked by its connection, or will be.
Keeps(c) ==
  \A h \in Handle : IsAttached(h) /\ attached[h].client = c =>
    \/ /\ tracked[c][h] = attached[h].device
       /\ conn[c].closing => h \in conn[c].leaving
    \/ /\ conn[c].pc = "done" /\ conn[c].cmd.op = "Attach"
       /\ h \in conn[c].answer

\* What it tracks is the client's own.
Own(c) ==
  \A h \in Handle : tracked[c][h] # NoDevice /\ IsAttached(h) =>
    attached[h] = [device |-> tracked[c][h], client |-> c]

Owned(c) == Answers(c) /\ Books(c) /\ Keeps(c) /\ Own(c)

UsbInv ==
  /\ ManagerInv
  /\ BusTyped /\ CmdsTyped /\ EventsTyped /\ ConnTyped
  /\ OneCommand
  /\ Removals
  /\ \A c \in Client : Owned(c)

-----------------------------------------------------------------------------
(* The manager's steps *)

\* Every step of the server is a call of the manager's or leaves it alone.
LEMMA UseStep ==
  ASSUME UsbInv, [Next]_vars
  PROVE  [ManagerNext]_managerVars
<1> SUFFICES ASSUME ~UNCHANGED managerVars
             PROVE  ManagerNext
  OBVIOUS
<1>h. /\ cmds # <<>> => Head(cmds) \in Sound \cup {Stop}
  BY DEF UsbInv, CmdsTyped
<1>1. ASSUME NEW p \in Port, Enumerate(p) \/ DeviceArrived(p)
      PROVE  ManagerNext
  BY <1>1 DEF Enumerate, DeviceArrived, ManagerNext
<1>2. ASSUME NEW p \in Port, DeviceLeft(p)
      PROVE  ManagerNext
  BY <1>2 DEF DeviceLeft, ManagerNext
<1>3. ASSUME NEW c \in Client, HandleAttach(c)
      PROVE  ManagerNext
  <2>1. Head(cmds) \in Sound /\ Head(cmds).op = "Attach"
    BY <1>3, <1>h DEF HandleAttach, Answer, Stop
  <2>2. Head(cmds).device \in DeviceId
    BY <2>1 DEF Sound
  <2> QED
    BY <2>2, <1>3 DEF HandleAttach, ManagerNext
<1>4. ASSUME NEW c \in Client, HandleDetach(c) \/ HandleLock(c) \/ HandleUnlock(c)
      PROVE  ManagerNext
  <2>1. Head(cmds) \in Sound /\ Head(cmds).op \in OnHandle
    BY <1>4, <1>h DEF HandleDetach, HandleLock, HandleUnlock, Answer, Stop, OnHandle
  <2>2. Head(cmds).handle \in Handle
    BY <2>1 DEF Sound
  <2> QED
    BY <2>2, <1>4 DEF HandleDetach, HandleLock, HandleUnlock, ManagerNext
<1>5. ASSUME NEW p \in Port, Plug(p) \/ Unplug(p)
      PROVE  FALSE
  BY <1>5 DEF Plug, Unplug
<1>6. ASSUME StartLoop \/ HotplugCallback \/ (\E ready \in SUBSET Port : DebounceFires(ready)) \/ SendEvent
             \/ HandleShutdown \/ SendShutdown
      PROVE  FALSE
  BY <1>6 DEF StartLoop, HotplugCallback, DebounceFires, SendEvent, HandleShutdown, SendShutdown
<1>7. ASSUME NEW c \in Client, HandleList(c) \/ HandleTransfer(c)
      PROVE  FALSE
  BY <1>7 DEF HandleList, HandleTransfer
<1>8. ASSUME NEW c \in Client,
             Connect(c) \/ Request(c) \/ ReceiveEvent(c) \/ Disconnect(c)
      PROVE  FALSE
  BY <1>8 DEF Connect, Request, RequestList, RequestAttach, RequestDetach, RequestOnHandle,
      RequestTransfer, RequestLock, RequestUnlock, Begin,
              ReceiveEvent, Disconnect
<1>9. ASSUME NEW c \in Client, Handler(c)
      PROVE  FALSE
  BY <1>9 DEF Handler, SendCommand, FinishList, FinishAttach, FinishDetach, FinishOther, CleanupStep,
              Answered
<1>10. CASE UNCHANGED vars
  BY <1>10 DEF vars
<1> QED
  BY <1>1, <1>2, <1>3, <1>4, <1>5, <1>6, <1>7, <1>8, <1>9, <1>10
  DEF Next, Bus, UsbThread, HandleCommand

\* Ids and handles that have been dropped are never known again.
LEMMA ManagerMoves ==
  ASSUME ManagerInv, [ManagerNext]_managerVars
  PROVE  /\ used_ids \subseteq used_ids' /\ used_handles \subseteq used_handles'
         /\ \A d \in used_ids : Registered(d)' => Registered(d)
         /\ \A h \in Handle : h \in used_handles /\ IsAttached(h)' =>
              IsAttached(h) /\ attached'[h] = attached[h]
<1> DEFINE Goal ==
      /\ used_ids \subseteq used_ids' /\ used_handles \subseteq used_handles'
      /\ \A d \in used_ids : Registered(d)' => Registered(d)
      /\ \A h \in Handle : h \in used_handles /\ IsAttached(h)' =>
           IsAttached(h) /\ attached'[h] = attached[h]
<1>0. ManagerTypeOK
  BY DEF ManagerInv
<1>1. ASSUME NEW p \in Port, NEW d \in DeviceId, AddDevice(p, d)
      PROVE  Goal
  BY <1>0, <1>1 DEF AddDevice, Registered, IsAttached, ManagerTypeOK
<1>2. ASSUME NEW p \in Port, RemoveDevice(p)
      PROVE  Goal
  BY <1>0, <1>2 DEF RemoveDevice, Registered, IsAttached, ManagerTypeOK
<1>3. ASSUME NEW d \in DeviceId, NEW c \in Client, NEW h \in Handle, AttachDevice(d, c, h)
      PROVE  Goal
  BY <1>0, <1>3 DEF AttachDevice, Registered, IsAttached, ManagerTypeOK
<1>4. ASSUME NEW h \in Handle, DetachDevice(h)
      PROVE  Goal
  BY <1>0, <1>4 DEF DetachDevice, Registered, IsAttached, ManagerTypeOK
<1>5. ASSUME UNCHANGED <<device_ids, attached, used_ids, used_handles>>
      PROVE  Goal
  BY <1>5 DEF Registered, IsAttached
<1>6. ASSUME NEW h \in Handle, UnlockDevice(h) \/ (\E w \in BOOLEAN : LockDevice(h, w))
      PROVE  UNCHANGED <<device_ids, attached, used_ids, used_handles>>
  BY <1>6 DEF UnlockDevice, LockDevice
<1>7. ASSUME (\E d \in DeviceId : ServeDevice(d)) \/ ServeAllDevices \/ TimePasses \/ UNCHANGED managerVars
      PROVE  UNCHANGED <<device_ids, attached, used_ids, used_handles>>
  BY <1>7 DEF ServeDevice, ServeAllDevices, TimePasses, managerVars
<1> HIDE DEF Goal
<1>8. Goal
  BY <1>1, <1>2, <1>3, <1>4, <1>5, <1>6, <1>7 DEF ManagerNext
<1> QED
  BY <1>8 DEF Goal

-----------------------------------------------------------------------------
(* Types *)

Calm == UNCHANGED <<usbVars, plugVars, events>>

\* The handlers, and the commands they send, leave the thread's own state alone.
LEMMA CalmSteps ==
  ASSUME \/ \E c \in Client : \/ HandleList(c) \/ HandleAttach(c) \/ HandleDetach(c)
                              \/ HandleTransfer(c) \/ HandleLock(c) \/ HandleUnlock(c)
         \/ \E c \in Client : Connect(c) \/ Request(c) \/ Handler(c) \/ Disconnect(c)
         \/ SendShutdown
  PROVE  Calm
<1>1. ASSUME NEW c \in Client, HandleList(c) \/ HandleAttach(c) \/ HandleDetach(c)
      PROVE  Calm
  BY <1>1 DEF HandleList, HandleAttach, HandleDetach, Answer, Calm
<1>2. ASSUME NEW c \in Client, HandleTransfer(c) \/ HandleLock(c) \/ HandleUnlock(c)
      PROVE  Calm
  BY <1>2 DEF HandleTransfer, HandleLock, HandleUnlock, Answer, Calm
<1>3. ASSUME NEW c \in Client, Connect(c) \/ Request(c) \/ Disconnect(c)
      PROVE  Calm
  BY <1>3 DEF Connect, Request, RequestList, RequestAttach, RequestDetach, RequestOnHandle,
      RequestTransfer, RequestLock, RequestUnlock, Begin,
              Disconnect, Calm
<1>4. ASSUME NEW c \in Client, Handler(c)
      PROVE  Calm
  BY <1>4 DEF Handler, SendCommand, FinishList, FinishAttach, FinishDetach, FinishOther, CleanupStep,
              Answered, Calm
<1>5. CASE SendShutdown
  BY <1>5 DEF SendShutdown, Calm
<1> QED
  BY <1>1, <1>2, <1>3, <1>4, <1>5

\* What an event to be sent looks like.
LEMMA SendingTyped ==
  ASSUME UsbInv, ManagerTypeOK', NEW p \in Port, DeviceArrived(p) \/ DeviceLeft(p)
  PROVE  sending' \in Event \cup {NoEvent}
<1>0. ManagerTypeOK /\ sending \in Event \cup {NoEvent}
  BY DEF UsbInv, ManagerInv, BusTyped
<1>1. CASE DeviceArrived(p)
  <2>1. CASE UNCHANGED sending
    BY <2>1, <1>0
  <2>2. CASE ~UNCHANGED sending
    <3>1. sending' = [kind |-> "Arrived", device |-> devices'[p]]
      BY <1>1, <2>2 DEF DeviceArrived
    <3>2. devices'[p] # NoDevice
      BY <1>0, <1>1, <2>2, ManagerAssumption DEF DeviceArrived, AddDevice, managerVars, ManagerTypeOK
    <3>3. devices'[p] \in DeviceId
      BY <3>2 DEF ManagerTypeOK
    <3> QED
      BY <3>1, <3>3 DEF Event
  <2> QED
    BY <2>1, <2>2
<1>2. CASE DeviceLeft(p)
  <2>1. CASE UNCHANGED sending
    BY <2>1, <1>0
  <2>2. CASE ~UNCHANGED sending
    <3>1. /\ sending' = [kind |-> "Left", device |-> devices[p], handles |-> HandlesOf(devices[p])]
          /\ RemoveDevice(p)
      BY <1>2, <2>2 DEF DeviceLeft
    <3>2. devices[p] \in DeviceId
      BY <1>0, <3>1 DEF RemoveDevice, ManagerTypeOK
    <3>3. HandlesOf(devices[p]) \subseteq Handle
      BY DEF HandlesOf
    <3> QED
      BY <3>1, <3>2, <3>3 DEF Event
  <2> QED
    BY <2>1, <2>2
<1> QED
  BY <1>1, <1>2

LEMMA BusStep ==
  ASSUME UsbInv, [Next]_vars, ManagerTypeOK'
  PROVE  BusTyped' /\ EventsTyped'
<1>0. BusTyped /\ EventsTyped
  BY DEF UsbInv
<1>1. ASSUME NEW p \in Port, Plug(p) \/ Unplug(p)
      PROVE  BusTyped' /\ EventsTyped'
  <2>1. hotplug' \in Seq(Message)
    <3>1. hotplug \in Seq(Message) /\ [port |-> p, kind |-> "Arrived"] \in Message
          /\ [port |-> p, kind |-> "Left"] \in Message
      BY <1>0 DEF BusTyped, Message
    <3> QED
      BY <1>1, <3>1 DEF Plug, Unplug
  <2>2. changes' \in 0 .. MaxChanges
    BY <1>0, <1>1, ServerAssumption DEF Plug, Unplug, BusTyped
  <2> QED
    BY <1>0, <1>1, <2>1, <2>2 DEF Plug, Unplug, BusTyped, EventsTyped
<1>2. ASSUME NEW p \in Port, Enumerate(p)
      PROVE  BusTyped' /\ EventsTyped'
  BY <1>0, <1>2 DEF Enumerate, BusTyped, EventsTyped, plugVars
<1>3. ASSUME NEW p \in Port, DeviceArrived(p) \/ DeviceLeft(p)
      PROVE  BusTyped' /\ EventsTyped'
  <2>1. sending' \in Event \cup {NoEvent}
    BY <1>3, SendingTyped
  <2>2. fired' \subseteq fired /\ UNCHANGED <<worker, hotplug, debounce, plugVars, events>>
    BY <1>3 DEF DeviceArrived, DeviceLeft, ProcessFired
  <2> QED
    BY <1>0, <2>1, <2>2 DEF BusTyped, EventsTyped, plugVars
<1>4. CASE StartLoop
  BY <1>0, <1>4 DEF StartLoop, BusTyped, EventsTyped, plugVars
<1>5. CASE HotplugCallback
  <2>1. hotplug \in Seq(Message) /\ hotplug # <<>>
    BY <1>0, <1>5 DEF HotplugCallback, BusTyped
  <2>2. Tail(hotplug) \in Seq(Message) /\ Head(hotplug) \in Message
    BY <2>1
  <2>3. Head(hotplug).port \in Port /\ Head(hotplug).kind \in {"Arrived", "Left"}
    BY <2>2 DEF Message
  <2> QED
    BY <1>0, <1>5, <2>2, <2>3 DEF HotplugCallback, BusTyped, EventsTyped, plugVars
<1>6. ASSUME NEW ready \in SUBSET Port, DebounceFires(ready)
      PROVE  BusTyped' /\ EventsTyped'
  <2>1. \A p \in ready : debounce[p] \in {"Arrived", "Left"}
    BY <1>0, <1>6 DEF DebounceFires, BusTyped
  <2>2. fired' \in SUBSET [port : Port, kind : {"Found", "Arrived", "Left"}]
    BY <1>6, <2>1 DEF DebounceFires
  <2> QED
    BY <1>0, <1>6, <2>2 DEF DebounceFires, BusTyped, EventsTyped, plugVars
<1>7. CASE SendEvent
  <2>1. sending \in Event /\ events \in Seq(Event) /\ Len(events) < EventCap /\ events' = Append(events, sending)
    BY <1>0, <1>7 DEF SendEvent, BusTyped, EventsTyped
  <2>2. EventsTyped'
    <3>1. events' \in Seq(Event) /\ Len(events') = Len(events) + 1
      BY <2>1
    <3> QED
      BY <2>1, <3>1, ServerAssumption DEF EventsTyped
  <2> QED
    BY <1>0, <1>7, <2>2 DEF SendEvent, BusTyped, plugVars
<1>8. CASE HandleShutdown
  BY <1>0, <1>8 DEF HandleShutdown, BusTyped, EventsTyped, plugVars
<1>9. ASSUME NEW c \in Client, ReceiveEvent(c)
      PROVE  BusTyped' /\ EventsTyped'
  <2>1. events \in Seq(Event) /\ events # <<>> /\ Len(events) <= EventCap /\ events' = Tail(events)
    BY <1>0, <1>9 DEF ReceiveEvent, EventsTyped
  <2>2. EventsTyped'
    <3>1. events' \in Seq(Event) /\ Len(events') = Len(events) - 1
      BY <2>1
    <3> QED
      BY <2>1, <3>1, ServerAssumption DEF EventsTyped
  <2> QED
    BY <1>0, <1>9, <2>2 DEF ReceiveEvent, BusTyped, usbVars, plugVars
<1>10. CASE Calm
  BY <1>0, <1>10 DEF Calm, BusTyped, EventsTyped, usbVars, plugVars
<1>11. CASE UNCHANGED vars
  BY <1>0, <1>11 DEF vars, BusTyped, EventsTyped, usbVars, plugVars
<1> QED
  BY <1>1, <1>2, <1>3, <1>4, <1>5, <1>6, <1>7, <1>8, <1>9, <1>10, <1>11, CalmSteps
  DEF Next, Bus, UsbThread, HandleCommand

\* What the thread does of itself leaves the handlers and the commands alone.
Silent == UNCHANGED <<cmds, connVars>>

LEMMA SilentSteps ==
  ASSUME Bus \/ (UsbThread /\ ~HandleCommand)
  PROVE  Silent
BY DEF Bus, UsbThread, Silent, Plug, Unplug, Enumerate, DeviceArrived, DeviceLeft, ProcessFired,
       StartLoop, HotplugCallback, DebounceFires, SendEvent

\* A command is taken from the channel's head and its sender gets the answer.
Answering(c) ==
  \E op \in Ops : \E answer : Answer(c, op, answer)

LEMMA AnsweringSteps ==
  ASSUME NEW c \in Client,
         HandleList(c) \/ HandleAttach(c) \/ HandleDetach(c)
           \/ HandleTransfer(c) \/ HandleLock(c) \/ HandleUnlock(c)
  PROVE  Answering(c)
<1>1. CASE HandleList(c)
  BY <1>1 DEF HandleList, Answering, Ops
<1>2. CASE HandleAttach(c)
  BY <1>2 DEF HandleAttach, Answering, Ops
<1>3. CASE HandleDetach(c)
  BY <1>3 DEF HandleDetach, Answering, Ops
<1>4. CASE HandleTransfer(c)
  BY <1>4 DEF HandleTransfer, Answering, Ops
<1>5. CASE HandleLock(c)
  BY <1>5 DEF HandleLock, Answering, Ops
<1>6. CASE HandleUnlock(c)
  BY <1>6 DEF HandleUnlock, Answering, Ops
<1> QED
  BY <1>1, <1>2, <1>3, <1>4, <1>5, <1>6

LEMMA CmdsStep ==
  ASSUME UsbInv, [Next]_vars
  PROVE  CmdsTyped'
<1>0. cmds \in Seq(Sound \cup {Stop}) /\ Len(cmds) <= CmdCap /\ CmdCap \in Nat
  BY ServerAssumption DEF UsbInv, CmdsTyped
<1>1. ASSUME cmds # <<>>, cmds' = Tail(cmds)
      PROVE  CmdsTyped'
  <2>1. cmds' \in Seq(Sound \cup {Stop}) /\ Len(cmds') = Len(cmds) - 1
    BY <1>0, <1>1
  <2> QED
    BY <1>0, <2>1 DEF CmdsTyped
<1>2. ASSUME NEW cmd \in Sound \cup {Stop}, Len(cmds) < CmdCap, cmds' = Append(cmds, cmd)
      PROVE  CmdsTyped'
  <2>1. cmds' \in Seq(Sound \cup {Stop}) /\ Len(cmds') = Len(cmds) + 1
    BY <1>0, <1>2
  <2> QED
    BY <1>0, <1>2, <2>1 DEF CmdsTyped
<1>3. CASE UNCHANGED cmds
  BY <1>0, <1>3 DEF CmdsTyped
<1>4. ASSUME NEW c \in Client, Answering(c)
      PROVE  CmdsTyped'
  BY <1>4, <1>1 DEF Answering, Answer
<1>5. CASE HandleShutdown
  BY <1>5, <1>1 DEF HandleShutdown
<1>6. ASSUME NEW c \in Client, SendCommand(c)
      PROVE  CmdsTyped'
  <2>1. conn[c].cmd \in Sound
    BY <1>6 DEF SendCommand, UsbInv, Owned, Books
  <2> QED
    BY <1>2, <1>6, <2>1 DEF SendCommand
<1>7. CASE SendShutdown
  BY <1>2, <1>7 DEF SendShutdown, Stop
<1>8. ASSUME NEW c \in Client,
             \/ Connect(c) \/ Request(c) \/ ReceiveEvent(c) \/ Disconnect(c)
             \/ FinishList(c) \/ FinishAttach(c) \/ FinishDetach(c) \/ FinishOther(c) \/ CleanupStep(c)
      PROVE  UNCHANGED cmds
  BY <1>8 DEF Connect, Request, RequestList, RequestAttach, RequestDetach, RequestOnHandle,
      RequestTransfer, RequestLock, RequestUnlock, Begin,
              ReceiveEvent, Disconnect, FinishList, FinishAttach, FinishDetach, FinishOther,
              CleanupStep, Answered
<1>9. CASE Silent
  BY <1>3, <1>9 DEF Silent
<1>10. CASE UNCHANGED vars
  BY <1>3, <1>10 DEF vars
<1> QED
  BY <1>3, <1>4, <1>5, <1>6, <1>7, <1>8, <1>9, <1>10, SilentSteps, AnsweringSteps
  DEF Next, Handler, HandleCommand

-----------------------------------------------------------------------------
(* What a step does to a handler *)

Others(c) == \A x \in Client \ {c} : conn'[x] = conn[x]

LEMMA AnswerEffect ==
  ASSUME ConnTyped, NEW c \in Client, NEW op, NEW answer \in SUBSET (DeviceId \cup Handle),
         Answer(c, op, answer)
  PROVE  /\ conn' \in [Client -> HandlerState] /\ Others(c)
         /\ conn'[c].pc = "done" /\ conn'[c].answer = answer
         /\ conn'[c].cmd = conn[c].cmd /\ conn'[c].closing = conn[c].closing
         /\ conn'[c].leaving = conn[c].leaving
<1> DEFINE new == [conn[c] EXCEPT !.pc = "done", !.answer = answer]
<1>1. conn[c] \in HandlerState
  BY DEF ConnTyped
<1>2. new \in HandlerState
  BY <1>1 DEF HandlerState, NoCommand
<1>3. conn' = [conn EXCEPT ![c] = new]
  BY <1>1 DEF Answer, ConnTyped, HandlerState
<1>4. /\ new.pc = "done" /\ new.answer = answer /\ new.cmd = conn[c].cmd
      /\ new.closing = conn[c].closing /\ new.leaving = conn[c].leaving
  BY <1>1 DEF HandlerState
<1> HIDE DEF new
<1>5. conn' \in [Client -> HandlerState] /\ Others(c) /\ conn'[c] = new
  BY <1>2, <1>3 DEF ConnTyped, Others
<1> QED
  BY <1>4, <1>5

LEMMA BeginEffect ==
  ASSUME ConnTyped, NEW c \in Client, NEW op, NEW d, NEW h, NEW goal \in DeviceId \cup {NoDevice},
         Command(c, op, d, h) \in Sound, Begin(c, op, d, h, goal)
  PROVE  /\ conn' \in [Client -> HandlerState] /\ Others(c)
         /\ conn'[c].pc = "send" /\ conn'[c].cmd = Command(c, op, d, h)
         /\ conn'[c].closing = conn[c].closing /\ conn'[c].leaving = conn[c].leaving
<1> DEFINE new == [conn[c] EXCEPT !.pc = "send", !.cmd = Command(c, op, d, h), !.goal = goal]
<1>1. conn[c] \in HandlerState
  BY DEF ConnTyped
<1>2. new \in HandlerState
  BY <1>1 DEF HandlerState, NoCommand
<1>3. conn' = [conn EXCEPT ![c] = new]
  BY <1>1 DEF Begin, ConnTyped, HandlerState
<1>4. /\ new.pc = "send" /\ new.cmd = Command(c, op, d, h)
      /\ new.closing = conn[c].closing /\ new.leaving = conn[c].leaving
  BY <1>1 DEF HandlerState
<1> HIDE DEF new
<1>5. conn' \in [Client -> HandlerState] /\ Others(c) /\ conn'[c] = new
  BY <1>2, <1>3 DEF ConnTyped, Others
<1> QED
  BY <1>4, <1>5

LEMMA SendEffect ==
  ASSUME ConnTyped, NEW c \in Client, SendCommand(c)
  PROVE  /\ conn' \in [Client -> HandlerState] /\ Others(c)
         /\ conn'[c].pc = "wait" /\ conn'[c].cmd = conn[c].cmd
         /\ conn'[c].closing = conn[c].closing /\ conn'[c].leaving = conn[c].leaving
BY DEF SendCommand, ConnTyped, HandlerState, Others

LEMMA ReadyEffect ==
  ASSUME ConnTyped, NEW c \in Client, Ready(c)
  PROVE  /\ conn' \in [Client -> HandlerState] /\ Others(c)
         /\ conn'[c].pc = "ready" /\ conn'[c].cmd = NoCommand
         /\ conn'[c].closing = conn[c].closing /\ conn'[c].leaving = conn[c].leaving
<1> DEFINE new == [conn[c] EXCEPT !.pc = "ready", !.cmd = NoCommand, !.answer = {}, !.goal = NoDevice]
<1>1. conn[c] \in HandlerState
  BY DEF ConnTyped
<1>2. new \in HandlerState
  BY <1>1 DEF HandlerState, NoCommand
<1>3. conn' = [conn EXCEPT ![c] = new]
  BY <1>1 DEF Ready, ConnTyped, HandlerState
<1>4. /\ new.pc = "ready" /\ new.cmd = NoCommand
      /\ new.closing = conn[c].closing /\ new.leaving = conn[c].leaving
  BY <1>1 DEF HandlerState
<1> HIDE DEF new
<1>5. conn' \in [Client -> HandlerState] /\ Others(c) /\ conn'[c] = new
  BY <1>2, <1>3 DEF ConnTyped, Others
<1> QED
  BY <1>4, <1>5

LEMMA UntrackEffect ==
  ASSUME ConnTyped, NEW c \in Client, NEW handles, Untrack(c, handles)
  PROVE  /\ tracked' \in [Client -> [Handle -> DeviceId \cup {NoDevice}]]
         /\ \A x \in Client \ {c} : tracked'[x] = tracked[x]
         /\ \A h \in Handle : tracked'[c][h] = IF h \in handles THEN NoDevice ELSE tracked[c][h]
BY DEF Untrack, ConnTyped

\* cleanup is over, or goes on with one of the handles that are left.
LEMMA CloseEffect ==
  ASSUME ConnTyped, NEW c \in Client, NEW left \in SUBSET Handle, CloseNext(c, left)
  PROVE  /\ conn' \in [Client -> HandlerState] /\ Others(c) /\ ConnTyped'
         /\ \A x \in Client \ {c} : tracked'[x] = tracked[x]
         /\ conn'[c].leaving = left
         /\ \/ /\ left = {} /\ conn'[c].pc = "off" /\ ~conn'[c].closing /\ conn'[c].cmd = NoCommand
               /\ \A h \in Handle : tracked'[c][h] = NoDevice
            \/ /\ left # {} /\ conn'[c].pc = "send" /\ conn'[c].closing
               /\ tracked' = tracked
               /\ conn'[c].cmd \in Sound
               /\ conn'[c].cmd.op = "Detach" /\ conn'[c].cmd.handle \in left
               /\ conn'[c].cmd.client = c
<1>1. CASE left = {}
  <2>1. conn' = [conn EXCEPT ![c] = Idle] /\ Untrack(c, Handle) /\ cache' = [cache EXCEPT ![c] = {}]
    BY <1>1 DEF CloseNext
  <2>2. Idle \in HandlerState
    BY DEF Idle, HandlerState
  <2>3. /\ conn' \in [Client -> HandlerState] /\ Others(c) /\ conn'[c] = Idle
    BY <2>1, <2>2 DEF ConnTyped, Others
  <2>4. cache' \in [Client -> SUBSET DeviceId]
    BY <2>1 DEF ConnTyped
  <2> QED
    BY <1>1, <2>1, <2>3, <2>4, UntrackEffect DEF Idle, ConnTyped
<1>2. CASE left # {}
  <2>1. PICK h \in left : conn' = [conn EXCEPT ![c] =
              [Idle EXCEPT !.pc = "send", !.closing = TRUE, !.leaving = left,
                           !.cmd = Command(c, "Detach", NoDevice, h)]]
    BY <1>2 DEF CloseNext
  <2>2. Command(c, "Detach", NoDevice, h) \in Sound
    BY DEF Command, Sound, ClientCommand, Ops, OnHandle, MaybeHandle
  <2> DEFINE new == [Idle EXCEPT !.pc = "send", !.closing = TRUE, !.leaving = left,
                                 !.cmd = Command(c, "Detach", NoDevice, h)]
  <2>3. new \in HandlerState
    BY <2>2 DEF Idle, HandlerState
  <2>4. /\ new.pc = "send" /\ new.closing /\ new.leaving = left
        /\ new.cmd = Command(c, "Detach", NoDevice, h)
    BY DEF Idle
  <2>5. conn' \in [Client -> HandlerState] /\ Others(c) /\ conn'[c] = new
    BY <2>1, <2>3 DEF ConnTyped, Others
  <2>6. UNCHANGED <<tracked, cache>>
    BY <1>2 DEF CloseNext
  <2>7. /\ Command(c, "Detach", NoDevice, h).op = "Detach" /\ Command(c, "Detach", NoDevice, h).handle = h
        /\ Command(c, "Detach", NoDevice, h).client = c
    BY DEF Command
  <2> HIDE DEF new
  <2> QED
    BY <1>2, <2>2, <2>4, <2>5, <2>6, <2>7 DEF ConnTyped
<1> QED
  BY <1>1, <1>2

\* The manager is the thread's alone.
LEMMA HandlersKeepOut ==
  ASSUME NEW c \in Client,
         Connect(c) \/ Request(c) \/ ReceiveEvent(c) \/ Disconnect(c) \/ Handler(c)
  PROVE  UNCHANGED managerVars
<1>1. ASSUME Connect(c) \/ ReceiveEvent(c) \/ Disconnect(c)
      PROVE  UNCHANGED managerVars
  BY <1>1 DEF Connect, ReceiveEvent, Disconnect
<1>2. ASSUME Request(c)
      PROVE  UNCHANGED managerVars
  BY <1>2 DEF Request, RequestList, RequestAttach, RequestDetach, RequestOnHandle, RequestTransfer,
      RequestLock, RequestUnlock, Begin
<1>3. ASSUME Handler(c)
      PROVE  UNCHANGED managerVars
  BY <1>3 DEF Handler, SendCommand, FinishList, FinishAttach, FinishDetach, FinishOther,
              CleanupStep, Answered
<1> QED
  BY <1>1, <1>2, <1>3

\* Only attach_device gives a client a handle.
LEMMA NothingNew ==
  ASSUME UsbInv, [Next]_vars, ~\E c \in Client : HandleAttach(c)
  PROVE  \A h \in Handle : IsAttached(h)' => IsAttached(h) /\ attached'[h] = attached[h]
<1> DEFINE Goal == \A h \in Handle : IsAttached(h)' => IsAttached(h) /\ attached'[h] = attached[h]
<1>0. ManagerTypeOK
  BY DEF UsbInv, ManagerInv
<1>1. ASSUME UNCHANGED attached
      PROVE  Goal
  BY <1>1 DEF IsAttached
<1>2. ASSUME NEW p \in Port, Enumerate(p) \/ DeviceArrived(p)
      PROVE  UNCHANGED attached
  BY <1>2 DEF Enumerate, DeviceArrived, AddDevice, managerVars
<1>3. ASSUME NEW p \in Port, DeviceLeft(p)
      PROVE  Goal
  BY <1>0, <1>3 DEF DeviceLeft, RemoveDevice, managerVars, IsAttached, ManagerTypeOK
<1>4. ASSUME NEW c \in Client, HandleDetach(c)
      PROVE  Goal
  BY <1>0, <1>4 DEF HandleDetach, DetachDevice, managerVars, IsAttached, ManagerTypeOK
<1>5. ASSUME NEW c \in Client, HandleLock(c) \/ HandleUnlock(c) \/ HandleList(c) \/ HandleTransfer(c)
      PROVE  UNCHANGED attached
  BY <1>5 DEF HandleLock, HandleUnlock, HandleList, HandleTransfer, LockDevice, UnlockDevice, managerVars
<1>6. ASSUME NEW p \in Port, Plug(p) \/ Unplug(p)
      PROVE  UNCHANGED attached
  BY <1>6 DEF Plug, Unplug, managerVars
<1>7. ASSUME StartLoop \/ HotplugCallback \/ (\E ready \in SUBSET Port : DebounceFires(ready)) \/ SendEvent
             \/ HandleShutdown \/ SendShutdown
      PROVE  UNCHANGED attached
  BY <1>7 DEF StartLoop, HotplugCallback, DebounceFires, SendEvent, HandleShutdown, SendShutdown, managerVars
<1>8. ASSUME NEW c \in Client,
             Connect(c) \/ Request(c) \/ ReceiveEvent(c) \/ Disconnect(c) \/ Handler(c)
      PROVE  UNCHANGED attached
  <2>1. UNCHANGED managerVars
    BY <1>8, HandlersKeepOut
  <2> QED
    BY <2>1 DEF managerVars
<1>9. ASSUME UNCHANGED vars
      PROVE  UNCHANGED attached
  BY <1>9 DEF vars, managerVars
<1> HIDE DEF Goal
<1>10. Goal
  BY <1>1, <1>2, <1>3, <1>4, <1>5, <1>6, <1>7, <1>8, <1>9
  DEF Next, Bus, UsbThread, HandleCommand
<1> QED
  BY <1>10 DEF Goal

-----------------------------------------------------------------------------
(* The commands of a handler *)

\* The command the thread answers is the one its sender waits for.
LEMMA HeadIsOwn ==
  ASSUME UsbInv, NEW c \in Client, NEW op \in Ops, NEW answer, Answer(c, op, answer)
  PROVE  /\ conn[c].pc = "wait" /\ conn[c].cmd = Head(cmds) /\ conn[c].cmd.op = op
         /\ Head(cmds) \in Sound
<1>1. cmds \in Seq(Sound \cup {Stop}) /\ cmds # <<>> /\ Head(cmds).op = op /\ Head(cmds).client = c
  BY DEF Answer, UsbInv, CmdsTyped
<1>2. 1 \in DOMAIN cmds /\ Head(cmds) = cmds[1] /\ Head(cmds) \in Sound \cup {Stop}
  BY <1>1
<1>3. op # "Shutdown"
  BY DEF Ops
<1> QED
  BY <1>1, <1>2, <1>3 DEF UsbInv, OneCommand, Stop

\* A handler that does not wait has no command in the channel.
LEMMA OthersCommands ==
  ASSUME UsbInv, NEW c \in Client, conn[c].pc # "wait", Others(c), UNCHANGED cmds
  PROVE  OneCommand'
<1>1. ASSUME NEW i \in DOMAIN cmds, cmds[i].op # "Shutdown"
      PROVE  conn'[cmds[i].client] = conn[cmds[i].client]
  <2>1. cmds[i] \in Sound
    BY <1>1 DEF UsbInv, CmdsTyped, Stop
  <2>2. cmds[i].client \in Client
    BY <2>1 DEF Sound, ClientCommand
  <2>3. cmds[i].client # c
    BY <1>1 DEF UsbInv, OneCommand
  <2> QED
    BY <2>2, <2>3 DEF Others
<1> QED
  BY <1>1 DEF UsbInv, OneCommand

\* Between requests, and when an answer has come, a handler sends nothing.
LEMMA QuietMoves ==
  ASSUME NEW c \in Client,
         \/ Connect(c) \/ Request(c) \/ ReceiveEvent(c) \/ Disconnect(c)
         \/ FinishList(c) \/ FinishAttach(c) \/ FinishDetach(c) \/ FinishOther(c) \/ CleanupStep(c)
  PROVE  conn[c].pc # "wait" /\ UNCHANGED cmds
<1>1. ASSUME Connect(c) \/ ReceiveEvent(c) \/ Disconnect(c)
      PROVE  conn[c].pc # "wait" /\ UNCHANGED cmds
  BY <1>1 DEF Connect, ReceiveEvent, Disconnect
<1>2. ASSUME Request(c)
      PROVE  conn[c].pc # "wait" /\ UNCHANGED cmds
  BY <1>2 DEF Request, RequestList, RequestAttach, RequestDetach, RequestOnHandle, RequestTransfer,
      RequestLock, RequestUnlock, Begin
<1>3. ASSUME FinishList(c) \/ FinishAttach(c) \/ FinishDetach(c) \/ FinishOther(c) \/ CleanupStep(c)
      PROVE  conn[c].pc # "wait" /\ UNCHANGED cmds
  BY <1>3 DEF FinishList, FinishAttach, FinishDetach, FinishOther, CleanupStep, Answered
<1> QED
  BY <1>1, <1>2, <1>3

\* A handler changes its own state only.
LEMMA LoneMoves ==
  ASSUME ConnTyped, NEW c \in Client,
         \/ Connect(c) \/ Request(c) \/ ReceiveEvent(c) \/ Disconnect(c)
         \/ FinishList(c) \/ FinishAttach(c) \/ FinishDetach(c) \/ FinishOther(c) \/ CleanupStep(c)
  PROVE  Others(c)
<1>1. ASSUME Connect(c) \/ ReceiveEvent(c)
      PROVE  Others(c)
  BY <1>1 DEF Connect, ReceiveEvent, Others, ConnTyped
<1>2. ASSUME Request(c)
      PROVE  Others(c)
  BY <1>2 DEF Request, RequestList, RequestAttach, RequestDetach, RequestOnHandle, RequestTransfer,
      RequestLock, RequestUnlock, Begin, Others, ConnTyped
<1>3. ASSUME FinishList(c) \/ FinishAttach(c) \/ FinishDetach(c) \/ FinishOther(c)
      PROVE  Others(c)
  BY <1>3 DEF FinishList, FinishAttach, FinishDetach, FinishOther, Ready, Others, ConnTyped
<1>4. ASSUME Disconnect(c) \/ CleanupStep(c)
      PROVE  Others(c)
  BY <1>4 DEF Disconnect, CleanupStep, CloseNext, Others, ConnTyped
<1> QED
  BY <1>1, <1>2, <1>3, <1>4

LEMMA OneCommandStep ==
  ASSUME UsbInv, [Next]_vars
  PROVE  OneCommand'
<1>0. OneCommand /\ cmds \in Seq(Sound \cup {Stop}) /\ ConnTyped
  BY DEF UsbInv, CmdsTyped
<1>c. \A i \in DOMAIN cmds : cmds[i].op # "Shutdown" => cmds[i].client \in Client
  <2> SUFFICES ASSUME NEW i \in DOMAIN cmds, cmds[i].op # "Shutdown"
               PROVE  cmds[i].client \in Client
    OBVIOUS
  <2>1. cmds[i] \in Sound
    BY <1>0 DEF Stop
  <2> QED
    BY <2>1 DEF Sound, ClientCommand
<1>1. CASE UNCHANGED <<conn, cmds>>
  BY <1>0, <1>1 DEF OneCommand
<1>2. ASSUME NEW c \in Client, Answering(c)
      PROVE  OneCommand'
  <2>0. PICK op \in Ops : \E answer : Answer(c, op, answer)
    BY <1>2 DEF Answering
  <2>1. PICK answer : Answer(c, op, answer)
    BY <2>0
  <2>2. /\ cmds # <<>> /\ cmds' = Tail(cmds) /\ Head(cmds).client = c /\ op # "Shutdown"
        /\ Head(cmds).op = op
        /\ \A x \in Client \ {c} : conn'[x] = conn[x]
    BY <1>0, <2>1 DEF Answer, Ops, ConnTyped
  <2>3. /\ Head(cmds) = cmds[1] /\ 1 \in DOMAIN cmds
        /\ \A i \in DOMAIN cmds' : i + 1 \in DOMAIN cmds /\ cmds'[i] = cmds[i + 1] /\ i + 1 # 1
        /\ \A i, j \in DOMAIN cmds' : i + 1 = j + 1 => i = j
    BY <1>0, <2>2
  <2>4. ASSUME NEW i \in DOMAIN cmds', cmds'[i].op # "Shutdown"
        PROVE  cmds'[i].client # c /\ cmds'[i].client \in Client
    BY <1>0, <1>c, <2>2, <2>3, <2>4 DEF OneCommand
  <2> QED
    BY <1>0, <2>2, <2>3, <2>4 DEF OneCommand
<1>3. ASSUME HandleShutdown
      PROVE  OneCommand'
  <2>1. cmds # <<>> /\ cmds' = Tail(cmds) /\ UNCHANGED conn
    BY <1>3 DEF HandleShutdown, connVars
  <2>2. /\ \A i \in DOMAIN cmds' : i + 1 \in DOMAIN cmds /\ cmds'[i] = cmds[i + 1]
        /\ \A i, j \in DOMAIN cmds' : i + 1 = j + 1 => i = j
    BY <1>0, <2>1
  <2> QED
    BY <1>0, <2>1, <2>2 DEF OneCommand
<1>4. ASSUME NEW c \in Client, SendCommand(c)
      PROVE  OneCommand'
  <2>1. /\ Others(c) /\ conn'[c].pc = "wait" /\ conn'[c].cmd = conn[c].cmd
        /\ cmds' = Append(cmds, conn[c].cmd) /\ conn[c].pc = "send"
    BY <1>0, <1>4, SendEffect DEF SendCommand
  <2>2. conn[c].cmd \in Sound /\ conn[c].cmd \in Sound \cup {Stop}
    BY <2>1 DEF UsbInv, Owned, Books
  <2>3. conn[c].cmd.client = c
    BY <2>1 DEF UsbInv, Owned, Books
  <2>4. /\ \A i \in DOMAIN cmds : cmds'[i] = cmds[i] /\ i # Len(cmds) + 1
        /\ \A i \in DOMAIN cmds' : i \in DOMAIN cmds \/ i = Len(cmds) + 1
        /\ cmds'[Len(cmds) + 1] = conn[c].cmd
    BY <1>0, <2>1, <2>2
  <2>5. ASSUME NEW i \in DOMAIN cmds, cmds[i].op # "Shutdown"
        PROVE  cmds[i].client # c /\ conn'[cmds[i].client] = conn[cmds[i].client]
    BY <1>0, <1>c, <2>1, <2>5 DEF OneCommand, Others
  <2> QED
    BY <1>0, <2>1, <2>3, <2>4, <2>5 DEF OneCommand
<1>5. CASE SendShutdown
  <2>1. cmds' = Append(cmds, Stop) /\ UNCHANGED conn
    BY <1>5 DEF SendShutdown, Stop, connVars
  <2>2. /\ \A i \in DOMAIN cmds : cmds'[i] = cmds[i]
        /\ \A i \in DOMAIN cmds' : i \in DOMAIN cmds \/ i = Len(cmds) + 1
        /\ cmds'[Len(cmds) + 1] = Stop /\ Stop.op = "Shutdown"
    BY <1>0, <2>1 DEF Stop
  <2> QED
    BY <1>0, <2>1, <2>2 DEF OneCommand
<1>6. ASSUME NEW c \in Client,
             \/ Connect(c) \/ Request(c) \/ ReceiveEvent(c) \/ Disconnect(c)
             \/ FinishList(c) \/ FinishAttach(c) \/ FinishDetach(c) \/ FinishOther(c) \/ CleanupStep(c)
      PROVE  OneCommand'
  <2>1. conn[c].pc # "wait" /\ UNCHANGED cmds
    BY <1>6, QuietMoves
  <2>2. Others(c)
    BY <1>0, <1>6, LoneMoves
  <2> QED
    BY <2>1, <2>2, OthersCommands
<1>7. CASE Silent
  BY <1>1, <1>7 DEF Silent, connVars
<1>8. CASE UNCHANGED vars
  BY <1>1, <1>8 DEF vars, connVars
<1> QED
  BY <1>2, <1>3, <1>4, <1>5, <1>6, <1>7, <1>8, SilentSteps, AnsweringSteps
  DEF Next, Handler, HandleCommand

-----------------------------------------------------------------------------
(* Removals *)

\* What has gone stays gone.
LEMMA GoneStays ==
  ASSUME UsbInv, [ManagerNext]_managerVars, NEW event \in Event \cup {NoEvent}, Gone(event)
  PROVE  Gone(event)'
<1>1. CASE event.kind # "Left"
  BY <1>1 DEF Gone
<1>2. CASE event.kind = "Left"
  <2>1. event.handles \subseteq Handle
    BY <1>2 DEF Event, NoEvent
  <2>2. ManagerInv
    BY DEF UsbInv
  <2> QED
    BY <1>2, <2>1, <2>2, ManagerMoves DEF Gone
<1> QED
  BY <1>1, <1>2

\* remove_device drops the device and all its handles.
LEMMA LeftIsGone ==
  ASSUME UsbInv, NEW p \in Port, DeviceLeft(p)
  PROVE  UNCHANGED sending \/ Gone(sending)'
<1> SUFFICES ASSUME ~UNCHANGED sending
             PROVE  Gone(sending)'
  OBVIOUS
<1>0. ManagerInv /\ ManagerTypeOK
  BY DEF UsbInv, ManagerInv
<1>1. /\ RemoveDevice(p)
      /\ sending' = [kind |-> "Left", device |-> devices[p], handles |-> HandlesOf(devices[p])]
  BY DEF DeviceLeft
<1>2. PICK d \in DeviceId : d = devices[p]
  BY <1>0, <1>1 DEF RemoveDevice, ManagerTypeOK
<1>3. d \in used_ids /\ device_ids[d] = p
  <2>1. device_ids[d] = p
    BY <1>0, <1>2 DEF ManagerInv, Maps
  <2>2. Registered(d)
    BY <2>1, ManagerAssumption DEF Registered
  <2> QED
    BY <1>0, <2>1, <2>2 DEF ManagerInv, Used
<1>4. used_ids' = used_ids /\ used_handles' = used_handles
  BY <1>1 DEF RemoveDevice
<1>5. device_ids'[d] = NoPort
  BY <1>0, <1>1, <1>2 DEF RemoveDevice, ManagerTypeOK
<1>6. ASSUME NEW h \in HandlesOf(d)
      PROVE  h \in used_handles /\ attached'[h] = NoAttachment
  BY <1>0, <1>1, <1>2, <1>6 DEF RemoveDevice, ManagerTypeOK, HandlesOf, ManagerInv, Used, IsAttached
<1>7. sending'.device = d /\ sending'.handles = HandlesOf(d)
  BY <1>1, <1>2
<1> QED
  BY <1>3, <1>4, <1>5, <1>6, <1>7 DEF Gone, Registered, IsAttached

LEMMA RemovalsStep ==
  ASSUME UsbInv, [Next]_vars
  PROVE  Removals'
<1>0. /\ Removals /\ sending \in Event \cup {NoEvent} /\ events \in Seq(Event)
      /\ [ManagerNext]_managerVars
  BY UseStep DEF UsbInv, BusTyped, EventsTyped
<1>s. Gone(sending) => (UNCHANGED sending => Gone(sending)')
  <2> SUFFICES ASSUME Gone(sending), UNCHANGED sending
               PROVE  Gone(sending)'
    OBVIOUS
  <2>1. PICK event \in Event \cup {NoEvent} : event = sending /\ event = sending'
    BY <1>0
  <2>2. Gone(event)'
    BY <1>0, <2>1, GoneStays
  <2> QED
    BY <2>1, <2>2 DEF Gone
<1>e. \A event \in Event : Gone(event) => Gone(event)'
  BY <1>0, GoneStays
<1>1. ASSUME UNCHANGED events
      PROVE  \A i \in DOMAIN events' : Gone(events[i])'
  <2> SUFFICES ASSUME NEW i \in DOMAIN events
               PROVE  Gone(events[i])'
    BY <1>1
  <2>1. PICK event \in Event : event = events[i] /\ event = events'[i]
    BY <1>0, <1>1
  <2>2. Gone(event)'
    BY <1>0, <1>e, <2>1 DEF Removals
  <2> QED
    BY <2>1, <2>2 DEF Gone
<1>2. ASSUME UNCHANGED <<sending, events>>
      PROVE  Removals'
  BY <1>0, <1>1, <1>2, <1>s DEF Removals
<1>3. ASSUME NEW p \in Port, DeviceArrived(p)
      PROVE  Removals'
  <2>1. UNCHANGED events
    BY <1>3 DEF DeviceArrived, ProcessFired
  <2>2. UNCHANGED sending \/ sending'.kind = "Arrived"
    BY <1>3 DEF DeviceArrived
  <2> QED
    BY <1>0, <1>1, <1>s, <2>1, <2>2 DEF Removals, Gone
<1>4. ASSUME NEW p \in Port, DeviceLeft(p)
      PROVE  Removals'
  <2>1. UNCHANGED events
    BY <1>4 DEF DeviceLeft, ProcessFired
  <2>2. Gone(sending)'
    BY <1>0, <1>4, <1>s, LeftIsGone DEF Removals
  <2> QED
    BY <1>1, <2>1, <2>2 DEF Removals
<1>5. CASE SendEvent
  <2>1. sending \in Event /\ events' = Append(events, sending) /\ sending' = NoEvent
    BY <1>0, <1>5 DEF SendEvent
  <2>2. PICK event \in Event : event = sending
    BY <2>1
  <2>3. Gone(event)'
    BY <1>0, <1>e, <2>2 DEF Removals
  <2>4. ASSUME NEW i \in DOMAIN events'
        PROVE  Gone(events[i])'
    <3>1. (i \in DOMAIN events /\ events'[i] = events[i]) \/ events'[i] = event
      BY <1>0, <2>1, <2>2
    <3>2. CASE events'[i] = event
      BY <2>3, <3>2 DEF Gone
    <3>3. CASE i \in DOMAIN events /\ events'[i] = events[i]
      <4>1. PICK old \in Event : old = events[i] /\ old = events'[i]
        BY <1>0, <3>3
      <4>2. Gone(old)'
        BY <1>0, <1>e, <3>3, <4>1 DEF Removals
      <4> QED
        BY <4>1, <4>2 DEF Gone
    <3> QED
      BY <3>1, <3>2, <3>3
  <2>5. Gone(sending)'
    BY <2>1 DEF Gone, NoEvent
  <2> QED
    BY <2>4, <2>5 DEF Removals
<1>6. ASSUME NEW c \in Client, ReceiveEvent(c)
      PROVE  Removals'
  <2>1. events # <<>> /\ events' = Tail(events) /\ UNCHANGED sending
    BY <1>6 DEF ReceiveEvent, usbVars
  <2>2. ASSUME NEW i \in DOMAIN events'
        PROVE  Gone(events[i])'
    <3>1. i + 1 \in DOMAIN events /\ events'[i] = events[i + 1]
      BY <1>0, <2>1
    <3>2. PICK old \in Event : old = events[i + 1] /\ old = events'[i]
      BY <1>0, <3>1
    <3>3. Gone(old)'
      BY <1>0, <1>e, <3>1, <3>2 DEF Removals
    <3> QED
      BY <3>2, <3>3 DEF Gone
  <2> QED
    BY <1>0, <1>s, <2>1, <2>2 DEF Removals
<1>7. ASSUME NEW p \in Port, Plug(p) \/ Unplug(p) \/ Enumerate(p)
      PROVE  Removals'
  BY <1>2, <1>7 DEF Plug, Unplug, Enumerate
<1>8. ASSUME StartLoop \/ HotplugCallback \/ (\E ready \in SUBSET Port : DebounceFires(ready)) \/ HandleShutdown
      PROVE  Removals'
  BY <1>2, <1>8 DEF StartLoop, HotplugCallback, DebounceFires, HandleShutdown
<1>9. CASE Calm
  BY <1>2, <1>9 DEF Calm, usbVars
<1>10. CASE UNCHANGED vars
  BY <1>2, <1>10 DEF vars, usbVars
<1> QED
  BY <1>3, <1>4, <1>5, <1>6, <1>7, <1>8, <1>9, <1>10, CalmSteps
  DEF Next, Bus, UsbThread, HandleCommand

-----------------------------------------------------------------------------
(* The books of a handler *)

\* What a step may do to the devices attached for a client, unless it attaches
\* one for it.
Fewer(c) ==
  \A h \in Handle : IsAttached(h)' /\ attached'[h].client = c =>
    IsAttached(h) /\ attached'[h] = attached[h]

\* Dropped handles do not hurt the client whose state a step does not touch.
LEMMA Untouched ==
  ASSUME UsbInv, [ManagerNext]_managerVars, NEW c \in Client,
         conn'[c] = conn[c], tracked'[c] = tracked[c], Fewer(c)
  PROVE  Owned(c)'
<1>0. /\ Owned(c) /\ ConnTyped
      /\ used_handles \subseteq used_handles'
      /\ \A h \in Handle : h \in used_handles /\ IsAttached(h)' =>
           IsAttached(h) /\ attached'[h] = attached[h]
  BY ManagerMoves DEF UsbInv
<1>1. Books(c)'
  BY <1>0 DEF Owned, Books, TrackedBy
<1>2. Answers(c)'
  <2>1. CASE conn[c].pc = "done" /\ conn[c].cmd.op = "List"
    BY <1>0, <2>1 DEF Owned, Answers
  <2>2. CASE conn[c].pc = "done" /\ conn[c].cmd.op = "Attach"
    <3>1. \A h \in conn[c].answer : h \in Handle /\ h \in used_handles
      BY <1>0, <2>2 DEF Owned, Answers, UsbInv, ManagerInv, ManagerTypeOK
    <3> QED
      BY <1>0, <2>2, <3>1 DEF Owned, Answers
  <2>3. CASE conn[c].pc = "done" /\ conn[c].cmd.op = "Detach"
    <3>1. \A h \in conn[c].answer \cup {conn[c].cmd.handle} : h \in Handle /\ h \in used_handles
      BY <1>0, <2>3 DEF Owned, Answers, UsbInv, ManagerInv, ManagerTypeOK
    <3> QED
      BY <1>0, <2>3, <3>1 DEF Owned, Answers
  <2>4. CASE ~(conn[c].pc = "done" /\ conn[c].cmd.op \in {"List", "Attach", "Detach"})
    BY <2>4 DEF Answers
  <2> QED
    BY <2>1, <2>2, <2>3, <2>4
<1>3. Keeps(c)'
  BY <1>0 DEF Owned, Keeps, Fewer
<1>4. Own(c)'
  <2>1. \A h \in Handle : tracked[c][h] # NoDevice => h \in used_handles
    BY <1>0 DEF Owned, Books, TrackedBy
  <2> QED
    BY <1>0, <2>1 DEF Owned, Own
<1> QED
  BY <1>1, <1>2, <1>3, <1>4 DEF Owned

\* The thread's answer is entered in the sender's books.
LEMMA AnswerKept ==
  ASSUME UsbInv, [ManagerNext]_managerVars, NEW c \in Client, NEW op \in Ops,
         NEW answer \in SUBSET (DeviceId \cup Handle), Answer(c, op, answer),
         \A h \in Handle : IsAttached(h)' /\ attached'[h].client = c =>
           \/ IsAttached(h) /\ attached'[h] = attached[h]
           \/ op = "Attach" /\ h \in answer,
         op = "List" => answer \subseteq DeviceId,
         op = "Attach" => /\ answer \subseteq used_handles'
                          /\ \A h \in answer : IsAttached(h)' =>
                               attached'[h] = [device |-> Head(cmds).device, client |-> c],
         op = "Detach" => \A h \in answer \cup {Head(cmds).handle} : ~IsAttached(h)' /\ h \in used_handles
  PROVE  ConnTyped' /\ Owned(c)' /\ Others(c) /\ UNCHANGED tracked
<1>0. /\ Owned(c) /\ ConnTyped
      /\ used_handles \subseteq used_handles'
      /\ \A h \in Handle : h \in used_handles /\ IsAttached(h)' =>
           IsAttached(h) /\ attached'[h] = attached[h]
  BY ManagerMoves DEF UsbInv
<1>1. conn[c].pc = "wait" /\ conn[c].cmd = Head(cmds) /\ conn[c].cmd.op = op
  BY HeadIsOwn
<1>2. /\ conn' \in [Client -> HandlerState] /\ Others(c)
      /\ conn'[c].pc = "done" /\ conn'[c].answer = answer
      /\ conn'[c].cmd = conn[c].cmd /\ conn'[c].closing = conn[c].closing
      /\ conn'[c].leaving = conn[c].leaving
  BY <1>0, AnswerEffect
<1>3. UNCHANGED <<tracked, cache>>
  BY DEF Answer
<1>4. ConnTyped'
  BY <1>0, <1>2, <1>3 DEF ConnTyped
<1>5. Books(c)'
  BY <1>0, <1>1, <1>2, <1>3 DEF Owned, Books, TrackedBy
<1>6. Answers(c)'
  BY <1>0, <1>1, <1>2 DEF Answers
<1>7. Keeps(c)'
  BY <1>0, <1>1, <1>2, <1>3 DEF Owned, Keeps
<1>8. Own(c)'
  <2>1. \A h \in Handle : tracked[c][h] # NoDevice => h \in used_handles
    BY <1>0 DEF Owned, Books, TrackedBy
  <2> QED
    BY <1>0, <1>3, <2>1 DEF Owned, Own
<1> QED
  BY <1>2, <1>3, <1>4, <1>5, <1>6, <1>7, <1>8 DEF Owned

\* The outcome of a step that is about one handler.
Booked(c) ==
  /\ ConnTyped' /\ Owned(c)' /\ Others(c)
  /\ \A x \in Client \ {c} : tracked'[x] = tracked[x]

LEMMA AnswersBooked ==
  ASSUME UsbInv, [Next]_vars, NEW c \in Client,
         HandleList(c) \/ HandleTransfer(c) \/ HandleLock(c) \/ HandleUnlock(c) \/ HandleDetach(c)
  PROVE  Booked(c)
<1>0. /\ [ManagerNext]_managerVars /\ ManagerTypeOK /\ Owned(c)
      /\ cmds # <<>> => Head(cmds) \in Sound \cup {Stop}
  BY UseStep DEF UsbInv, ManagerInv, CmdsTyped
<1>1. ASSUME HandleList(c)
      PROVE  Booked(c)
  <2>1. Answer(c, "List", {d \in DeviceId : Registered(d)}) /\ UNCHANGED attached
    BY <1>1 DEF HandleList, managerVars
  <2>2. "List" \in Ops /\ {d \in DeviceId : Registered(d)} \in SUBSET (DeviceId \cup Handle)
        /\ {d \in DeviceId : Registered(d)} \subseteq DeviceId
    BY DEF Ops
  <2>3. \A h \in Handle : IsAttached(h)' => IsAttached(h) /\ attached'[h] = attached[h]
    BY <2>1 DEF IsAttached
  <2> HIDE DEF Answer
  <2> QED
    BY <1>0, <2>1, <2>2, <2>3, AnswerKept DEF Booked
<1>2. ASSUME HandleTransfer(c)
      PROVE  Booked(c)
  <2>1. PICK answer : /\ answer = (IF IsAttached(Head(cmds).handle) THEN {Head(cmds).handle} ELSE {})
                      /\ Answer(c, "Transfer", answer) /\ UNCHANGED attached
    BY <1>2 DEF HandleTransfer, managerVars
  <2>2. Head(cmds) \in Sound /\ Head(cmds).op = "Transfer"
    BY <1>0, <2>1 DEF Answer, Stop
  <2>3. "Transfer" \in Ops /\ answer \in SUBSET (DeviceId \cup Handle)
    BY <2>1, <2>2 DEF Ops, Sound, OnHandle
  <2>4. \A h \in Handle : IsAttached(h)' => IsAttached(h) /\ attached'[h] = attached[h]
    BY <2>1 DEF IsAttached
  <2> QED
    BY <1>0, <2>1, <2>3, <2>4, AnswerKept DEF Booked
<1>3. ASSUME HandleLock(c) \/ HandleUnlock(c)
      PROVE  Booked(c)
  <2>1. PICK op \in {"Lock", "Unlock"} : Answer(c, op, {})
    BY <1>3 DEF HandleLock, HandleUnlock
  <2>2. UNCHANGED attached
    BY <1>3 DEF HandleLock, HandleUnlock, LockDevice, UnlockDevice, managerVars
  <2>3. op \in Ops /\ {} \in SUBSET (DeviceId \cup Handle)
    BY DEF Ops
  <2>4. \A h \in Handle : IsAttached(h)' => IsAttached(h) /\ attached'[h] = attached[h]
    BY <2>2 DEF IsAttached
  <2> QED
    BY <1>0, <2>1, <2>3, <2>4, AnswerKept DEF Booked
<1>4. ASSUME HandleDetach(c)
      PROVE  Booked(c)
  <2>1. PICK answer \in SUBSET {Head(cmds).handle} : Answer(c, "Detach", answer)
    BY <1>4 DEF HandleDetach
  <2>2. Head(cmds) \in Sound /\ Head(cmds).op = "Detach"
    BY <1>0, <2>1 DEF Answer, Stop
  <2>3. "Detach" \in Ops /\ answer \in SUBSET (DeviceId \cup Handle) /\ Head(cmds).handle \in Handle
    BY <2>1, <2>2 DEF Ops, Sound, OnHandle
  <2>4. conn[c].cmd = Head(cmds)
    BY <2>1, <2>3, HeadIsOwn
  <2>5. Head(cmds).handle \in used_handles
    BY <1>0, <2>2, <2>4 DEF Owned, Books
  <2>6. \A h \in Handle : IsAttached(h)' => IsAttached(h) /\ attached'[h] = attached[h]
    BY <1>0, <1>4 DEF HandleDetach, DetachDevice, managerVars, IsAttached, ManagerTypeOK
  <2>7. PICK h \in Handle : h = Head(cmds).handle
    BY <2>3
  <2>8. ~IsAttached(h)'
    <3>1. CASE DetachDevice(h)
      BY <1>0, <3>1, ManagerAssumption DEF DetachDevice, IsAttached, ManagerTypeOK
    <3>2. CASE ~DetachDevice(h)
      BY <1>4, <2>7, <3>2 DEF HandleDetach, managerVars, IsAttached
    <3> QED
      BY <3>1, <3>2
  <2>9. \A x \in answer \cup {Head(cmds).handle} : ~IsAttached(x)' /\ x \in used_handles
    BY <2>1, <2>5, <2>7, <2>8
  <2>10. PICK op \in Ops : op = "Detach" /\ Answer(c, op, answer)
    BY <2>1, <2>3
  <2>11. ConnTyped' /\ Owned(c)' /\ Others(c) /\ UNCHANGED tracked
    <3>1. op # "List" /\ op # "Attach" /\ answer \in SUBSET (DeviceId \cup Handle)
      BY <2>3, <2>10
    <3>2. \A g \in Handle : IsAttached(g)' /\ attached'[g].client = c =>
            \/ IsAttached(g) /\ attached'[g] = attached[g]
            \/ op = "Attach" /\ g \in answer
      BY <2>6
    <3>3. \A g \in answer \cup {Head(cmds).handle} : ~IsAttached(g)' /\ g \in used_handles
      BY <2>9
    <3>4. Answer(c, op, answer)
      BY <2>10
    <3>5. UsbInv /\ [ManagerNext]_managerVars
      BY <1>0
    <3> QED
      BY <3>1, <3>2, <3>3, <3>4, <3>5, AnswerKept, Zenon
  <2> QED
    BY <2>11 DEF Booked
<1> QED
  BY <1>1, <1>2, <1>3, <1>4

\* A client that asked for a device gets a handle that was never used.
LEMMA AttachBooked ==
  ASSUME UsbInv, [Next]_vars, NEW c \in Client, HandleAttach(c)
  PROVE  /\ Booked(c)
         /\ \A h \in Handle : IsAttached(h)' /\ attached'[h].client # c =>
              IsAttached(h) /\ attached'[h] = attached[h]
<1>0. /\ [ManagerNext]_managerVars /\ ManagerTypeOK /\ "Attach" \in Ops
      /\ cmds # <<>> => Head(cmds) \in Sound \cup {Stop}
  BY UseStep DEF UsbInv, ManagerInv, CmdsTyped, Ops
<1>1. CASE Answer(c, "Attach", {}) /\ UNCHANGED managerVars
  <2>1. \A h \in Handle : IsAttached(h)' => IsAttached(h) /\ attached'[h] = attached[h]
    BY <1>1 DEF IsAttached, managerVars
  <2>2. {} \in SUBSET (DeviceId \cup Handle)
    OBVIOUS
  <2> QED
    BY <1>0, <1>1, <2>1, <2>2, AnswerKept DEF Booked
<1>2. ASSUME NEW h \in Handle, NEW d, d = Head(cmds).device,
             Answer(c, "Attach", {h}), AttachDevice(d, c, h)
      PROVE  /\ Booked(c)
             /\ \A x \in Handle : IsAttached(x)' /\ attached'[x].client # c =>
                  IsAttached(x) /\ attached'[x] = attached[x]
  <2>1. Head(cmds) \in Sound /\ Head(cmds).op = "Attach"
    BY <1>0, <1>2 DEF Answer, Stop
  <2>2. d \in DeviceId
    BY <1>2, <2>1 DEF Sound
  <2>3. /\ attached'[h] = [device |-> d, client |-> c] /\ h \in used_handles'
        /\ \A x \in Handle \ {h} : attached'[x] = attached[x]
    BY <1>0, <1>2 DEF AttachDevice, ManagerTypeOK
  <2>4. attached'[h].client = c
    BY <2>3
  <2>5. \A x \in Handle : IsAttached(x)' /\ attached'[x].client = c =>
          \/ IsAttached(x) /\ attached'[x] = attached[x]
          \/ x \in {h}
    BY <2>3 DEF IsAttached
  <2>6. \A x \in Handle : IsAttached(x)' /\ attached'[x].client # c =>
          IsAttached(x) /\ attached'[x] = attached[x]
    BY <2>3, <2>4 DEF IsAttached
  <2>7. {h} \in SUBSET (DeviceId \cup Handle) /\ {h} \subseteq used_handles'
    BY <2>3
  <2>8. \A x \in {h} : IsAttached(x)' => attached'[x] = [device |-> Head(cmds).device, client |-> c]
    BY <1>2, <2>3
  <2>9. PICK op \in Ops : op = "Attach" /\ Answer(c, op, {h})
    BY <1>0, <1>2
  <2>10. ConnTyped' /\ Owned(c)' /\ Others(c) /\ UNCHANGED tracked
    BY <1>0, <2>5, <2>7, <2>8, <2>9, AnswerKept
  <2> QED
    BY <2>6, <2>10 DEF Booked
<1> QED
  BY <1>1, <1>2 DEF HandleAttach

-----------------------------------------------------------------------------
(* The handlers' own steps *)

\* In select! and while a command is sent the handler has no answer to act on.
LEMMA ConnectBooked ==
  ASSUME UsbInv, NEW c \in Client, Connect(c)
  PROVE  Booked(c)
<1>0. Owned(c) /\ ConnTyped /\ conn[c] \in HandlerState
  BY DEF UsbInv, ConnTyped
<1>1. /\ conn[c].pc = "off" /\ UNCHANGED <<managerVars, tracked, cache>>
      /\ conn' = [conn EXCEPT ![c].pc = "ready"]
  BY DEF Connect
<1>2. conn' \in [Client -> HandlerState] /\ Others(c)
  BY <1>0, <1>1 DEF ConnTyped, HandlerState, Others
<1>3. /\ conn'[c].pc = "ready" /\ conn'[c].cmd = conn[c].cmd
      /\ conn'[c].closing = conn[c].closing /\ conn'[c].leaving = conn[c].leaving
  BY <1>0, <1>1 DEF ConnTyped, HandlerState
<1>4. ConnTyped'
  BY <1>0, <1>1, <1>2 DEF ConnTyped
<1>5. Owned(c)'
  BY <1>0, <1>1, <1>3 DEF Owned, Answers, Books, Keeps, Own, TrackedBy, IsAttached, managerVars
<1> QED
  BY <1>1, <1>2, <1>4, <1>5 DEF Booked

LEMMA BeginBooked ==
  ASSUME UsbInv, NEW c \in Client, NEW op, NEW d, NEW h, NEW goal \in DeviceId \cup {NoDevice},
         Command(c, op, d, h) \in Sound, op = "Detach" => h \in used_handles,
         Begin(c, op, d, h, goal)
  PROVE  Booked(c)
<1>0. Owned(c) /\ ConnTyped
  BY DEF UsbInv
<1>1. conn[c].pc = "ready" /\ UNCHANGED <<managerVars, tracked, cache>>
  BY DEF Begin
<1>2. /\ conn' \in [Client -> HandlerState] /\ Others(c)
      /\ conn'[c].pc = "send" /\ conn'[c].cmd = Command(c, op, d, h)
      /\ conn'[c].closing = conn[c].closing /\ conn'[c].leaving = conn[c].leaving
  BY <1>0, BeginEffect
<1>3. /\ Command(c, op, d, h).op = op /\ Command(c, op, d, h).handle = h
      /\ Command(c, op, d, h).client = c
  BY DEF Command
<1>4. ConnTyped'
  BY <1>0, <1>1, <1>2 DEF ConnTyped
<1>5. Owned(c)'
  BY <1>0, <1>1, <1>2, <1>3 DEF Owned, Answers, Books, Keeps, Own, TrackedBy, IsAttached, managerVars
<1> QED
  BY <1>1, <1>2, <1>4, <1>5 DEF Booked

LEMMA RequestBooked ==
  ASSUME UsbInv, NEW c \in Client, Request(c)
  PROVE  Booked(c)
<1>0. /\ Owned(c) /\ used_ids \subseteq DeviceId /\ used_handles \subseteq Handle
      /\ TrackedBy(c) \subseteq Handle
  BY DEF UsbInv, ManagerInv, ManagerTypeOK, TrackedBy
<1>1. /\ Command(c, "List", NoDevice, NoHandle) \in Sound
      /\ \A d \in DeviceId : Command(c, "Attach", d, NoHandle) \in Sound
      /\ \A h \in Handle, op \in OnHandle : Command(c, op, NoDevice, h) \in Sound
  BY DEF Command, Sound, ClientCommand, Ops, OnHandle, MaybeHandle
<1>2. CASE RequestList(c)
  BY <1>1, <1>2, BeginBooked DEF RequestList
<1>3. CASE RequestAttach(c)
  <2>1. PICK d \in DeviceId : \/ Begin(c, "Attach", d, NoHandle, NoDevice)
                              \/ Begin(c, "List", NoDevice, NoHandle, d)
    BY <1>0, <1>3 DEF RequestAttach
  <2> QED
    BY <1>1, <2>1, BeginBooked
<1>4. CASE RequestDetach(c)
  <2>1. PICK h \in used_handles : Begin(c, "Detach", NoDevice, h, NoDevice)
    BY <1>4 DEF RequestDetach
  <2>2. Command(c, "Detach", NoDevice, h) \in Sound
    BY <1>0, <1>1 DEF OnHandle
  <2> QED
    BY <2>1, <2>2, BeginBooked
<1>5. ASSUME NEW op \in {"Transfer", "Lock", "Unlock"}, RequestOnHandle(c, op)
      PROVE  Booked(c)
  <2>1. PICK h \in Handle : Begin(c, op, NoDevice, h, NoDevice)
    BY <1>0, <1>5 DEF RequestOnHandle
  <2>2. Command(c, op, NoDevice, h) \in Sound /\ op # "Detach"
    BY <1>1 DEF OnHandle
  <2> QED
    BY <2>1, <2>2, BeginBooked
<1> QED
  BY <1>2, <1>3, <1>4, <1>5 DEF Request, RequestTransfer, RequestLock, RequestUnlock

LEMMA SendBooked ==
  ASSUME UsbInv, NEW c \in Client, SendCommand(c)
  PROVE  Booked(c)
<1>0. Owned(c) /\ ConnTyped
  BY DEF UsbInv
<1>1. conn[c].pc = "send" /\ UNCHANGED <<managerVars, tracked, cache>>
  BY DEF SendCommand
<1>2. /\ conn' \in [Client -> HandlerState] /\ Others(c)
      /\ conn'[c].pc = "wait" /\ conn'[c].cmd = conn[c].cmd
      /\ conn'[c].closing = conn[c].closing /\ conn'[c].leaving = conn[c].leaving
  BY <1>0, SendEffect
<1>3. ConnTyped'
  BY <1>0, <1>1, <1>2 DEF ConnTyped
<1>4. Owned(c)'
  BY <1>0, <1>1, <1>2 DEF Owned, Answers, Books, Keeps, Own, TrackedBy, IsAttached, managerVars
<1> QED
  BY <1>1, <1>2, <1>3, <1>4 DEF Booked

\* The answer to ListDevices: back to the loop, or on to AttachDevice.
LEMMA FinishListBooked ==
  ASSUME UsbInv, NEW c \in Client, FinishList(c)
  PROVE  Booked(c)
<1>0. Owned(c) /\ ConnTyped /\ conn[c] \in HandlerState
  BY DEF UsbInv, ConnTyped
<1>1. /\ conn[c].pc = "done" /\ conn[c].cmd.op = "List" /\ UNCHANGED <<managerVars, tracked>>
  BY DEF FinishList, Answered
<1>2. ~conn[c].closing
  BY <1>0, <1>1 DEF Owned, Books
<1>3. conn[c].answer \subseteq DeviceId
  BY <1>0, <1>1 DEF Owned, Answers
<1>4. cache' \in [Client -> SUBSET DeviceId]
  <2>1. cache' = cache \/ cache' = [cache EXCEPT ![c] = @ \cup conn[c].answer]
    BY DEF FinishList
  <2>2. cache \in [Client -> SUBSET DeviceId]
    BY <1>0 DEF ConnTyped
  <2> QED
    BY <1>3, <2>1, <2>2
<1>5. CASE Ready(c)
  <2>1. /\ conn' \in [Client -> HandlerState] /\ Others(c)
        /\ conn'[c].pc = "ready" /\ conn'[c].cmd = NoCommand
        /\ conn'[c].closing = conn[c].closing /\ conn'[c].leaving = conn[c].leaving
    BY <1>0, <1>5, ReadyEffect
  <2>2. Owned(c)'
    BY <1>0, <1>1, <1>2, <2>1
    DEF Owned, Answers, Books, Keeps, Own, TrackedBy, IsAttached, managerVars, NoCommand
  <2> QED
    BY <1>0, <1>1, <1>4, <2>1, <2>2 DEF Booked, ConnTyped
<1>6. CASE ~Ready(c)
  <2>1. /\ conn[c].goal \in conn[c].answer
        /\ conn' = [conn EXCEPT ![c].pc = "send", ![c].answer = {}, ![c].goal = NoDevice,
                                ![c].cmd = Command(c, "Attach", conn[c].goal, NoHandle)]
    BY <1>6 DEF FinishList
  <2> DEFINE cmd == Command(c, "Attach", conn[c].goal, NoHandle)
  <2>2. cmd \in Sound
    BY <1>3, <2>1 DEF Command, Sound, ClientCommand, Ops, OnHandle, MaybeHandle
  <2>3. cmd.op = "Attach" /\ cmd.client = c
    BY DEF Command
  <2> HIDE DEF cmd
  <2> DEFINE new == [conn[c] EXCEPT !.pc = "send", !.answer = {}, !.goal = NoDevice, !.cmd = cmd]
  <2>4. new \in HandlerState
    BY <1>0, <2>2 DEF HandlerState
  <2>5. conn' = [conn EXCEPT ![c] = new]
    BY <1>0, <2>1 DEF ConnTyped, HandlerState, cmd
  <2>6. /\ new.pc = "send" /\ new.cmd = cmd
        /\ new.closing = conn[c].closing /\ new.leaving = conn[c].leaving
    BY <1>0 DEF HandlerState
  <2> HIDE DEF new
  <2>7. conn' \in [Client -> HandlerState] /\ Others(c) /\ conn'[c] = new
    BY <1>0, <2>4, <2>5 DEF ConnTyped, Others
  <2>8. Owned(c)'
    BY <1>0, <1>1, <1>2, <2>2, <2>3, <2>6, <2>7
    DEF Owned, Answers, Books, Keeps, Own, TrackedBy, IsAttached, managerVars
  <2> QED
    BY <1>0, <1>1, <1>4, <2>7, <2>8 DEF Booked, ConnTyped
<1> QED
  BY <1>5, <1>6

\* The handle from attach_device goes into attached_devices.
LEMMA FinishAttachBooked ==
  ASSUME UsbInv, NEW c \in Client, FinishAttach(c)
  PROVE  Booked(c)
<1>0. Owned(c) /\ ConnTyped /\ used_handles \subseteq Handle
  BY DEF UsbInv, ManagerInv, ManagerTypeOK
<1>1. /\ conn[c].pc = "done" /\ conn[c].cmd.op = "Attach" /\ UNCHANGED <<managerVars, cache>>
      /\ Ready(c)
      /\ tracked' = [tracked EXCEPT ![c] =
           [h \in Handle |-> IF h \in conn[c].answer THEN conn[c].cmd.device ELSE @[h]]]
  BY DEF FinishAttach, Answered
<1>2. conn[c].cmd.device \in DeviceId
  <2>1. conn[c].cmd \in Sound
    BY <1>0, <1>1 DEF Owned, Books
  <2> QED
    BY <1>1, <2>1 DEF Sound
<1>3. /\ conn' \in [Client -> HandlerState] /\ Others(c)
      /\ conn'[c].pc = "ready" /\ conn'[c].cmd = NoCommand
      /\ conn'[c].closing = conn[c].closing /\ conn'[c].leaving = conn[c].leaving
  BY <1>0, <1>1, ReadyEffect
<1>4. /\ tracked' \in [Client -> [Handle -> DeviceId \cup {NoDevice}]]
      /\ \A x \in Client \ {c} : tracked'[x] = tracked[x]
      /\ \A h \in Handle : tracked'[c][h] = IF h \in conn[c].answer THEN conn[c].cmd.device
                                                                    ELSE tracked[c][h]
  BY <1>0, <1>1, <1>2 DEF ConnTyped
<1>5. /\ conn[c].answer \subseteq used_handles
      /\ \A h \in conn[c].answer : IsAttached(h) =>
           attached[h] = [device |-> conn[c].cmd.device, client |-> c]
  BY <1>0, <1>1 DEF Owned, Answers
<1>6. ~conn[c].closing
  BY <1>0, <1>1 DEF Owned, Books
<1>7. UNCHANGED <<attached, used_handles>>
  BY <1>1 DEF managerVars
<1>8. Books(c)' /\ Answers(c)'
  BY <1>0, <1>3, <1>4, <1>5, <1>6, <1>7 DEF Owned, Books, Answers, TrackedBy, NoCommand
<1>9. Keeps(c)'
  BY <1>0, <1>3, <1>4, <1>5, <1>6, <1>7 DEF Owned, Keeps, IsAttached
<1>10. Own(c)'
  BY <1>0, <1>3, <1>4, <1>5, <1>7 DEF Owned, Own, IsAttached
<1> QED
  BY <1>0, <1>1, <1>3, <1>4, <1>8, <1>9, <1>10 DEF Booked, Owned, ConnTyped

\* Handles that lead nowhere any more may be dropped.
LEMMA UntrackKept ==
  ASSUME UsbInv, NEW c \in Client, NEW handles, Untrack(c, handles),
         UNCHANGED managerVars, UNCHANGED cache,
         conn' \in [Client -> HandlerState], Others(c),
         conn'[c].pc = "ready", conn'[c].cmd = NoCommand \/ conn'[c].cmd = conn[c].cmd,
         conn'[c].closing = conn[c].closing, conn'[c].leaving = conn[c].leaving,
         ~conn[c].closing, ~(conn[c].pc = "done" /\ conn[c].cmd.op = "Attach"),
         \A h \in Handle : h \in handles =>
           ~IsAttached(h) \/ attached[h].client # c \/ attached[h].device # tracked[c][h]
  PROVE  Booked(c)
<1>0. Owned(c) /\ ConnTyped
  BY DEF UsbInv
<1>1. /\ tracked' \in [Client -> [Handle -> DeviceId \cup {NoDevice}]]
      /\ \A x \in Client \ {c} : tracked'[x] = tracked[x]
      /\ \A h \in Handle : tracked'[c][h] = IF h \in handles THEN NoDevice ELSE tracked[c][h]
  BY <1>0, UntrackEffect
<1>2. UNCHANGED <<attached, used_handles>>
  BY DEF managerVars
<1>3. Books(c)' /\ Answers(c)'
  BY <1>0, <1>1, <1>2 DEF Owned, Books, Answers, TrackedBy, NoCommand
<1>4. Keeps(c)' /\ Own(c)'
  BY <1>0, <1>1, <1>2 DEF Owned, Keeps, Own, IsAttached
<1> QED
  BY <1>0, <1>1, <1>3, <1>4 DEF Booked, Owned, ConnTyped

LEMMA FinishDetachBooked ==
  ASSUME UsbInv, NEW c \in Client, FinishDetach(c)
  PROVE  Booked(c)
<1>0. Owned(c) /\ ConnTyped
  BY DEF UsbInv
<1>1. /\ conn[c].pc = "done" /\ conn[c].cmd.op = "Detach" /\ UNCHANGED <<managerVars, cache>>
      /\ Ready(c) /\ ~conn[c].closing /\ Untrack(c, conn[c].answer)
  BY DEF FinishDetach, Answered
<1>2. \A h \in conn[c].answer : ~IsAttached(h)
  BY <1>0, <1>1 DEF Owned, Answers
<1>3. /\ conn' \in [Client -> HandlerState] /\ Others(c)
      /\ conn'[c].pc = "ready" /\ conn'[c].cmd = NoCommand
      /\ conn'[c].closing = conn[c].closing /\ conn'[c].leaving = conn[c].leaving
  BY <1>0, <1>1, ReadyEffect
<1> QED
  BY <1>1, <1>2, <1>3, UntrackKept

LEMMA FinishOtherBooked ==
  ASSUME UsbInv, NEW c \in Client, FinishOther(c)
  PROVE  Booked(c)
<1>0. Owned(c) /\ ConnTyped
  BY DEF UsbInv
<1>1. /\ conn[c].pc = "done" /\ conn[c].cmd.op \in {"Transfer", "Lock", "Unlock"}
      /\ UNCHANGED <<managerVars, tracked, cache>> /\ Ready(c)
  BY DEF FinishOther, Answered
<1>2. ~conn[c].closing
  BY <1>0, <1>1 DEF Owned, Books
<1>3. /\ conn' \in [Client -> HandlerState] /\ Others(c)
      /\ conn'[c].pc = "ready" /\ conn'[c].cmd = NoCommand
      /\ conn'[c].closing = conn[c].closing /\ conn'[c].leaving = conn[c].leaving
  BY <1>0, <1>1, ReadyEffect
<1>4. Owned(c)'
  BY <1>0, <1>1, <1>2, <1>3
  DEF Owned, Answers, Books, Keeps, Own, TrackedBy, IsAttached, managerVars, NoCommand
<1> QED
  BY <1>0, <1>1, <1>3, <1>4 DEF Booked, ConnTyped

\* A removal drops the handles it names, and those of the device: none of them
\* is attached any more.
LEMMA ReceiveBooked ==
  ASSUME UsbInv, NEW c \in Client, ReceiveEvent(c)
  PROVE  Booked(c)
<1>0. Owned(c) /\ ConnTyped /\ conn[c].pc = "ready" /\ ManagerInv
      /\ events \in Seq(Event) /\ events # <<>>
      /\ UNCHANGED <<managerVars, cache, conn>>
  BY DEF UsbInv, ReceiveEvent, EventsTyped
<1>1. PICK event \in Event : event = Head(events) /\ Gone(event)
  <2>1. Head(events) = events[1] /\ 1 \in DOMAIN events /\ Head(events) \in Event
    BY <1>0
  <2> QED
    BY <2>1 DEF UsbInv, Removals
<1>2. ~conn[c].closing /\ Others(c)
  BY <1>0 DEF Owned, Books, Others
<1>3. CASE event.kind # "Left"
  <2>1. UNCHANGED tracked
    BY <1>1, <1>3 DEF ReceiveEvent
  <2>2. Owned(c)'
    BY <1>0, <2>1 DEF Owned, Answers, Books, Keeps, Own, TrackedBy, IsAttached, managerVars
  <2> QED
    BY <1>0, <1>2, <2>1, <2>2 DEF Booked, ConnTyped
<1>4. CASE event.kind = "Left"
  <2> DEFINE handles == event.handles \cup {h \in Handle : tracked[c][h] = event.device}
  <2>1. Untrack(c, handles)
    BY <1>1, <1>4 DEF ReceiveEvent
  <2>2. ASSUME NEW h \in Handle, h \in handles, IsAttached(h), attached[h].device = tracked[c][h]
        PROVE  FALSE
    <3>1. h \notin event.handles
      BY <1>1, <1>4, <2>2 DEF Gone
    <3>2. attached[h].device = event.device /\ ~Registered(event.device)
      BY <1>1, <1>4, <2>2, <3>1 DEF Gone
    <3>3. event.device \in DeviceId
      BY <1>4 DEF Event
    <3>4. h \in HandlesOf(event.device)
      BY <2>2, <3>2 DEF HandlesOf
    <3>5. tracker[event.device] = Unregistered
      BY <1>0, <3>2, <3>3 DEF ManagerInv, Maps
    <3> QED
      BY <1>0, <3>3, <3>4, <3>5 DEF ManagerInv, AttachmentsConsistent
  <2> HIDE DEF handles
  <2>3. conn' \in [Client -> HandlerState] /\ conn'[c] = conn[c]
    BY <1>0 DEF ConnTyped
  <2> QED
    BY <1>0, <1>2, <2>1, <2>2, <2>3, UntrackKept
<1> QED
  BY <1>3, <1>4

\* cleanup goes on until no handle is left.
LEMMA CloseBooked ==
  ASSUME UsbInv, NEW c \in Client, NEW left \in SUBSET Handle, CloseNext(c, left),
         UNCHANGED managerVars, left \subseteq used_handles,
         \A h \in Handle : IsAttached(h) /\ attached[h].client = c =>
           h \in left /\ tracked[c][h] = attached[h].device
  PROVE  Booked(c)
<1>0. Owned(c) /\ ConnTyped
  BY DEF UsbInv
<1>1. UNCHANGED <<attached, used_handles>>
  BY DEF managerVars
<1>2. /\ Others(c) /\ ConnTyped'
      /\ \A x \in Client \ {c} : tracked'[x] = tracked[x]
      /\ conn'[c].leaving = left
      /\ \/ /\ left = {} /\ conn'[c].pc = "off" /\ ~conn'[c].closing /\ conn'[c].cmd = NoCommand
            /\ \A h \in Handle : tracked'[c][h] = NoDevice
         \/ /\ left # {} /\ conn'[c].pc = "send" /\ conn'[c].closing
            /\ tracked' = tracked
            /\ conn'[c].cmd \in Sound
            /\ conn'[c].cmd.op = "Detach" /\ conn'[c].cmd.handle \in left
            /\ conn'[c].cmd.client = c
  BY <1>0, CloseEffect
<1>3. Books(c)' /\ Answers(c)'
  BY <1>0, <1>1, <1>2 DEF Owned, Books, Answers, TrackedBy, NoCommand
<1>4. Keeps(c)' /\ Own(c)'
  BY <1>0, <1>1, <1>2 DEF Owned, Keeps, Own, IsAttached
<1> QED
  BY <1>2, <1>3, <1>4 DEF Booked, Owned

LEMMA EndBooked ==
  ASSUME UsbInv, NEW c \in Client, Disconnect(c) \/ CleanupStep(c)
  PROVE  Booked(c)
<1>0. Owned(c) /\ ConnTyped /\ ManagerTypeOK /\ conn[c] \in HandlerState
  BY DEF UsbInv, ManagerInv, ConnTyped
<1>1. CASE Disconnect(c)
  <2>1. conn[c].pc = "ready" /\ CloseNext(c, TrackedBy(c)) /\ UNCHANGED managerVars
    BY <1>1 DEF Disconnect
  <2>2. TrackedBy(c) \in SUBSET Handle /\ TrackedBy(c) \subseteq used_handles
    BY <1>0 DEF Owned, Books, TrackedBy
  <2>3. ASSUME NEW h \in Handle, IsAttached(h), attached[h].client = c
        PROVE  h \in TrackedBy(c) /\ tracked[c][h] = attached[h].device
    <3>1. tracked[c][h] = attached[h].device
      BY <1>0, <2>1, <2>3 DEF Owned, Keeps
    <3>2. attached[h].device \in DeviceId
      BY <1>0, <2>3 DEF ManagerTypeOK, Attachment, IsAttached
    <3> QED
      BY <3>1, <3>2, ManagerAssumption DEF TrackedBy
  <2> QED
    BY <2>1, <2>2, <2>3, CloseBooked
<1>2. CASE CleanupStep(c)
  <2> DEFINE left == conn[c].leaving \ {conn[c].cmd.handle}
  <2>1. /\ conn[c].closing /\ conn[c].pc = "done" /\ conn[c].cmd.op = "Detach"
        /\ CloseNext(c, left) /\ UNCHANGED managerVars
    BY <1>2 DEF CleanupStep, Answered
  <2>2. left \in SUBSET Handle /\ left \subseteq used_handles
    BY <1>0 DEF Owned, Books, HandlerState
  <2>3. ~IsAttached(conn[c].cmd.handle)
    BY <1>0, <2>1 DEF Owned, Answers
  <2>4. ASSUME NEW h \in Handle, IsAttached(h), attached[h].client = c
        PROVE  h \in left /\ tracked[c][h] = attached[h].device
    BY <1>0, <2>1, <2>3, <2>4 DEF Owned, Keeps
  <2> HIDE DEF left
  <2> QED
    BY <2>1, <2>2, <2>4, CloseBooked
<1> QED
  BY <1>1, <1>2

-----------------------------------------------------------------------------
(* The theorems *)

LEMMA BooksStep ==
  ASSUME UsbInv, [Next]_vars
  PROVE  ConnTyped' /\ \A c \in Client : Owned(c)'
<1>0. ConnTyped /\ [ManagerNext]_managerVars
  BY UseStep DEF UsbInv
<1>1. ASSUME NEW c \in Client, Booked(c),
             \A x \in Client \ {c} : Fewer(x)
      PROVE  ConnTyped' /\ \A x \in Client : Owned(x)'
  BY <1>0, <1>1, Untouched DEF Booked, Others
<1>2. ASSUME UNCHANGED connVars, \A c \in Client : Fewer(c)
      PROVE  ConnTyped' /\ \A c \in Client : Owned(c)'
  BY <1>0, <1>2, Untouched DEF connVars, ConnTyped
<1>3. ASSUME ~\E c \in Client : HandleAttach(c)
      PROVE  \A c \in Client : Fewer(c)
  BY <1>3, NothingNew DEF Fewer
<1>4. ASSUME UNCHANGED managerVars
      PROVE  \A c \in Client : Fewer(c)
  BY <1>4 DEF Fewer, managerVars, IsAttached
<1>5. ASSUME NEW c \in Client, HandleAttach(c)
      PROVE  ConnTyped' /\ \A x \in Client : Owned(x)'
  <2>1. Booked(c) /\ \A x \in Client \ {c} : Fewer(x)
    BY <1>5, AttachBooked DEF Fewer
  <2> QED
    BY <1>1, <2>1
<1>6. ASSUME NEW c \in Client, ~\E x \in Client : HandleAttach(x),
             HandleList(c) \/ HandleDetach(c) \/ HandleTransfer(c) \/ HandleLock(c) \/ HandleUnlock(c)
      PROVE  ConnTyped' /\ \A x \in Client : Owned(x)'
  BY <1>1, <1>3, <1>6, AnswersBooked
<1>7. ASSUME NEW c \in Client,
             Connect(c) \/ Request(c) \/ Handler(c) \/ ReceiveEvent(c) \/ Disconnect(c)
      PROVE  ConnTyped' /\ \A x \in Client : Owned(x)'
  <2>1. Booked(c)
    BY <1>7, ConnectBooked, RequestBooked, SendBooked, FinishListBooked, FinishAttachBooked,
       FinishDetachBooked, FinishOtherBooked, ReceiveBooked, EndBooked DEF Handler
  <2>2. UNCHANGED managerVars
    BY <1>7, HandlersKeepOut
  <2> QED
    BY <1>1, <1>4, <2>1, <2>2
<1>8. ASSUME Silent, ~\E c \in Client : HandleAttach(c)
      PROVE  ConnTyped' /\ \A c \in Client : Owned(c)'
  BY <1>2, <1>3, <1>8 DEF Silent
<1>9. ASSUME HandleShutdown \/ SendShutdown \/ UNCHANGED vars
      PROVE  ConnTyped' /\ \A c \in Client : Owned(c)'
  <2>1. UNCHANGED connVars /\ UNCHANGED managerVars
    BY <1>9 DEF HandleShutdown, SendShutdown, vars
  <2> QED
    BY <1>2, <1>4, <2>1
<1> QED
  BY <1>5, <1>6, <1>7, <1>8, <1>9, SilentSteps DEF Next, HandleCommand

LEMMA UsbStep ==
  ASSUME UsbInv, [Next]_vars
  PROVE  UsbInv'
<1>1. ManagerInv'
  BY UseStep, ManagerStep DEF UsbInv
<1>2. BusTyped' /\ EventsTyped'
  BY <1>1, BusStep DEF ManagerInv
<1> QED
  BY <1>1, <1>2, CmdsStep, OneCommandStep, RemovalsStep, BooksStep DEF UsbInv

LEMMA UsbInit ==
  ASSUME Init
  PROVE  UsbInv
<1>1. ManagerInv
  BY ManagerInitially DEF Init
<1>2. BusTyped
  <2>1. 0 \in 0 .. MaxChanges /\ <<>> \in Seq(Message)
    BY ServerAssumption
  <2> QED
    BY <2>1 DEF Init, BusTyped
<1>3. CmdsTyped /\ EventsTyped /\ OneCommand
  <2>1. /\ <<>> \in Seq(Sound \cup {Stop}) /\ <<>> \in Seq(Event) /\ Len(<<>>) = 0
        /\ DOMAIN <<>> = {}
    OBVIOUS
  <2> QED
    BY <2>1, ServerAssumption DEF Init, CmdsTyped, EventsTyped, OneCommand
<1>4. Idle \in HandlerState
  BY DEF Idle, HandlerState
<1>5. ConnTyped
  BY <1>4 DEF Init, ConnTyped
<1>6. Removals
  <2>1. DOMAIN <<>> = {}
    OBVIOUS
  <2> QED
    BY <2>1 DEF Init, Removals, Gone, NoEvent
<1>7. ASSUME NEW c \in Client
      PROVE  Owned(c)
  <2>1. conn[c] = Idle /\ (\A h \in Handle : tracked[c][h] = NoDevice) /\ attached = [h \in Handle |-> NoAttachment]
    BY DEF Init, ManagerInit
  <2>2. /\ Idle.pc = "off" /\ Idle.cmd.op = "none" /\ ~Idle.closing /\ Idle.leaving = {}
    BY DEF Idle, NoCommand
  <2> QED
    BY <2>1, <2>2 DEF Owned, Answers, Books, Keeps, Own, TrackedBy, IsAttached
<1> QED
  BY <1>1, <1>2, <1>3, <1>5, <1>6, <1>7 DEF UsbInv

\* The manager's registry and attachments, the channels and the handlers' books
\* stay in agreement, whatever the bus, the clients and main do in which order.
THEOREM UsbConsistent == Spec => []UsbInv
<1>1. Init => UsbInv
  BY UsbInit
<1>2. UsbInv /\ [Next]_vars => UsbInv'
  BY UsbStep
<1> QED
  BY <1>1, <1>2, PTL DEF Spec

\* The server uses the manager only through its operations (UsbWorkerThread
\* owns the DeviceManager): every behaviour of the server is one of DeviceManager.
THEOREM UsesTheManager == Spec => UsesManager
<1>1. Init => ManagerInit
  BY DEF Init
<1>2. UsbInv /\ [Next]_vars => [ManagerNext]_managerVars
  BY UseStep
<1> QED
  BY <1>1, <1>2, UsbConsistent, PTL DEF Spec, UsesManager, ManagerSpec

\* Every attached device has a connection that will detach it (handle_attach_
\* device, cleanup): no sequence of requests, removals and ends leaves one over.
THEOREM NothingOrphaned == Spec => []NoOrphanedHandle
<1>1. UsbInv => NoOrphanedHandle
  <2> SUFFICES ASSUME UsbInv, NEW h \in Handle, IsAttached(h)
               PROVE  \E c \in Client : c = attached[h].client /\ Keeps(c)
    BY DEF NoOrphanedHandle, Keeps
  <2>1. attached[h].client \in Client
    BY DEF UsbInv, ManagerInv, ManagerTypeOK, Attachment, IsAttached
  <2> QED
    BY <2>1 DEF UsbInv, Owned
<1> QED
  BY <1>1, UsbConsistent, PTL

\* A handle a connection tracks leads to the device this client attached, and
\* to no device another handle leads to (attach_device, execute_transfer).
THEOREM HandlesSafe == Spec => []HandlesLeadHome
<1>1. UsbInv => HandlesLeadHome
  <2> SUFFICES ASSUME UsbInv
               PROVE  TrackedIsOwn /\ ExclusiveUse
    BY DEF HandlesLeadHome
  <2>1. TrackedIsOwn
    BY DEF UsbInv, Owned, Own, TrackedIsOwn
  <2>2. ExclusiveUse
    BY InvExclusive DEF UsbInv
  <2> QED
    BY <2>1, <2>2
<1> QED
  BY <1>1, UsbConsistent, PTL

\* The variables keep their types and the channels their capacities.
THEOREM UsbTypes == Spec => []TypeOK
<1>1. UsbInv => TypeOK
  <2> SUFFICES ASSUME UsbInv
               PROVE  TypeOK
    OBVIOUS
  <2>1. ManagerTypeOK /\ BusTyped /\ CmdsTyped /\ EventsTyped /\ ConnTyped
    BY DEF UsbInv, ManagerInv
  <2>2. \A i \in DOMAIN hotplug : hotplug[i] \in Message
    BY <2>1 DEF BusTyped
  <2>3. \A i \in DOMAIN cmds : cmds[i].op = "Shutdown" \/ cmds[i] \in ClientCommand
    BY <2>1 DEF CmdsTyped, Sound, Stop
  <2>4. \A i \in DOMAIN events : events[i] \in Event
    BY <2>1 DEF EventsTyped
  <2>5. ASSUME NEW c \in Client
        PROVE  /\ conn[c].pc \in {"off", "ready", "send", "wait", "done"}
               /\ conn[c].cmd \in ClientCommand \cup {NoCommand}
               /\ conn[c].leaving \subseteq Handle
    <3>1. conn[c] \in HandlerState
      BY <2>1 DEF ConnTyped
    <3> QED
      BY <3>1 DEF HandlerState, Sound
  <2> QED
    BY <2>1, <2>2, <2>3, <2>4, <2>5 DEF TypeOK, BusTyped, CmdsTyped, EventsTyped, ConnTyped, Message
<1> QED
  BY <1>1, UsbConsistent, PTL

-----------------------------------------------------------------------------
(* One client *)

\* The removal of the handle is on its way.
Named(h) ==
  \/ sending.kind = "Left" /\ h \in sending.handles
  \/ \E i \in DOMAIN events : events[i].kind = "Left" /\ h \in events[i].handles

\* The handle is good, or its removal is on its way.
Promised(h) == IsAttached(h) \/ Named(h)

\* The handler has given the handle back and has still to act upon the answer, or
\* gives all of them back.
Returned(c, h) ==
  \/ conn[c].closing
  \/ conn[c].pc = "done" /\ conn[c].cmd.op = "Detach" /\ h \in conn[c].answer

\* What a handler tracks, or is about to, it will hear of.
Hears(c) ==
  /\ \A h \in TrackedBy(c) : Promised(h) \/ Returned(c, h)
  /\ conn[c].pc = "done" /\ conn[c].cmd.op = "Attach" =>
       \A h \in conn[c].answer : Promised(h)

PromisesKept == \A h \in Handle : Promised(h) => Promised(h)'

\* Neither the attachments nor the events on their way change.
LEMMA MutedSteps ==
  ASSUME UNCHANGED <<attached, sending, events>>
  PROVE  PromisesKept
BY DEF PromisesKept, Promised, IsAttached, Named

\* No event is lost between the thread and the channel.
LEMMA SentIsKept ==
  ASSUME UsbInv, SendEvent
  PROVE  PromisesKept
<1>1. /\ events \in Seq(Event) /\ sending \in Event /\ events' = Append(events, sending)
      /\ UNCHANGED attached
  BY DEF UsbInv, EventsTyped, BusTyped, SendEvent, managerVars
<1>2. /\ \A i \in DOMAIN events : i \in DOMAIN events' /\ events'[i] = events[i]
      /\ Len(events) + 1 \in DOMAIN events' /\ events'[Len(events) + 1] = sending
  BY <1>1
<1> QED
  BY <1>1, <1>2 DEF PromisesKept, Promised, IsAttached, Named

\* A removal names every handle that it drops.
LEMMA LeftIsAnnounced ==
  ASSUME UsbInv, NEW p \in Port, DeviceLeft(p)
  PROVE  PromisesKept
<1>1. /\ sending = NoEvent /\ UNCHANGED events
      /\ \/ UNCHANGED <<attached, sending>>
         \/ /\ RemoveDevice(p)
            /\ sending' = [kind |-> "Left", device |-> devices[p], handles |-> HandlesOf(devices[p])]
  BY DEF DeviceLeft, ProcessFired, managerVars
<1>2. CASE UNCHANGED <<attached, sending>>
  BY <1>1, <1>2, MutedSteps
<1>3. CASE /\ RemoveDevice(p)
           /\ sending' = [kind |-> "Left", device |-> devices[p], handles |-> HandlesOf(devices[p])]
  <2>1. sending'.kind = "Left" /\ sending'.handles = HandlesOf(devices[p])
    BY <1>3
  <2>2. \A h \in Handle : h \in HandlesOf(devices[p]) \/ attached'[h] = attached[h]
    BY <1>3 DEF RemoveDevice
  <2>3. \A h \in Handle : Named(h) => Named(h)'
    BY <1>1 DEF Named, NoEvent
  <2>4. \A h \in Handle : IsAttached(h) => Promised(h)'
    BY <2>1, <2>2 DEF Promised, IsAttached, Named
  <2> QED
    BY <2>3, <2>4 DEF PromisesKept, Promised
<1> QED
  BY <1>1, <1>2, <1>3

\* An arrival is sent when nothing else is.
LEMMA ArrivalsSilenceNothing ==
  ASSUME NEW p \in Port, DeviceArrived(p)
  PROVE  PromisesKept
<1>1. sending = NoEvent /\ UNCHANGED <<events, attached>>
  BY DEF DeviceArrived, ProcessFired, AddDevice, managerVars
<1> QED
  BY <1>1 DEF PromisesKept, Promised, IsAttached, Named, NoEvent

\* A new handle takes none away.
LEMMA AttachingKeeps ==
  ASSUME UsbInv, NEW c \in Client, HandleAttach(c)
  PROVE  PromisesKept
<1>1. UNCHANGED <<sending, events>>
  BY DEF HandleAttach, Answer, usbVars
<1>2. \A h \in Handle : IsAttached(h) => IsAttached(h)'
  <2>1. CASE UNCHANGED managerVars
    BY <2>1 DEF managerVars, IsAttached
  <2>2. ASSUME NEW h \in Handle, AttachDevice(Head(cmds).device, c, h)
        PROVE  \A x \in Handle : IsAttached(x) => IsAttached(x)'
    BY <2>2 DEF AttachDevice, IsAttached, UsbInv, ManagerInv, ManagerTypeOK, Used
  <2> QED
    BY <2>1, <2>2 DEF HandleAttach
<1> QED
  BY <1>1, <1>2 DEF PromisesKept, Promised, Named

\* Detaching and receiving apart, no step takes away a handle without saying so.
LEMMA NothingUnsaid ==
  ASSUME UsbInv, [Next]_vars, ~\E c \in Client : HandleDetach(c) \/ ReceiveEvent(c)
  PROVE  PromisesKept
<1> DEFINE Muted == UNCHANGED <<attached, sending, events>>
<1>1. ASSUME NEW c \in Client, HandleList(c) \/ HandleTransfer(c) \/ HandleLock(c) \/ HandleUnlock(c)
      PROVE  Muted
  BY <1>1 DEF HandleList, HandleTransfer, HandleLock, HandleUnlock, LockDevice, UnlockDevice,
              Answer, managerVars, usbVars
<1>2. ASSUME NEW p \in Port, Plug(p) \/ Unplug(p) \/ Enumerate(p)
      PROVE  Muted
  BY <1>2 DEF Plug, Unplug, Enumerate, AddDevice, managerVars
<1>3. ASSUME StartLoop \/ HotplugCallback \/ (\E ready \in SUBSET Port : DebounceFires(ready))
               \/ HandleShutdown \/ SendShutdown
      PROVE  Muted
  BY <1>3 DEF StartLoop, HotplugCallback, DebounceFires, HandleShutdown, SendShutdown, managerVars, usbVars
<1>4. ASSUME NEW c \in Client, Connect(c) \/ Request(c) \/ Handler(c) \/ Disconnect(c)
      PROVE  Muted
  <2>1. UNCHANGED managerVars /\ Calm
    BY <1>4, HandlersKeepOut, CalmSteps
  <2> QED
    BY <2>1 DEF managerVars, Calm, usbVars
<1>5. ASSUME UNCHANGED vars
      PROVE  Muted
  BY <1>5 DEF vars, managerVars, usbVars
<1>6. Muted => PromisesKept
  BY MutedSteps
<1> HIDE DEF Muted
<1> QED
  BY <1>1, <1>2, <1>3, <1>4, <1>5, <1>6, SentIsKept, LeftIsAnnounced, ArrivalsSilenceNothing,
     AttachingKeeps
  DEF Next, Bus, UsbThread, HandleCommand

-----------------------------------------------------------------------------

\* A handler that does nothing hears what it would have heard.
LEMMA StillHears ==
  ASSUME UsbInv, NEW c \in Client, Hears(c), PromisesKept,
         tracked'[c] = tracked[c], conn'[c] = conn[c]
  PROVE  Hears(c)'
<1>1. \A h \in TrackedBy(c) : Promised(h)' \/ Returned(c, h)
  BY DEF Hears, TrackedBy, PromisesKept
<1>2. conn[c].pc = "done" /\ conn[c].cmd.op = "Attach" => conn[c].answer \subseteq Handle
  BY DEF UsbInv, Owned, Answers, ManagerInv, ManagerTypeOK
<1>3. conn[c].pc = "done" /\ conn[c].cmd.op = "Attach" => \A h \in conn[c].answer : Promised(h)'
  BY <1>2 DEF Hears, PromisesKept
<1>4. TrackedBy(c)' = TrackedBy(c) /\ \A h \in Handle : Returned(c, h)' <=> Returned(c, h)
  BY DEF TrackedBy, Returned
<1> QED
  BY <1>1, <1>3, <1>4 DEF Hears, TrackedBy

\* The next step of a handler that is closing, or has nothing to return.
LEMMA HearsOn ==
  ASSUME UsbInv, NEW c \in Client, Hears(c), PromisesKept,
         \A h \in Handle : tracked'[c][h] # NoDevice => tracked[c][h] # NoDevice,
         \A h \in Handle : tracked'[c][h] # NoDevice /\ Returned(c, h) => Returned(c, h)',
         conn'[c].pc # "done" \/ conn'[c].cmd.op # "Attach"
  PROVE  Hears(c)'
BY DEF Hears, TrackedBy, PromisesKept

\* The thread's answers but those to AttachDevice and DetachDevice.
LEMMA AnswerHeard ==
  ASSUME UsbInv, NEW c \in Client, Hears(c), PromisesKept,
         HandleList(c) \/ HandleTransfer(c) \/ HandleLock(c) \/ HandleUnlock(c)
  PROVE  Hears(c)'
<1>0. ConnTyped /\ ManagerTypeOK
  BY DEF UsbInv, ManagerInv
<1>1. PICK op \in {"List", "Transfer", "Lock", "Unlock"} :
        \E answer \in SUBSET (DeviceId \cup Handle) : Answer(c, op, answer)
  <2>1. CASE HandleList(c)
    BY <2>1 DEF HandleList
  <2>2. CASE HandleTransfer(c)
    <3>1. Head(cmds).op = "Transfer" /\ cmds # <<>>
      BY <2>2 DEF HandleTransfer, Answer
    <3>2. Head(cmds) \in Sound
      <4>1. Head(cmds) \in Sound \cup {Stop}
        BY <3>1 DEF UsbInv, CmdsTyped
      <4> QED
        BY <3>1, <4>1 DEF Stop
    <3>3. Head(cmds).handle \in Handle
      BY <3>1, <3>2 DEF Sound, OnHandle
    <3> QED
      BY <2>2, <3>3 DEF HandleTransfer
  <2>3. CASE HandleLock(c)
    BY <2>3 DEF HandleLock
  <2>4. CASE HandleUnlock(c)
    BY <2>4 DEF HandleUnlock
  <2> QED
    BY <2>1, <2>2, <2>3, <2>4
<1>2. PICK answer \in SUBSET (DeviceId \cup Handle) : Answer(c, op, answer)
  BY <1>1
<1>3. conn[c].pc = "wait" /\ conn[c].cmd.op = op /\ op # "Attach"
  BY <1>2, HeadIsOwn DEF Ops
<1>4. conn'[c].cmd = conn[c].cmd /\ conn'[c].closing = conn[c].closing /\ UNCHANGED tracked
  <2>1. conn'[c].cmd = conn[c].cmd /\ conn'[c].closing = conn[c].closing
    BY <1>0, <1>2, AnswerEffect
  <2> QED
    BY <1>2, <2>1 DEF Answer
<1> QED
  BY <1>3, <1>4, HearsOn DEF Returned

\* attach_device: the handle in the answer is good.
LEMMA AttachHeard ==
  ASSUME UsbInv, NEW c \in Client, Hears(c), PromisesKept, HandleAttach(c)
  PROVE  Hears(c)'
<1>0. ConnTyped /\ ManagerTypeOK /\ "Attach" \in Ops
  BY DEF UsbInv, ManagerInv, Ops
<1>1. PICK answer \in SUBSET Handle : /\ Answer(c, "Attach", answer)
                                      /\ \A h \in answer : IsAttached(h)'
  <2>1. ASSUME NEW h \in Handle, AttachDevice(Head(cmds).device, c, h), cmds # <<>>,
               Head(cmds).op = "Attach"
        PROVE  IsAttached(h)'
    <3>1. Head(cmds) \in Sound \cup {Stop}
      BY <2>1 DEF UsbInv, CmdsTyped
    <3>2. Head(cmds).device \in DeviceId
      BY <2>1, <3>1 DEF Sound, Stop
    <3>3. attached'[h] = [device |-> Head(cmds).device, client |-> c]
      BY <1>0, <2>1 DEF AttachDevice, ManagerTypeOK
    <3> QED
      BY <3>2, <3>3, ManagerAssumption DEF IsAttached, Attachment
  <2>2. CASE Answer(c, "Attach", {})
    BY <2>2
  <2>3. ASSUME NEW h \in Handle, Answer(c, "Attach", {h}), AttachDevice(Head(cmds).device, c, h)
        PROVE  IsAttached(h)'
    BY <2>1, <2>3 DEF Answer
  <2> QED
    BY <2>2, <2>3 DEF HandleAttach
<1>2. conn[c].pc = "wait"
  BY <1>0, <1>1, HeadIsOwn
<1>3. /\ conn'[c].pc = "done" /\ conn'[c].answer = answer
      /\ conn'[c].cmd = conn[c].cmd /\ conn'[c].closing = conn[c].closing
  BY <1>0, <1>1, AnswerEffect
<1>4. UNCHANGED tracked
  BY <1>1 DEF Answer
<1>5. \A h \in answer : Promised(h)'
  BY <1>1 DEF Promised
<1>6. \A h \in TrackedBy(c) : Promised(h)' \/ Returned(c, h)'
  BY <1>2, <1>3 DEF Hears, Returned, TrackedBy, PromisesKept
<1> QED
  BY <1>3, <1>4, <1>5, <1>6 DEF Hears, TrackedBy

\* detach_device: the handle is in the answer.
LEMMA DetachHeard ==
  ASSUME UsbInv, NEW c \in Client, Hears(c), HandleDetach(c)
  PROVE  Hears(c)'
<1>0. ConnTyped /\ ManagerTypeOK /\ "Detach" \in Ops
  BY DEF UsbInv, ManagerInv, Ops
<1>1. PICK answer \in SUBSET {Head(cmds).handle} : Answer(c, "Detach", answer)
  BY DEF HandleDetach
<1>2. Head(cmds).handle \in Handle
  <2>1. Head(cmds) \in Sound \cup {Stop} /\ Head(cmds).op = "Detach"
    BY <1>1 DEF UsbInv, CmdsTyped, Answer
  <2> QED
    BY <2>1 DEF Sound, Stop, OnHandle
<1>3. \A h \in Handle : Promised(h) => Promised(h)' \/ h \in conn'[c].answer
  <2>1. UNCHANGED <<sending, events>>
    BY <1>1 DEF Answer, usbVars
  <2>2. CASE UNCHANGED managerVars
    BY <2>1, <2>2 DEF managerVars, Promised, IsAttached, Named
  <2>3. ASSUME NEW h \in Handle, h = Head(cmds).handle, DetachDevice(h), Answer(c, "Detach", {h})
        PROVE  \A x \in Handle : Promised(x) => Promised(x)' \/ x \in conn'[c].answer
    <3>1. \A x \in Handle \ {h} : attached'[x] = attached[x]
      BY <1>0, <2>3 DEF DetachDevice, ManagerTypeOK
    <3>2. conn'[c].answer = {h}
      BY <1>0, <2>3, AnswerEffect
    <3> QED
      BY <2>1, <3>1, <3>2 DEF Promised, IsAttached, Named
  <2> QED
    BY <1>2, <2>2, <2>3 DEF HandleDetach
<1>4. conn[c].pc = "wait" /\ conn[c].cmd.op = "Detach"
  BY <1>0, <1>1, HeadIsOwn
<1>5. /\ conn'[c].pc = "done"
      /\ conn'[c].cmd = conn[c].cmd /\ conn'[c].closing = conn[c].closing
  BY <1>0, <1>1, <1>2, AnswerEffect
<1>6. UNCHANGED tracked
  BY <1>1 DEF Answer
<1> QED
  BY <1>3, <1>4, <1>5, <1>6 DEF Hears, TrackedBy, Returned

\* Connecting, asking and sending.
LEMMA AskingHeard ==
  ASSUME UsbInv, NEW c \in Client, Hears(c), PromisesKept, Connect(c) \/ Request(c) \/ SendCommand(c)
  PROVE  Hears(c)'
<1>0. ConnTyped /\ conn[c] \in HandlerState
  BY DEF UsbInv, ConnTyped
<1>1. CASE Connect(c)
  <2>1. conn[c].pc = "off" /\ conn' = [conn EXCEPT ![c].pc = "ready"] /\ UNCHANGED tracked
    BY <1>1 DEF Connect
  <2>2. conn'[c].pc = "ready" /\ conn'[c].closing = conn[c].closing
    BY <1>0, <2>1 DEF ConnTyped, HandlerState
  <2> QED
    BY <2>1, <2>2, HearsOn DEF Returned
<1>2. CASE Request(c)
  <2>1. \E op, d, h, goal : Begin(c, op, d, h, goal)
    BY <1>2 DEF Request, RequestList, RequestAttach, RequestDetach, RequestOnHandle, RequestTransfer,
        RequestLock, RequestUnlock
  <2>2. /\ conn[c].pc = "ready" /\ UNCHANGED tracked
        /\ conn'[c].pc = "send" /\ conn'[c].closing = conn[c].closing
    BY <1>0, <2>1 DEF Begin, ConnTyped, HandlerState
  <2> QED
    BY <2>2, HearsOn DEF Returned
<1>3. CASE SendCommand(c)
  <2>1. conn[c].pc = "send" /\ UNCHANGED tracked
    BY <1>3 DEF SendCommand
  <2>2. conn'[c].pc = "wait" /\ conn'[c].closing = conn[c].closing
    BY <1>0, <1>3, SendEffect
  <2> QED
    BY <2>1, <2>2, HearsOn DEF Returned
<1> QED
  BY <1>1, <1>2, <1>3

\* Acting upon an answer other than DetachDevice's or the last of a closing one.
LEMMA FinishHeard ==
  ASSUME UsbInv, NEW c \in Client, Hears(c), PromisesKept,
         FinishList(c) \/ FinishAttach(c) \/ FinishDetach(c) \/ FinishOther(c)
  PROVE  Hears(c)'
<1>0. ConnTyped /\ Books(c) /\ Answers(c) /\ ManagerTypeOK
  BY DEF UsbInv, Owned, ManagerInv
<1>1. CASE FinishList(c)
  <2>1. /\ conn[c].pc = "done" /\ conn[c].cmd.op = "List" /\ UNCHANGED tracked
        /\ \/ Ready(c)
           \/ conn' = [conn EXCEPT ![c].pc = "send", ![c].answer = {}, ![c].goal = NoDevice,
                                   ![c].cmd = Command(c, "Attach", conn[c].goal, NoHandle)]
    BY <1>1 DEF FinishList, Answered
  <2>2. conn'[c].pc # "done"
    <3>1. CASE Ready(c)
      BY <1>0, <3>1, ReadyEffect
    <3>2. CASE ~Ready(c)
      <4>1. conn[c] \in HandlerState
        BY <1>0 DEF ConnTyped
      <4> QED
        BY <1>0, <2>1, <3>2, <4>1 DEF ConnTyped, HandlerState
    <3> QED
      BY <3>1, <3>2
  <2>3. \A h \in Handle : ~Returned(c, h)
    BY <1>0, <2>1 DEF Returned, Books
  <2> QED
    BY <2>1, <2>2, <2>3, HearsOn
<1>2. CASE FinishAttach(c)
  <2>1. /\ conn[c].pc = "done" /\ conn[c].cmd.op = "Attach" /\ Ready(c)
        /\ tracked' = [tracked EXCEPT ![c] =
             [h \in Handle |-> IF h \in conn[c].answer THEN conn[c].cmd.device ELSE @[h]]]
    BY <1>2 DEF FinishAttach, Answered
  <2>2. conn'[c].pc = "ready"
    BY <1>0, <2>1, ReadyEffect
  <2>3. \A h \in Handle : ~Returned(c, h)
    BY <1>0, <2>1 DEF Returned, Books
  <2>4. \A h \in Handle : tracked'[c][h] # NoDevice => h \in TrackedBy(c) \/ h \in conn[c].answer
    BY <1>0, <2>1 DEF ConnTyped, TrackedBy
  <2>5. \A h \in Handle : tracked'[c][h] # NoDevice => Promised(h)'
    BY <2>1, <2>3, <2>4 DEF Hears, PromisesKept
  <2> QED
    BY <2>2, <2>5 DEF Hears, TrackedBy
<1>3. CASE FinishDetach(c)
  <2>1. /\ conn[c].pc = "done" /\ conn[c].cmd.op = "Detach" /\ ~conn[c].closing /\ Ready(c)
        /\ Untrack(c, conn[c].answer)
    BY <1>3 DEF FinishDetach, Answered
  <2>2. conn'[c].pc = "ready"
    BY <1>0, <2>1, ReadyEffect
  <2>3. \A h \in Handle : tracked'[c][h] = IF h \in conn[c].answer THEN NoDevice ELSE tracked[c][h]
    BY <1>0, <2>1, UntrackEffect
  <2> QED
    BY <2>1, <2>2, <2>3, HearsOn DEF Returned
<1>4. CASE FinishOther(c)
  <2>1. /\ conn[c].pc = "done" /\ conn[c].cmd.op \in {"Transfer", "Lock", "Unlock"}
        /\ Ready(c) /\ UNCHANGED tracked
    BY <1>4 DEF FinishOther, Answered
  <2>2. conn'[c].pc = "ready"
    BY <1>0, <2>1, ReadyEffect
  <2>3. \A h \in Handle : ~Returned(c, h)
    BY <1>0, <2>1 DEF Returned, Books
  <2> QED
    BY <2>1, <2>2, <2>3, HearsOn
<1> QED
  BY <1>1, <1>2, <1>3, <1>4

\* A connection that ends keeps what it tracks until all of it is given back.
LEMMA EndHeard ==
  ASSUME UsbInv, NEW c \in Client, Hears(c), PromisesKept, Disconnect(c) \/ CleanupStep(c)
  PROVE  Hears(c)'
<1>0. ConnTyped /\ conn[c] \in HandlerState
  BY DEF UsbInv, ConnTyped
<1>1. PICK left \in SUBSET Handle : CloseNext(c, left)
  <2>1. TrackedBy(c) \subseteq Handle /\ conn[c].leaving \subseteq Handle
    BY <1>0 DEF TrackedBy, HandlerState
  <2>2. conn[c].leaving \ {conn[c].cmd.handle} \in SUBSET Handle
    BY <2>1
  <2> QED
    BY <2>1, <2>2 DEF Disconnect, CleanupStep
<1>2. /\ conn'[c].pc \in {"off", "send"}
      /\ (\A h \in Handle : tracked'[c][h] = NoDevice) \/ (conn'[c].closing /\ tracked' = tracked)
  BY <1>0, <1>1, CloseEffect
<1> QED
  BY <1>2, HearsOn DEF Returned

\* The one event that told of a handle lets its only listener drop it.
LEMMA ReceiveHeard ==
  ASSUME UsbInv, NEW c \in Client, Hears(c), ReceiveEvent(c)
  PROVE  Hears(c)'
<1>0. /\ ConnTyped /\ Books(c) /\ events \in Seq(Event) /\ events # <<>> /\ events' = Tail(events)
      /\ UNCHANGED <<attached, sending, conn>> /\ conn[c].pc = "ready"
  BY DEF UsbInv, EventsTyped, Owned, ReceiveEvent, managerVars, usbVars
<1>1. \A h \in Handle : ~Returned(c, h)
  BY <1>0 DEF Returned, Books
<1>2. \A h \in Handle : tracked'[c][h] # NoDevice =>
        /\ tracked[c][h] # NoDevice
        /\ Head(events).kind = "Left" => h \notin Head(events).handles
  <2>1. CASE Head(events).kind = "Left"
    <3> DEFINE handles == Head(events).handles \cup {h \in Handle : tracked[c][h] = Head(events).device}
    <3>1. Untrack(c, handles)
      BY <2>1 DEF ReceiveEvent
    <3>2. \A h \in Handle : tracked'[c][h] = IF h \in handles THEN NoDevice ELSE tracked[c][h]
      BY <1>0, <3>1, UntrackEffect
    <3> QED
      BY <3>2
  <2>2. CASE Head(events).kind # "Left"
    BY <2>2 DEF ReceiveEvent
  <2> QED
    BY <2>1, <2>2
<1>3. \A i \in DOMAIN events : i = 1 \/ (i - 1 \in DOMAIN events' /\ events'[i - 1] = events[i])
  BY <1>0
<1>4. Head(events) = events[1]
  BY <1>0
<1>5. ASSUME NEW h \in Handle, tracked'[c][h] # NoDevice
      PROVE  Promised(h)'
  <2>1. Promised(h)
    BY <1>1, <1>2, <1>5 DEF Hears, TrackedBy
  <2>2. CASE IsAttached(h) \/ (sending.kind = "Left" /\ h \in sending.handles)
    BY <1>0, <2>2 DEF Promised, IsAttached, Named
  <2>3. ASSUME NEW i \in DOMAIN events, events[i].kind = "Left", h \in events[i].handles
        PROVE  Promised(h)'
    <3>1. i # 1
      BY <1>2, <1>4, <1>5, <2>3
    <3> QED
      BY <1>3, <2>3, <3>1 DEF Promised, Named
  <2> QED
    BY <2>1, <2>2, <2>3 DEF Promised, Named
<1> QED
  BY <1>0, <1>5 DEF Hears, TrackedBy

LEMMA HearsStep ==
  ASSUME NEW me \in Client, Client = {me}, UsbInv, Hears(me), [Next]_vars
  PROVE  Hears(me)'
<1>1. CASE HandleDetach(me)
  BY <1>1, DetachHeard
<1>2. CASE ReceiveEvent(me)
  BY <1>2, ReceiveHeard
<1>3. CASE ~HandleDetach(me) /\ ~ReceiveEvent(me)
  <2>1. PromisesKept
    BY <1>3, NothingUnsaid
  <2>2. ASSUME UNCHANGED connVars
        PROVE  Hears(me)'
    BY <2>1, <2>2, StillHears DEF connVars
  <2>3. ASSUME HandleShutdown \/ SendShutdown \/ UNCHANGED vars \/ Silent
        PROVE  UNCHANGED connVars
    BY <2>3 DEF HandleShutdown, SendShutdown, vars, Silent
  <2>4. ASSUME HandleList(me) \/ HandleTransfer(me) \/ HandleLock(me) \/ HandleUnlock(me)
        PROVE  Hears(me)'
    BY <2>1, <2>4, AnswerHeard
  <2>5. ASSUME Connect(me) \/ Request(me) \/ Handler(me) \/ Disconnect(me)
        PROVE  Hears(me)'
    BY <2>1, <2>5, AskingHeard, FinishHeard, EndHeard DEF Handler
  <2>6. CASE HandleAttach(me)
    BY <2>1, <2>6, AttachHeard
  <2> QED
    BY <1>3, <2>2, <2>3, <2>4, <2>5, <2>6, SilentSteps DEF Next, HandleCommand
<1> QED
  BY <1>1, <1>2, <1>3

\* With one client every removal reaches the connection it concerns (recv_event,
\* handle_usb_event): an idle connection tracks no handle that the manager has
\* dropped without the event on its way.  With two clients the other connection
\* may take the event.
THEOREM LoneClientHears ==
  ASSUME NEW me \in Client, Client = {me}
  PROVE  Spec => []NoStaleHandle
<1>1. Init => Hears(me)
  <2> SUFFICES ASSUME Init
               PROVE  Hears(me)
    OBVIOUS
  <2>1. conn[me] = Idle /\ \A h \in Handle : tracked[me][h] = NoDevice
    BY DEF Init
  <2> QED
    BY <2>1 DEF Hears, TrackedBy, Idle
<1>2. UsbInv /\ Hears(me) /\ [Next]_vars => Hears(me)'
  BY HearsStep
<1>3. UsbInv /\ Hears(me) => NoStaleHandle
  <2> SUFFICES ASSUME UsbInv, Hears(me), NEW h \in TrackedBy(me), conn[me].pc = "ready"
               PROVE  Registered(tracked[me][h]) \/ Announced(me, h)
    BY DEF NoStaleHandle
  <2>1. h \in Handle /\ tracked[me][h] # NoDevice
    BY DEF TrackedBy
  <2>2. IsAttached(h) \/ Named(h)
    BY DEF UsbInv, Owned, Books, Hears, Promised, Returned
  <2>3. CASE Named(h)
    BY <2>3 DEF Named, Announced, Tells
  <2>4. CASE IsAttached(h)
    <3>1. attached[h].device = tracked[me][h] /\ attached[h].device \in DeviceId
      BY <2>1, <2>4 DEF UsbInv, Owned, Own, ManagerInv, ManagerTypeOK, IsAttached, Attachment
    <3> QED
      BY <2>1, <2>4, <3>1
         DEF UsbInv, ManagerInv, Maps, AttachmentsConsistent, HandlesOf, IsAttached
  <2> QED
    BY <2>2, <2>3, <2>4
<1> QED
  BY <1>1, <1>2, <1>3, UsbConsistent, PTL DEF Spec

-----------------------------------------------------------------------------
(* The registry and the bus: what libusb has told last of a port, wherever *)
(* that message is on its way (libusb's list, debounce_state, the events   *)
(* being processed), is true, and where nothing is on its way the registry *)
(* is right.  For any number of ports and any speed of plugging.           *)

Told(p) == \E i \in DOMAIN hotplug : hotplug[i].port = p

Last(i) == \A j \in DOMAIN hotplug : hotplug[j].port = hotplug[i].port => j <= i

\* The last message of libusb's list about a port is true.
ListTrue ==
  \A i \in DOMAIN hotplug :
    Last(i) => (hotplug[i].kind = "Arrived" <=> hotplug[i].port \in present)

\* What is debounced, or else being processed, or else in the registry, is true
\* of a port of which no newer message is on its way.
PortTrue(p) ==
  ~Told(p) =>
    /\ debounce[p] # "none" => (debounce[p] = "Arrived" <=> p \in present)
    /\ debounce[p] = "none" =>
         /\ \A e \in fired : e.port = p => (e.kind # "Left" <=> p \in present)
         /\ (\A e \in fired : e.port # p) =>
              (devices[p] # NoDevice <=> p \in present \cap Shareable)

\* The list of enumerate_devices is worked off before any message is looked at.
Phases ==
  /\ \A e, f \in fired : e.port = f.port => e = f
  /\ worker = "starting" =>
       /\ debounce = [p \in Port |-> "none"]
       /\ \A e \in fired : e.kind = "Found" /\ devices[e.port] = NoDevice
  /\ worker # "starting" => \A e \in fired : e.kind # "Found"
  /\ \A p \in Port : devices[p] # NoDevice => p \in Shareable

RegistryInv ==
  /\ ListTrue
  /\ \A p \in Port : PortTrue(p)
  /\ Phases

-----------------------------------------------------------------------------
(* libusb's list *)

\* A message more: it is the last about its port.
LEMMA Longer ==
  ASSUME UsbInv, NEW p \in Port, NEW message \in Message, message.port = p,
         hotplug' = Append(hotplug, message),
         \A q \in Port \ {p} : q \in present' <=> q \in present,
         message.kind = "Arrived" <=> p \in present',
         ListTrue
  PROVE  /\ ListTrue' /\ Told(p)'
         /\ \A q \in Port \ {p} : Told(q)' <=> Told(q)
<1> DEFINE n == Len(hotplug)
<1>1. hotplug \in Seq(Message) /\ n \in Nat
  BY DEF UsbInv, BusTyped
<1>2. /\ DOMAIN hotplug = 1 .. n /\ DOMAIN hotplug' = 1 .. (n + 1)
      /\ \A i \in 1 .. n : hotplug'[i] = hotplug[i] /\ hotplug[i] \in Message
      /\ hotplug'[n + 1] = message
  BY <1>1
<1>3. \A i \in 1 .. n : hotplug[i].port \in Port
  BY <1>2 DEF Message
<1> HIDE DEF n
<1>4. Told(p)' /\ \A q \in Port \ {p} : Told(q)' <=> Told(q)
  <2>1. n + 1 \in 1 .. (n + 1) /\ \A i \in 1 .. (n + 1) : i \in 1 .. n \/ i = n + 1
    BY <1>1
  <2>2. \A i \in 1 .. n : i \in 1 .. (n + 1)
    BY <1>1
  <2> QED
    BY <1>2, <2>1, <2>2 DEF Told
<1>5. ListTrue'
  <2> SUFFICES ASSUME NEW i \in DOMAIN hotplug', Last(i)'
               PROVE  hotplug'[i].kind = "Arrived" <=> hotplug'[i].port \in present'
    BY DEF ListTrue
  <2>1. CASE i = n + 1
    BY <1>2, <2>1
  <2>2. CASE i \in 1 .. n
    <3>1. hotplug[i].port # p
      BY <1>1, <1>2, <2>2 DEF Last
    <3>2. Last(i)
      BY <1>1, <1>2, <2>2 DEF Last
    <3>3. hotplug[i].kind = "Arrived" <=> hotplug[i].port \in present
      BY <1>2, <2>2, <3>2 DEF ListTrue
    <3> QED
      BY <1>2, <1>3, <2>2, <3>1, <3>3
  <2> QED
    BY <1>1, <1>2, <2>1, <2>2
<1> QED
  BY <1>4, <1>5

\* A message less: it was the last about its port, or there is one left.
LEMMA Shorter ==
  ASSUME UsbInv, hotplug # <<>>, hotplug' = Tail(hotplug), UNCHANGED present, ListTrue,
         NEW p \in Port, p = Head(hotplug).port
  PROVE  /\ ListTrue'
         /\ ~Told(p)' => (Head(hotplug).kind = "Arrived" <=> p \in present)
         /\ \A q \in Port \ {p} : Told(q)' <=> Told(q)
<1>1. hotplug \in Seq(Message)
  BY DEF UsbInv, BusTyped
<1>2. PICK n \in Nat : n = Len(hotplug) /\ n >= 1
  BY <1>1
<1>3. /\ DOMAIN hotplug = 1 .. n /\ DOMAIN hotplug' = 1 .. (n - 1)
      /\ \A i \in 1 .. (n - 1) : hotplug'[i] = hotplug[i + 1]
      /\ Head(hotplug) = hotplug[1] /\ Head(hotplug) \in Message
  BY <1>1, <1>2
<1>4. ListTrue'
  <2> SUFFICES ASSUME NEW i \in 1 .. (n - 1), Last(i)'
               PROVE  hotplug'[i].kind = "Arrived" <=> hotplug'[i].port \in present'
    BY <1>3 DEF ListTrue
  <2>1. i + 1 \in DOMAIN hotplug
    BY <1>2, <1>3
  <2>2. ASSUME NEW j \in 1 .. n, hotplug[j].port = hotplug[i + 1].port
        PROVE  j <= i + 1
    <3>1. CASE j = 1
      BY <3>1
    <3>2. CASE j # 1
      <4>1. j - 1 \in 1 .. (n - 1) /\ hotplug'[j - 1] = hotplug[j]
        BY <1>2, <1>3, <3>2
      <4>2. j - 1 <= i
        BY <1>3, <2>2, <4>1 DEF Last
      <4> QED
        BY <4>2
    <3> QED
      BY <3>1, <3>2
  <2>3. Last(i + 1)
    BY <1>3, <2>2 DEF Last
  <2> QED
    BY <1>3, <2>1, <2>3 DEF ListTrue
<1>5. ~Told(p)' => (Head(hotplug).kind = "Arrived" <=> p \in present)
  <2> SUFFICES ASSUME ~\E i \in 1 .. (n - 1) : hotplug'[i].port = p
               PROVE  hotplug[1].kind = "Arrived" <=> hotplug[1].port \in present
    BY <1>3 DEF Told
  <2>1. ASSUME NEW j \in 1 .. n, hotplug[j].port = hotplug[1].port
        PROVE  j <= 1
    <3>1. j # 1 => j - 1 \in 1 .. (n - 1) /\ (j - 1) + 1 = j
      BY <1>2
    <3>2. j # 1 => hotplug'[j - 1] = hotplug[j]
      BY <1>3, <3>1
    <3>3. j = 1
      BY <1>3, <2>1, <3>1, <3>2
    <3> QED
      BY <3>3
  <2>2. 1 \in DOMAIN hotplug /\ Last(1)
    BY <1>2, <1>3, <2>1 DEF Last
  <2> QED
    BY <2>2 DEF ListTrue
<1>6. ASSUME NEW q \in Port \ {p}
      PROVE  Told(q)' <=> Told(q)
  <2>1. Told(q)' <=> \E i \in 1 .. (n - 1) : hotplug'[i].port = q
    BY <1>3 DEF Told
  <2>2. Told(q) <=> \E i \in 1 .. n : hotplug[i].port = q
    BY <1>3 DEF Told
  <2>3. ASSUME NEW i \in 1 .. (n - 1), hotplug'[i].port = q
        PROVE  i + 1 \in 1 .. n /\ hotplug[i + 1].port = q
    BY <1>2, <1>3, <2>3
  <2>4. ASSUME NEW i \in 1 .. n, hotplug[i].port = q
        PROVE  i - 1 \in 1 .. (n - 1) /\ hotplug'[i - 1].port = q
    <3>1. i # 1
      BY <1>3, <2>4
    <3>2. i - 1 \in 1 .. (n - 1) /\ (i - 1) + 1 = i
      BY <1>2, <3>1
    <3> QED
      BY <1>3, <2>4, <3>2
  <2> QED
    BY <2>1, <2>2, <2>3, <2>4
<1> QED
  BY <1>3, <1>4, <1>5, <1>6

-----------------------------------------------------------------------------
(* The steps *)

Still == UNCHANGED <<worker, present, hotplug, debounce, fired, devices>>

\* Commands and handlers have nothing to do with plugging.
LEMMA StillSteps ==
  ASSUME \/ \E c \in Client : \/ HandleList(c) \/ HandleAttach(c) \/ HandleDetach(c)
                              \/ HandleTransfer(c) \/ HandleLock(c) \/ HandleUnlock(c)
         \/ \E c \in Client : Connect(c) \/ Request(c) \/ Handler(c) \/ ReceiveEvent(c) \/ Disconnect(c)
         \/ SendShutdown \/ SendEvent \/ UNCHANGED vars
  PROVE  Still
<1>1. ASSUME Calm, UNCHANGED devices
      PROVE  Still
  BY <1>1 DEF Calm, Still, usbVars, plugVars
<1>2. ASSUME NEW c \in Client,
             \/ HandleList(c) \/ HandleAttach(c) \/ HandleDetach(c)
             \/ HandleTransfer(c) \/ HandleLock(c) \/ HandleUnlock(c)
      PROVE  Still
  <2>1. UNCHANGED devices
    BY <1>2 DEF HandleList, HandleAttach, HandleDetach, HandleTransfer, HandleLock, HandleUnlock,
                AttachDevice, DetachDevice, LockDevice, UnlockDevice, managerVars
  <2> QED
    BY <1>1, <1>2, <2>1, CalmSteps
<1>3. ASSUME NEW c \in Client, Connect(c) \/ Request(c) \/ Handler(c) \/ Disconnect(c)
      PROVE  Still
  <2>1. UNCHANGED devices
    BY <1>3, HandlersKeepOut DEF managerVars
  <2> QED
    BY <1>1, <1>3, <2>1, CalmSteps
<1>4. ASSUME NEW c \in Client, ReceiveEvent(c)
      PROVE  Still
  BY <1>4 DEF ReceiveEvent, Still, usbVars, plugVars, managerVars
<1>5. ASSUME SendShutdown \/ SendEvent \/ UNCHANGED vars
      PROVE  Still
  BY <1>5 DEF SendShutdown, SendEvent, vars, Still, usbVars, plugVars, managerVars
<1> QED
  BY <1>2, <1>3, <1>4, <1>5

\* An event has been processed for p: the registry is now right about it.
LEMMA Processed ==
  ASSUME UsbInv, RegistryInv, NEW p \in Port, NEW e \in fired, e.port = p, fired' = fired \ {e},
         UNCHANGED <<worker, present, hotplug, debounce>>,
         \A q \in Port \ {p} : devices'[q] = devices[q],
         devices'[p] # NoDevice => p \in Shareable,
         ~Told(p) /\ debounce[p] = "none" => (devices'[p] # NoDevice <=> p \in present \cap Shareable)
  PROVE  RegistryInv'
<1>0. \A f \in fired : f.port \in Port
  BY DEF UsbInv, BusTyped
<1>1. ListTrue'
  BY DEF RegistryInv, ListTrue, Last
<1>2. Phases'
  BY <1>0 DEF RegistryInv, Phases
<1>3. \A f \in fired' : f.port # p
  BY DEF RegistryInv, Phases
<1>4. \A q \in Port : Told(q)' <=> Told(q)
  BY DEF Told
<1>5. PortTrue(p)'
  <2>1. debounce[p] # "none" /\ ~Told(p) => (debounce[p] = "Arrived" <=> p \in present)
    BY DEF RegistryInv, PortTrue
  <2> QED
    BY <1>3, <1>4, <2>1 DEF PortTrue
<1>6. ASSUME NEW q \in Port \ {p}
      PROVE  PortTrue(q)'
  <2>1. PortTrue(q)
    BY DEF RegistryInv
  <2>2. \A f \in fired : f.port = q => f \in fired'
    BY <1>6
  <2>3. \A f \in fired' : f \in fired
    OBVIOUS
  <2> QED
    BY <1>4, <1>6, <2>1, <2>2, <2>3 DEF PortTrue
<1> QED
  BY <1>1, <1>2, <1>5, <1>6 DEF RegistryInv

LEMMA RegistryStep ==
  ASSUME UsbInv, RegistryInv, [Next]_vars
  PROVE  RegistryInv'
<1>0. /\ ManagerTypeOK /\ hotplug \in Seq(Message) /\ debounce \in [Port -> {"none", "Arrived", "Left"}]
      /\ fired \in SUBSET [port : Port, kind : {"Found", "Arrived", "Left"}]
      /\ ListTrue /\ Phases /\ \A q \in Port : PortTrue(q)
  BY DEF UsbInv, ManagerInv, BusTyped, RegistryInv
<1>1. ASSUME NEW p \in Port, Plug(p) \/ Unplug(p)
      PROVE  RegistryInv'
  <2>1. PICK message \in Message :
          /\ message.port = p /\ hotplug' = Append(hotplug, message)
          /\ message.kind = "Arrived" <=> p \in present'
    <3>1. CASE Plug(p)
      <4>1. /\ hotplug' = Append(hotplug, [port |-> p, kind |-> "Arrived"]) /\ p \in present'
            /\ [port |-> p, kind |-> "Arrived"] \in Message
        BY <3>1 DEF Plug, Message
      <4> QED
        BY <4>1
    <3>2. CASE Unplug(p)
      <4>1. /\ hotplug' = Append(hotplug, [port |-> p, kind |-> "Left"]) /\ p \notin present'
            /\ [port |-> p, kind |-> "Left"] \in Message
        BY <3>2 DEF Unplug, Message
      <4> QED
        BY <4>1
    <3> QED
      BY <1>1, <3>1, <3>2
  <2>2. /\ \A q \in Port \ {p} : q \in present' <=> q \in present
        /\ UNCHANGED <<worker, debounce, fired, devices>>
    BY <1>1 DEF Plug, Unplug, managerVars
  <2>3. ListTrue' /\ Told(p)' /\ \A q \in Port \ {p} : Told(q)' <=> Told(q)
    BY <1>0, <2>1, <2>2, Longer
  <2>4. Phases'
    BY <1>0, <2>2 DEF Phases
  <2>5. ASSUME NEW q \in Port \ {p}
        PROVE  PortTrue(q)'
    BY <1>0, <2>2, <2>3, <2>5 DEF PortTrue
  <2>6. PortTrue(p)'
    BY <2>3 DEF PortTrue
  <2> QED
    BY <2>3, <2>4, <2>5, <2>6 DEF RegistryInv
<1>2. ASSUME NEW p \in Port, Enumerate(p)
      PROVE  RegistryInv'
  <2>1. PICK e \in fired : e = [port |-> p, kind |-> "Found"] /\ fired' = fired \ {e}
    BY <1>2 DEF Enumerate
  <2>2. e.port = p /\ e.kind = "Found"
    BY <2>1
  <2>3. worker = "starting" /\ debounce[p] = "none" /\ devices[p] = NoDevice
    BY <1>0, <1>2, <2>2 DEF Enumerate, Phases
  <2>4. UNCHANGED <<worker, present, hotplug, debounce>>
    BY <1>2 DEF Enumerate, plugVars
  <2>5. /\ \A q \in Port \ {p} : devices'[q] = devices[q]
        /\ devices'[p] # NoDevice <=> p \in Shareable
    <3>1. CASE p \in Shareable
      BY <1>0, <1>2, <3>1, ManagerAssumption DEF Enumerate, AddDevice, ManagerTypeOK
    <3>2. CASE p \notin Shareable
      BY <1>2, <2>3, <3>2 DEF Enumerate, managerVars
    <3> QED
      BY <3>1, <3>2
  <2>6. ~Told(p) => p \in present
    BY <1>0, <2>2, <2>3 DEF PortTrue
  <2> QED
    BY <2>1, <2>2, <2>3, <2>4, <2>5, <2>6, Processed
<1>3. ASSUME NEW p \in Port, DeviceArrived(p)
      PROVE  RegistryInv'
  <2>1. PICK e \in fired : e = [port |-> p, kind |-> "Arrived"] /\ fired' = fired \ {e}
    BY <1>3 DEF DeviceArrived, ProcessFired
  <2>2. e.port = p /\ e.kind = "Arrived"
    BY <2>1
  <2>3. UNCHANGED <<worker, present, hotplug, debounce>>
    BY <1>3 DEF DeviceArrived, ProcessFired, plugVars
  <2>4. ~Told(p) /\ debounce[p] = "none" => p \in present
    BY <1>0, <2>2 DEF PortTrue
  <2>5. devices[p] # NoDevice => p \in Shareable
    BY <1>0 DEF Phases
  <2>6. CASE p \notin present \cap Shareable
    <3>1. UNCHANGED devices
      BY <1>3, <2>6 DEF DeviceArrived, managerVars
    <3> QED
      BY <2>1, <2>2, <2>3, <2>4, <2>5, <2>6, <3>1, Processed
  <2>7. CASE p \in present \cap Shareable
    <3>1. /\ \A q \in Port \ {p} : devices'[q] = devices[q]
          /\ devices'[p] # NoDevice
      BY <1>0, <1>3, <2>7, ManagerAssumption DEF DeviceArrived, AddDevice, ManagerTypeOK, managerVars
    <3> QED
      BY <2>1, <2>2, <2>3, <2>7, <3>1, Processed
  <2> QED
    BY <2>6, <2>7
<1>4. ASSUME NEW p \in Port, DeviceLeft(p)
      PROVE  RegistryInv'
  <2>1. PICK e \in fired : e = [port |-> p, kind |-> "Left"] /\ fired' = fired \ {e}
    BY <1>4 DEF DeviceLeft, ProcessFired
  <2>2. e.port = p /\ e.kind = "Left"
    BY <2>1
  <2>3. UNCHANGED <<worker, present, hotplug, debounce>>
    BY <1>4 DEF DeviceLeft, ProcessFired, plugVars
  <2>4. ~Told(p) /\ debounce[p] = "none" => p \notin present
    BY <1>0, <2>2 DEF PortTrue
  <2>5. devices'[p] = NoDevice /\ \A q \in Port \ {p} : devices'[q] = devices[q]
    BY <1>0, <1>4 DEF DeviceLeft, RemoveDevice, ManagerTypeOK, managerVars
  <2> QED
    BY <2>1, <2>2, <2>3, <2>4, <2>5, Processed
<1>5. CASE HotplugCallback
  <2>1. /\ hotplug # <<>> /\ hotplug' = Tail(hotplug) /\ fired = {} /\ worker = "running"
        /\ UNCHANGED <<worker, present, fired, devices>>
        /\ debounce' = [debounce EXCEPT ![Head(hotplug).port] = Head(hotplug).kind]
    BY <1>5 DEF HotplugCallback, InLoop, plugVars, managerVars
  <2>2. Head(hotplug) \in Message
    BY <1>0, <2>1
  <2>3. PICK p \in Port : p = Head(hotplug).port
    BY <2>2 DEF Message
  <2>4. /\ ListTrue'
        /\ ~Told(p)' => (Head(hotplug).kind = "Arrived" <=> p \in present)
        /\ \A q \in Port \ {p} : Told(q)' <=> Told(q)
    BY <1>0, <2>1, <2>3, Shorter
  <2>5. /\ debounce'[p] = Head(hotplug).kind /\ Head(hotplug).kind # "none"
        /\ \A q \in Port \ {p} : debounce'[q] = debounce[q]
    BY <1>0, <2>1, <2>2, <2>3 DEF Message
  <2>6. PortTrue(p)'
    BY <2>1, <2>4, <2>5 DEF PortTrue
  <2>7. ASSUME NEW q \in Port \ {p}
        PROVE  PortTrue(q)'
    BY <1>0, <2>1, <2>4, <2>5, <2>7 DEF PortTrue
  <2>8. Phases'
    BY <1>0, <2>1 DEF Phases
  <2> QED
    BY <2>4, <2>6, <2>7, <2>8 DEF RegistryInv
<1>6. ASSUME NEW ready \in SUBSET Port, DebounceFires(ready)
      PROVE  RegistryInv'
  <2>1. /\ fired = {} /\ worker = "running" /\ UNCHANGED <<worker, present, hotplug, devices>>
        /\ \A p \in ready : debounce[p] # "none"
        /\ fired' = {[port |-> p, kind |-> debounce[p]] : p \in ready}
        /\ debounce' = [p \in Port |-> IF p \in ready THEN "none" ELSE debounce[p]]
    BY <1>6 DEF DebounceFires, InLoop, plugVars, managerVars
  <2>2. \A q \in Port : Told(q)' <=> Told(q)
    BY <2>1 DEF Told
  <2>3. ListTrue'
    BY <1>0, <2>1 DEF ListTrue, Last
  <2>4. \A e \in fired' : e.port \in ready /\ e.kind = debounce[e.port] /\ e.kind \in {"Arrived", "Left"}
    BY <1>0, <2>1
  <2>5. Phases'
    <3>1. \A e, f \in fired' : e.port = f.port => e = f
      BY <2>1
    <3> QED
      BY <1>0, <2>1, <2>4, <3>1 DEF Phases
  <2>6. ASSUME NEW q \in ready
        PROVE  PortTrue(q)'
    <3>1. debounce'[q] = "none" /\ [port |-> q, kind |-> debounce[q]] \in fired'
      BY <2>1, <2>6
    <3>2. ~(\A e \in fired' : e.port # q)
      BY <3>1
    <3>3. ~Told(q) => (debounce[q] = "Arrived" <=> q \in present)
      BY <1>0, <2>1, <2>6 DEF PortTrue
    <3> QED
      BY <2>1, <2>2, <2>4, <3>1, <3>2, <3>3 DEF PortTrue
  <2>7. ASSUME NEW q \in Port \ ready
        PROVE  PortTrue(q)'
    <3>1. debounce'[q] = debounce[q] /\ \A e \in fired' : e.port # q
      BY <2>1, <2>4, <2>7
    <3> QED
      BY <1>0, <2>1, <2>2, <2>7, <3>1 DEF PortTrue
  <2> QED
    BY <2>3, <2>5, <2>6, <2>7 DEF RegistryInv
<1>7. CASE StartLoop \/ HandleShutdown
  <2>1. /\ UNCHANGED <<present, hotplug, debounce, fired, devices>> /\ fired = {} /\ worker' # "starting"
    BY <1>7 DEF StartLoop, HandleShutdown, InLoop, plugVars, managerVars
  <2>2. ListTrue' /\ Phases'
    BY <1>0, <2>1 DEF ListTrue, Last, Phases
  <2>3. \A q \in Port : PortTrue(q)'
    BY <1>0, <2>1 DEF PortTrue, Told
  <2> QED
    BY <2>2, <2>3 DEF RegistryInv
<1>8. CASE Still
  <2>1. ListTrue' /\ Phases'
    BY <1>0, <1>8 DEF Still, ListTrue, Last, Phases
  <2>2. \A q \in Port : PortTrue(q)'
    BY <1>0, <1>8 DEF Still, PortTrue, Told
  <2> QED
    BY <2>1, <2>2 DEF RegistryInv
<1> QED
  BY <1>1, <1>2, <1>3, <1>4, <1>5, <1>6, <1>7, <1>8, StillSteps DEF Next, Bus, UsbThread, HandleCommand

-----------------------------------------------------------------------------
(* The theorem *)

\* Whenever the USB thread has worked off what libusb told it, the registry
\* holds the shareable devices that are plugged in (enumerate_devices, the
\* debounced callbacks), however many ports there are and however fast devices
\* come and go.
THEOREM RegistryMatches == Spec => []QuietRegistryMatches
<1>1. Init => RegistryInv
  <2> SUFFICES ASSUME Init
               PROVE  RegistryInv
    OBVIOUS
  <2>1. DOMAIN <<>> = {}
    OBVIOUS
  <2>2. ListTrue /\ \A p \in Port : ~Told(p)
    BY <2>1 DEF Init, ListTrue, Told
  <2>3. /\ \A e \in fired : e.port \in present /\ e.port \in Port /\ e.kind = "Found"
        /\ \A p \in present : [port |-> p, kind |-> "Found"] \in fired /\ [port |-> p, kind |-> "Found"].port = p
        /\ worker = "starting" /\ debounce = [p \in Port |-> "none"] /\ devices = [p \in Port |-> NoDevice]
        /\ \A e, f \in fired : e.port = f.port => e = f
    BY DEF Init, ManagerInit
  <2>4. Phases
    BY <2>3 DEF Phases
  <2>5. ASSUME NEW p \in Port
        PROVE  PortTrue(p)
    BY <2>3 DEF PortTrue
  <2> QED
    BY <2>2, <2>4, <2>5 DEF RegistryInv
<1>2. UsbInv /\ RegistryInv /\ [Next]_vars => RegistryInv'
  BY RegistryStep
<1>3. UsbInv /\ RegistryInv => QuietRegistryMatches
  <2> SUFFICES ASSUME RegistryInv, InLoop, hotplug = <<>>, NEW p \in Port, debounce[p] = "none"
               PROVE  devices[p] # NoDevice <=> p \in present \cap Shareable
    BY DEF QuietRegistryMatches
  <2>1. ~Told(p)
    <3>1. DOMAIN <<>> = {}
      OBVIOUS
    <3> QED
      BY <3>1 DEF Told
  <2> QED
    BY <2>1 DEF RegistryInv, PortTrue, InLoop
<1> QED
  BY <1>1, <1>2, <1>3, UsbConsistent, PTL DEF Spec

===============================================================================
