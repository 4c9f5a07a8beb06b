------------------------------ MODULE ClientApp ------------------------------
(***************************************************************************)
(* The client's terminal interface as a state machine: App                  *)
(* (crates/client/src/tui/app.rs), the keys of EventHandler                 *)
(* (crates/client/src/tui/events.rs), and TuiRunner with the tasks it       *)
(* spawns and the messages they send back (crates/client/src/tui/mod.rs).   *)
(*                                                                          *)
(* What is drawn, the toasts, the status line and the health figures are    *)
(* left out. Device ids are never used again by a server. Ctrl-C is not an  *)
(* action: its AppAction::Quit is taken for one the caller handles, and     *)
(* nobody sets should_quit.                                                 *)
(***************************************************************************)
EXTENDS Integers, Sequences, SequencesExt, FiniteSets, Bags

CONSTANTS
  Configured,   \* servers of the configuration, a sequence
  Typed,        \* servers the user may add
  Gear,         \* device ids
  MaxHandle,    \* handles a server gives (bound)
  MaxJobs,      \* spawned tasks and their messages at a time (bound)
  MaxNotices    \* device notifications on their way at a time (bound)

Servers == Range(Configured) \cup Typed

\* A server is configured once: add_server passes over one that is known.
ASSUME AppAssumption ==
  /\ Configured \in Seq(Range(Configured)) /\ IsInjective(Configured)
  /\ IsFiniteSet(Typed)
  /\ MaxHandle \in Nat

NoHandle == 0
Handles == 1..MaxHandle

VARIABLES
  plugged,    \* per server: the devices it lists
  gone,       \* per server: the devices that have left
  vusb,       \* virtual devices: [server, id, handle]
  lastHandle, \* the last handle given
  jobs,       \* spawned tasks: a bag, since the user may start two alike
  messages,   \* message_rx
  notices,    \* device notifications on their way
  order,      \* server_order
  status,     \* ServerInfo.status of the servers known
  listed,     \* devices, per server: a sequence of [id, status, handle]
  count,      \* ServerInfo.device_count
  pane, chosen, chosenGear,   \* active_pane, selected_server, selected_device
  mode,       \* input_mode and the overlays
  quit        \* should_quit

appVars == <<plugged, gone, vusb, lastHandle, jobs, messages, notices, order, status,
             listed, count, pane, chosen, chosenGear, mode, quit>>
worldVars == <<plugged, gone, notices>>
usbVars == <<vusb, lastHandle>>
screenVars == <<pane, chosen, chosenGear, mode, quit>>
listVars == <<order, status, listed, count>>

AppInit ==
  /\ plugged = [s \in Servers |-> {}] /\ gone = [s \in Servers |-> {}]
  /\ vusb = {} /\ lastHandle = 0
  /\ jobs = EmptyBag /\ messages = <<>> /\ notices = <<>>
  /\ order = Configured
  /\ status = [s \in Servers |-> IF s \in Range(Configured) THEN "Disconnected" ELSE "Unknown"]
  /\ listed = [s \in Servers |-> <<>>] /\ count = [s \in Servers |-> 0]
  /\ pane = "Servers" /\ chosen = 0 /\ chosenGear = [s \in Servers |-> 0]
  /\ mode = "Normal" /\ quit = FALSE

Spawned(job) ==
  /\ BagCardinality(jobs) + Len(messages) < MaxJobs
  /\ jobs' = jobs (+) SetToBag({job})

Shown(s, d) == d \in {listed[s][i].id : i \in DOMAIN listed[s]}

\* update_device_status: the entry of a device that is shown.
WithStatus(devices, d, st, h) ==
  [i \in DOMAIN devices |->
     IF devices[i].id = d THEN [devices[i] EXCEPT !.status = st, !.handle = h] ELSE devices[i]]

(***************************** the servers *********************************)

NoticeRoom == Len(notices) < MaxNotices

Plugs(s, d) ==
  /\ d \notin plugged[s] \cup gone[s] /\ NoticeRoom
  /\ plugged' = [plugged EXCEPT ![s] = @ \cup {d}]
  /\ notices' = Append(notices, [kind |-> "Arrived", server |-> s, id |-> d])
  /\ UNCHANGED <<gone, usbVars, jobs, messages, listVars, screenVars>>

Unplugs(s, d) ==
  /\ d \in plugged[s] /\ NoticeRoom
  /\ plugged' = [plugged EXCEPT ![s] = @ \ {d}]
  /\ gone' = [gone EXCEPT ![s] = @ \cup {d}]
  /\ notices' = Append(notices, [kind |-> "Removed", server |-> s, id |-> d])
  /\ UNCHANGED <<usbVars, jobs, messages, listVars, screenVars>>

(***************************** keys ****************************************)

InNormalMode == ~quit /\ mode = "Normal"
Untouched == UNCHANGED <<worldVars, usbVars, messages>>
ChosenServer == order[chosen + 1]
HasServer == chosen < Len(order)
ChosenIndex == chosenGear[ChosenServer] + 1
HasGear == HasServer /\ ChosenIndex <= Len(listed[ChosenServer])
ChosenGear == listed[ChosenServer][ChosenIndex]

TogglePane ==
  /\ InNormalMode
  /\ pane' = IF pane = "Servers" THEN "Devices" ELSE "Servers"
  /\ UNCHANGED <<jobs, listVars, chosen, chosenGear, mode, quit>> /\ Untouched

NavigateUp ==
  /\ InNormalMode
  /\ \/ /\ pane = "Servers" /\ chosen > 0
        /\ chosen' = chosen - 1 /\ UNCHANGED chosenGear
     \/ /\ pane = "Devices" /\ HasServer /\ chosenGear[ChosenServer] > 0
        /\ chosenGear' = [chosenGear EXCEPT ![ChosenServer] = @ - 1] /\ UNCHANGED chosen
  /\ UNCHANGED <<jobs, listVars, pane, mode, quit>> /\ Untouched

NavigateDown ==
  /\ InNormalMode
  /\ \/ /\ pane = "Servers" /\ chosen < Len(order) - 1
        /\ chosen' = chosen + 1 /\ UNCHANGED chosenGear
     \/ /\ pane = "Devices" /\ HasServer
        /\ chosenGear[ChosenServer] < Len(listed[ChosenServer]) - 1
        /\ chosenGear' = [chosenGear EXCEPT ![ChosenServer] = @ + 1] /\ UNCHANGED chosen
  /\ UNCHANGED <<jobs, listVars, pane, mode, quit>> /\ Untouched

\* AppAction::ConnectServer, by Enter or 'c'.
ConnectKey ==
  /\ InNormalMode
  /\ HasServer /\ status[ChosenServer] \in {"Disconnected", "Failed"}
  /\ status' = [status EXCEPT ![ChosenServer] = "Connecting"]
  /\ Spawned([do |-> "connect", server |-> ChosenServer])
  /\ UNCHANGED <<order, listed, count, screenVars>> /\ Untouched

\* Enter on a server that is connected goes to its devices.
EnterServer ==
  /\ InNormalMode
  /\ pane = "Servers" /\ HasServer /\ status[ChosenServer] = "Connected"
  /\ pane' = "Devices"
  /\ UNCHANGED <<jobs, listVars, chosen, chosenGear, mode, quit>> /\ Untouched

DisconnectKey ==
  /\ InNormalMode
  /\ pane = "Servers" /\ HasServer /\ status[ChosenServer] = "Connected"
  /\ Spawned([do |-> "disconnect", server |-> ChosenServer])
  /\ UNCHANGED <<listVars, screenVars>> /\ Untouched

RefreshKey ==
  /\ InNormalMode
  /\ HasServer /\ status[ChosenServer] = "Connected"
  /\ Spawned([do |-> "refresh", server |-> ChosenServer])
  /\ UNCHANGED <<listVars, screenVars>> /\ Untouched

\* AppAction::AttachDevice, by Enter or 'a'.
AttachKey ==
  /\ InNormalMode
  /\ pane = "Devices" /\ HasGear /\ ChosenGear.status = "Available"
  /\ listed' = [listed EXCEPT ![ChosenServer] =
                  WithStatus(@, ChosenGear.id, "Attaching", NoHandle)]
  /\ Spawned([do |-> "attach", server |-> ChosenServer, id |-> ChosenGear.id])
  /\ UNCHANGED <<order, status, count, screenVars>> /\ Untouched

\* AppAction::DetachDevice, by Enter or 'd'.
DetachKey ==
  /\ InNormalMode
  /\ pane = "Devices" /\ HasGear /\ ChosenGear.status = "Attached"
  /\ ChosenGear.handle # NoHandle
  /\ listed' = [listed EXCEPT ![ChosenServer] =
                  WithStatus(@, ChosenGear.id, "Detaching", ChosenGear.handle)]
  /\ Spawned([do |-> "detach", server |-> ChosenServer, handle |-> ChosenGear.handle])
  /\ UNCHANGED <<order, status, count, screenVars>> /\ Untouched

\* 'a' in the pane of the servers, '?', 'Q' and 'q': the question which server to
\* add, the help, the QR code and the question whether to quit are one here, since
\* the user knows which one he has opened.
OpensDialog ==
  /\ InNormalMode
  /\ mode' = "Dialog"
  /\ UNCHANGED <<jobs, listVars, pane, chosen, chosenGear, quit>> /\ Untouched

\* confirm_add_server and add_server; what is no server's id, or known, adds none.
ConfirmsServer ==
  /\ ~quit /\ mode = "Dialog" /\ pane = "Servers"
  /\ mode' = "Normal"
  /\ \/ \E s \in Typed : /\ status[s] = "Unknown"
                         /\ order' = Append(order, s)
                         /\ status' = [status EXCEPT ![s] = "Disconnected"]
     \/ UNCHANGED <<order, status>>
  /\ UNCHANGED <<jobs, listed, count, pane, chosen, chosenGear, quit>> /\ Untouched

Cancels ==
  /\ ~quit /\ mode = "Dialog"
  /\ mode' = "Normal"
  /\ UNCHANGED <<jobs, listVars, pane, chosen, chosenGear, quit>> /\ Untouched

ConfirmsQuit ==
  /\ ~quit /\ mode = "Dialog"
  /\ quit' = TRUE
  /\ UNCHANGED <<jobs, listVars, pane, chosen, chosenGear, mode>> /\ Untouched

Key ==
  \/ TogglePane \/ NavigateUp \/ NavigateDown \/ EnterServer
  \/ ConnectKey \/ DisconnectKey \/ RefreshKey \/ AttachKey \/ DetachKey
  \/ OpensDialog \/ ConfirmsServer \/ Cancels \/ ConfirmsQuit

(***************************** spawned tasks *******************************)

Left(job) == jobs (-) SetToBag({job})
Ends(job) == jobs' = Left(job)
Sends(message) == messages' = Append(messages, message)

ConnectTask(job) ==
  /\ job.do = "connect"
  /\ \/ /\ jobs' = Left(job) (+) SetToBag({[do |-> "list", server |-> job.server]})
        /\ Sends([is |-> "ServerConnected", server |-> job.server])
     \/ /\ Ends(job)
        /\ Sends([is |-> "ServerConnectionFailed", server |-> job.server])
  /\ UNCHANGED usbVars

\* The list after a connection, or a refresh; a failure changes no list.
ListTask(job) ==
  /\ job.do \in {"list", "refresh"}
  /\ Ends(job)
  /\ \/ Sends([is |-> "DeviceListReceived", server |-> job.server,
               ids |-> plugged[job.server]])
     \/ UNCHANGED messages
  /\ UNCHANGED usbVars

\* Some of the virtual devices may not come off; the connection goes anyway.
DisconnectTask(job) ==
  /\ job.do = "disconnect"
  /\ Ends(job)
  /\ \E off \in SUBSET {v \in vusb : v.server = job.server} : vusb' = vusb \ off
  /\ \/ Sends([is |-> "ServerDisconnected", server |-> job.server])
     \/ UNCHANGED messages
  /\ UNCHANGED lastHandle

AttachTask(job) ==
  /\ job.do = "attach"
  /\ Ends(job)
  /\ \/ /\ job.id \in plugged[job.server] /\ lastHandle < MaxHandle
        /\ lastHandle' = lastHandle + 1
        /\ vusb' = vusb \cup {[server |-> job.server, id |-> job.id, handle |-> lastHandle + 1]}
        /\ Sends([is |-> "DeviceAttached", server |-> job.server, id |-> job.id,
                  handle |-> lastHandle + 1])
     \/ /\ Sends([is |-> "DeviceAttachFailed", server |-> job.server, id |-> job.id])
        /\ UNCHANGED usbVars

\* A device that cannot be detached is only mentioned in the status line.
DetachTask(job) ==
  /\ job.do = "detach"
  /\ Ends(job)
  /\ \/ \E v \in vusb :
          /\ v.server = job.server /\ v.handle = job.handle
          /\ vusb' = vusb \ {v}
          /\ Sends([is |-> "DeviceDetached", server |-> job.server, handle |-> job.handle])
     \/ UNCHANGED <<vusb, messages>>
  /\ UNCHANGED lastHandle

TaskRuns(job) ==
  /\ \/ ConnectTask(job) \/ ListTask(job) \/ DisconnectTask(job)
     \/ AttachTask(job) \/ DetachTask(job)
  /\ UNCHANGED <<worldVars, listVars, screenVars>>

(***************************** the loop ************************************)

\* update_devices: entries that are known keep their status and their handle.
Listed(s, ids) ==
  LET known(d) == CHOOSE i \in DOMAIN listed[s] : listed[s][i].id = d
  IN {[i \in DOMAIN sorted |->
         IF Shown(s, sorted[i]) THEN listed[s][known(sorted[i])]
         ELSE [id |-> sorted[i], status |-> "Available", handle |-> NoHandle]]
      : sorted \in SetToSeqs(ids)}

\* Mutant: the message of a failed attachment changes no entry.
ShowsFailureOnly(m) == UNCHANGED listed

\* set_device_error: the handle of the entry stays.
ShowsFailure(m) ==
  listed' = [listed EXCEPT ![m.server] =
    [i \in DOMAIN @ |-> IF @[i].id = m.id THEN [@[i] EXCEPT !.status = "Available"] ELSE @[i]]]

\* handle_message
TakesMessage ==
  /\ ~quit /\ messages # <<>>
  /\ messages' = Tail(messages)
  /\ LET m == Head(messages) IN
     \/ /\ m.is = "ServerConnected"
        /\ status' = [status EXCEPT ![m.server] = "Connected"]
        /\ UNCHANGED <<listed, count>>
     \/ /\ m.is = "ServerConnectionFailed"
        /\ status' = [status EXCEPT ![m.server] = "Failed"]
        /\ UNCHANGED <<listed, count>>
     \/ /\ m.is = "ServerDisconnected"
        /\ status' = [status EXCEPT ![m.server] = "Disconnected"]
        /\ UNCHANGED <<listed, count>>
     \/ /\ m.is = "DeviceListReceived"
        /\ \E devices \in Listed(m.server, m.ids) : listed' = [listed EXCEPT ![m.server] = devices]
        /\ count' = [count EXCEPT ![m.server] = Cardinality(m.ids)]
        /\ UNCHANGED status
     \/ /\ m.is = "DeviceAttached"
        /\ listed' = [listed EXCEPT ![m.server] = WithStatus(@, m.id, "Attached", m.handle)]
        /\ UNCHANGED <<status, count>>
     \/ /\ m.is = "DeviceAttachFailed"
        /\ ShowsFailure(m)
        /\ UNCHANGED <<status, count>>
     \/ /\ m.is = "DeviceDetached"
        /\ listed' = [listed EXCEPT ![m.server] =
             [i \in DOMAIN @ |-> IF @[i].handle = m.handle
                                 THEN [@[i] EXCEPT !.status = "Available", !.handle = NoHandle]
                                 ELSE @[i]]]
        /\ UNCHANGED <<status, count>>
  /\ UNCHANGED <<worldVars, usbVars, jobs, order, screenVars>>

\* Mutant: the count of the devices is not brought up to date.
CountAsBefore(s, devices) == count

CountOf(s, devices) == [count EXCEPT ![s] = Len(devices)]

\* retain: the entries but one device's.
Without(devices, d) ==
  LET kept[i \in 0 .. Len(devices)] ==
        IF i = 0 THEN <<>> ELSE IF devices[i].id = d THEN kept[i - 1]
                                ELSE Append(kept[i - 1], devices[i])
  IN kept[Len(devices)]

RemoveDevice(s, d) == Without(listed[s], d)

AddDevice(s, d) ==
  IF Shown(s, d) THEN listed[s]
  ELSE Append(listed[s], [id |-> d, status |-> "Available", handle |-> NoHandle])

\* The chosen index stays where it is.
TakesNotice ==
  /\ ~quit /\ notices # <<>>
  /\ notices' = Tail(notices)
  /\ LET n == Head(notices)
         devices == IF n.kind = "Removed" THEN RemoveDevice(n.server, n.id)
                                          ELSE AddDevice(n.server, n.id)
     IN IF status[n.server] = "Unknown" THEN UNCHANGED <<listed, count>>
        ELSE /\ listed' = [listed EXCEPT ![n.server] = devices]
             /\ count' = CountOf(n.server, devices)
  /\ UNCHANGED <<plugged, gone, usbVars, jobs, messages, order, status, screenVars>>

\* ConnectionStateChanged
LineChanges(s) ==
  /\ ~quit /\ status[s] # "Unknown"
  /\ status' \in {[status EXCEPT ![s] = st] : st \in {"Connected", "Disconnected", "Connecting"}}
  /\ UNCHANGED <<worldVars, usbVars, jobs, messages, order, listed, count, screenVars>>

\* Once the loop has ended, main takes over: its clean-up is in AutoAttach.
AppNext ==
  /\ ~quit
  /\ \/ \E s \in Servers : LineChanges(s) \/ \E d \in Gear : Plugs(s, d) \/ Unplugs(s, d)
     \/ Key \/ TakesMessage \/ TakesNotice
     \/ \E job \in BagToSet(jobs) : TaskRuns(job)

AppSpec == AppInit /\ [][AppNext]_appVars

AttachTaskRuns(s, d) ==
  LET job == [do |-> "attach", server |-> s, id |-> d]
  IN ~quit /\ BagIn(job, jobs) /\ TaskRuns(job)

(***************************** properties **********************************)

\* Every variable has values of its type (App and TuiRunner).
AppTypeOK ==
  /\ plugged \in [Servers -> SUBSET Gear] /\ gone \in [Servers -> SUBSET Gear]
  /\ vusb \subseteq [server : Servers, id : Gear, handle : Handles]
  /\ order \in SeqOf(Servers, Cardinality(Servers))
  /\ status \in [Servers -> {"Unknown", "Disconnected", "Connecting", "Connected", "Failed"}]
  /\ \A s \in Servers :
       listed[s] \in Seq([id : Gear, status : {"Available", "Attaching", "Attached", "Detaching"},
                          handle : Handles \cup {NoHandle}])
  /\ pane \in {"Servers", "Devices"} /\ chosen \in 0..Cardinality(Servers)
  /\ quit \in BOOLEAN

\* The number shown for a server is that of its devices, and no device is shown
\* twice, whatever lists and notices cross each other on their way (update_devices,
\* add_device, remove_device).
ListsAreConsistent ==
  \A s \in Servers :
    /\ count[s] = Len(listed[s])
    /\ \A i, j \in DOMAIN listed[s] : listed[s][i].id = listed[s][j].id => i = j

\* A device never stays "attaching": the task reports its end, and the entry that
\* is still there, through refreshes and reconnections, shows it.
AttachingEnds ==
  \A s \in Servers, d \in Gear :
    (\E i \in DOMAIN listed[s] : listed[s][i].id = d /\ listed[s][i].status = "Attaching")
      ~> (quit \/ ~ \E i \in DOMAIN listed[s] :
                      listed[s][i].id = d /\ listed[s][i].status = "Attaching")

=============================================================================
