------------------------------ MODULE AutoAttach ------------------------------
(***************************************************************************)
(* The client started with --connect or with servers to attach from         *)
(* (crates/client/src/main.rs): which devices of a server it attaches,      *)
(* attaches again and takes away, over one ServerConnection's notices       *)
(* (network/connection.rs), the reconciliation after the pool's monitor has *)
(* connected anew (network/client.rs) and the map of the manager of virtual *)
(* devices (virtual_usb/linux.rs; its ports are in VhciPorts).              *)
(*                                                                          *)
(* A connection that breaks is opened again by its own task: the server     *)
(* has closed what it held, the subscription lives on, and nothing is       *)
(* reconciled.  Only after a disconnect may the monitor set up another      *)
(* connection; it reconciles before it enters it into the pool, and holds   *)
(* no lock meanwhile: the user may connect, attach and leave.  A connection *)
(* that is replaced in the pool runs on, with what the server holds for it. *)
(* Device ids and handles of one run of the server are never used again.    *)
(***************************************************************************)
EXTENDS Integers, Sequences, FiniteSets

CONSTANTS
  Unit,       \* DeviceId
  Grip,       \* DeviceHandle
  NoUnit, NoGrip,
  Wanted,     \* units that match the server's auto_attach filter
  Plural,     \* units the server gives to one client more than once
  FeedCap     \* room of the broadcast channel (64)

ASSUME AutoAssumption ==
  /\ NoUnit \notin Unit /\ NoGrip \notin Grip
  /\ Wanted \subseteq Unit /\ Plural \subseteq Unit
  /\ FeedCap \in Nat \ {0}

VARIABLES
  plugged, gone,  \* units at the server, units that have left it
  granted,    \* the server: handle -> unit, what it holds for the client
  astray,     \* handles among them of connections that were replaced in the pool
  given,      \* handles it has given out
  wire,       \* notices sent to the connection and not read yet
  feed,       \* the subscriber's part of notification_tx
  hears,      \* the subscriber's channel is open
  lane,       \* the pool's connection: "up", "down" or "closed"
  virtual,    \* attached_devices: handle -> unit
  previous,   \* previously_attached
  mainTask,       \* connect_and_run or auto_attach_devices, then handle_notifications
  menu,       \* an attach from the TUI
  recon,      \* perform_reconciliation: pc, server's list, handles to detach
  leave,      \* a detach or disconnect from the TUI: pc, handles to detach
  toDetach,   \* the clean-up at the end: Staying, or handles to detach
  missed,     \* history: handles whose removal the task will not hear of
  unlisted    \* history: handles given out between the server's list for the monitor
              \* and the comparison with it

autoVars == <<plugged, gone, granted, astray, given, wire, feed, hears, lane, virtual,
              previous, mainTask, menu, recon, leave, toDetach, missed, unlisted>>
grants == <<granted, astray, given, unlisted>>
serverSide == <<plugged, gone, grants>>
clientTasks == <<mainTask, menu, recon, leave, toDetach>>

Staying == {NoGrip}
Idle == [pc |-> "idle", unit |-> NoUnit, grip |-> NoGrip]
Arrived(u) == [kind |-> "arrived", unit |-> u, grips |-> {}]
Departed(u, gs) == [kind |-> "removed", unit |-> u, grips |-> gs]
GripsIn(notices) == UNION {notices[i].grips : i \in DOMAIN notices}
GripsOf(u) == {g \in DOMAIN granted : granted[g] = u}
Less(f, S) == [x \in DOMAIN f \ S |-> f[x]]
With(f, x, y) == [z \in DOMAIN f \cup {x} |-> IF z = x THEN y ELSE f[z]]

\* force_detach of a handle that is not attached: its read guard is still held
\* when it asks for the write lock, and keeps everybody from the map for ever.
Jammed == mainTask.pc = "jammed" \/ leave.pc = "jammed"

AutoInit ==
  /\ plugged \in SUBSET Unit /\ gone = {}
  /\ granted = <<>> /\ astray = {} /\ given = {}
  /\ wire = <<>> /\ feed = <<>> /\ hears = FALSE
  /\ lane = "up"
  /\ virtual = <<>> /\ previous = {}
  /\ \E mode \in {"connect", "auto"} :
       mainTask = [mode |-> mode, pc |-> "list", listing |-> TRUE, todo |-> {},
               unit |-> NoUnit, grip |-> NoGrip, grips |-> {}]
  /\ menu = Idle
  /\ recon = [pc |-> "idle", listed |-> {}, todo |-> {}]
  /\ leave = [pc |-> "idle", todo |-> {}]
  /\ toDetach = Staying
  /\ missed = {} /\ unlisted = {}

-----------------------------------------------------------------------------
(* The server, and the connection's tasks *)

\* The handler tells its client, unless another handler has taken the event.
Notify(notice) ==
  \/ lane = "up" /\ wire' = Append(wire, notice) /\ UNCHANGED missed
  \/ missed' = missed \cup notice.grips /\ UNCHANGED wire

PlugIn(u) ==
  /\ u \notin plugged \cup gone
  /\ plugged' = plugged \cup {u}
  /\ Notify(Arrived(u))
  /\ UNCHANGED <<gone, grants, feed, hears, lane, virtual, previous, clientTasks>>

Unplug(u) ==
  /\ u \in plugged
  /\ plugged' = plugged \ {u}
  /\ gone' = gone \cup {u}
  /\ granted' = Less(granted, GripsOf(u))
  /\ Notify(Departed(u, GripsOf(u)))
  /\ UNCHANGED <<astray, given, unlisted, feed, hears, lane, virtual, previous, clientTasks>>

\* spawn_notification_listener and handle_notification: to the subscriber, if
\* there is one; a full channel loses its oldest notice.
ReadNotice ==
  LET room == Len(feed) < FeedCap IN
  /\ lane = "up" /\ wire # <<>>
  /\ wire' = Tail(wire)
  /\ IF ~hears
     THEN missed' = missed \cup Head(wire).grips /\ UNCHANGED feed
     ELSE /\ feed' = Append(IF room THEN feed ELSE Tail(feed), Head(wire))
          /\ missed' = IF room THEN missed ELSE missed \cup Head(feed).grips
  /\ UNCHANGED <<serverSide, hears, lane, virtual, previous, clientTasks>>

\* What the server held for the connection is closed, and what was on its way is
\* lost.
CutOff ==
  LET held == DOMAIN granted \ astray IN
  /\ granted' = Less(granted, held)
  /\ missed' = missed \cup held \cup GripsIn(wire)
  /\ wire' = <<>>
  /\ UNCHANGED <<plugged, gone, astray, given, unlisted>>

Breaks ==
  /\ lane = "up" /\ lane' = "down"
  /\ CutOff
  /\ UNCHANGED <<feed, hears, virtual, previous, clientTasks>>

\* ServerConnection::reconnect
Reopens ==
  /\ lane = "down" /\ lane' = "up"
  /\ UNCHANGED <<serverSide, wire, feed, hears, virtual, previous, clientTasks, missed>>

\* A replaced connection breaks: the server closes what it held for that one.
\* Nobody is subscribed to its notices.
StrayBreaks(g) ==
  /\ g \in astray
  /\ astray' = astray \ {g}
  /\ granted' = Less(granted, {g})
  /\ missed' = missed \cup {g}
  /\ UNCHANGED <<plugged, gone, given, unlisted, wire, feed, hears, lane, virtual, previous,
                 clientTasks>>

-----------------------------------------------------------------------------
(* Attaching: the proxy at the server, then the virtual device *)

Grant(u, g) ==
  /\ lane = "up"
  /\ u \in plugged
  /\ u \in Plural \/ GripsOf(u) = {}
  /\ g \in Grip \ given
  /\ given' = given \cup {g}
  /\ granted' = With(granted, g, u)
  /\ unlisted' = IF recon.pc = "compare" THEN unlisted \cup {g} ELSE unlisted
  /\ UNCHANGED astray

\* list_remote_devices, which may fail, and those that should_auto_attach.
ListDevices ==
  /\ mainTask.pc = "list"
  /\ \E units \in {{}} \cup (IF lane = "up" THEN {plugged} ELSE {}) :
       mainTask' = [mainTask EXCEPT !.pc = "each", !.todo = units \cap Wanted]
  /\ UNCHANGED <<serverSide, wire, feed, hears, lane, virtual, previous, menu,
                 recon, leave, toDetach, missed>>

AttachNext(u) ==
  /\ mainTask.pc = "each" /\ u \in mainTask.todo
  /\ mainTask' = [mainTask EXCEPT !.pc = "attach", !.unit = u, !.todo = @ \ {u}]
  /\ UNCHANGED <<serverSide, wire, feed, hears, lane, virtual, previous, menu,
                 recon, leave, toDetach, missed>>

\* After an attach: the rest of the list, or the next notice.
Onward == [mainTask EXCEPT !.pc = IF mainTask.listing THEN "each" ELSE "listen",
                       !.unit = NoUnit, !.grip = NoGrip]

\* Policy and other clients may make the server refuse any attach.
AttachAtServer ==
  /\ mainTask.pc = "attach"
  /\ \/ \E g \in Grip : /\ Grant(mainTask.unit, g)
                        /\ mainTask' = [mainTask EXCEPT !.pc = "enter", !.grip = g]
     \/ mainTask' = Onward /\ UNCHANGED grants
  /\ UNCHANGED <<plugged, gone, wire, feed, hears, lane, virtual, previous, menu,
                 recon, leave, toDetach, missed>>

\* The server's device stays attached when there is no port for it; only
\* connect_and_run and handle_notifications remember what they attached.
EnterVirtual ==
  /\ mainTask.pc = "enter"
  /\ mainTask' = Onward
  /\ \/ /\ ~Jammed
        /\ virtual' = With(virtual, mainTask.grip, mainTask.unit)
        /\ previous' = IF mainTask.mode = "auto" THEN previous ELSE previous \cup {mainTask.unit}
     \/ UNCHANGED <<virtual, previous>>
  /\ UNCHANGED <<serverSide, wire, feed, hears, lane, menu, recon, leave, toDetach, missed>>

\* The end of the list: connect_and_run subscribes to notices from now on,
\* auto_attach_devices to none.
Subscribe ==
  /\ mainTask.pc = "each" /\ mainTask.todo = {}
  /\ mainTask' = [mainTask EXCEPT !.pc = IF mainTask.mode = "auto" THEN "ended" ELSE "listen",
                          !.listing = FALSE]
  /\ hears' = (mainTask.mode # "auto")
  /\ UNCHANGED <<serverSide, wire, feed, lane, virtual, previous, menu,
                 recon, leave, toDetach, missed>>

-----------------------------------------------------------------------------
(* handle_notifications *)

TakeArrived ==
  LET u == Head(feed).unit IN
  /\ mainTask.pc = "listen" /\ feed # <<>> /\ Head(feed).kind = "arrived"
  /\ feed' = Tail(feed)
  /\ mainTask' = IF u \in previous \cup Wanted
             THEN [mainTask EXCEPT !.pc = "attach", !.unit = u] ELSE mainTask
  /\ UNCHANGED <<serverSide, wire, hears, lane, virtual, previous, menu,
                 recon, leave, toDetach, missed>>

TakeRemoved ==
  LET notice == Head(feed) IN
  /\ mainTask.pc = "listen" /\ feed # <<>> /\ notice.kind = "removed"
  /\ feed' = Tail(feed)
  /\ previous' = IF notice.grips = {} THEN previous ELSE previous \cup {notice.unit}
  /\ mainTask' = [mainTask EXCEPT !.pc = "remove", !.grips = notice.grips]
  /\ UNCHANGED <<serverSide, wire, hears, lane, virtual, menu, recon, leave, toDetach, missed>>

\* handle_device_removed: force_detach of every handle, which looks for it and
\* lets the map go before the removal.  At one that the client has not entered,
\* not yet or not any more, it waits for itself.
ForceDetach(g) ==
  /\ mainTask.pc = "remove" /\ g \in mainTask.grips
  /\ ~Jammed
  /\ mainTask' = IF g \in DOMAIN virtual
                 THEN [mainTask EXCEPT !.pc = "forget", !.grip = g]
                 ELSE [mainTask EXCEPT !.pc = "jammed"]
  /\ UNCHANGED <<serverSide, wire, feed, hears, lane, virtual, previous, menu,
                 recon, leave, toDetach, missed>>

\* Mutant: one handle is enough.
ForgetOne ==
  /\ mainTask.pc = "forget"
  /\ ~Jammed
  /\ virtual' = Less(virtual, {mainTask.grip})
  /\ mainTask' = [mainTask EXCEPT !.pc = "remove", !.grip = NoGrip, !.grips = {}]
  /\ UNCHANGED <<serverSide, wire, feed, hears, lane, previous, menu,
                 recon, leave, toDetach, missed>>

Forget ==
  /\ mainTask.pc = "forget"
  /\ ~Jammed
  /\ virtual' = Less(virtual, {mainTask.grip})
  /\ mainTask' = [mainTask EXCEPT !.pc = "remove", !.grip = NoGrip,
                                 !.grips = @ \ {mainTask.grip}]
  /\ UNCHANGED <<serverSide, wire, feed, hears, lane, previous, menu,
                 recon, leave, toDetach, missed>>

RemovalEnds ==
  /\ mainTask.pc = "remove" /\ mainTask.grips = {}
  /\ mainTask' = [mainTask EXCEPT !.pc = "listen"]
  /\ UNCHANGED <<serverSide, wire, feed, hears, lane, virtual, previous, menu,
                 recon, leave, toDetach, missed>>

ChannelCloses ==
  /\ mainTask.pc = "listen" /\ feed = <<>> /\ ~hears
  /\ mainTask' = [mainTask EXCEPT !.pc = "ended"]
  /\ UNCHANGED <<serverSide, wire, feed, hears, lane, virtual, previous, menu,
                 recon, leave, toDetach, missed>>

-----------------------------------------------------------------------------
(* The end: Ctrl-C of a headless client, or the end of the TUI *)

\* get_all_attached_devices
CleanUpBegins ==
  /\ ~mainTask.listing
  /\ toDetach = Staying
  /\ ~Jammed
  /\ toDetach' = DOMAIN virtual
  /\ UNCHANGED <<serverSide, wire, feed, hears, lane, virtual, previous, mainTask, menu,
                 recon, leave, missed>>

\* detach_device tells the server, if there is a connection to it; for a device
\* that is not attached it does nothing.  VhciPorts says when the kernel refuses.
Detaches(g) ==
  /\ ~Jammed
  /\ virtual' = Less(virtual, {g})
  /\ granted' = IF lane = "up" /\ g \in DOMAIN virtual
                THEN Less(granted, {g}) ELSE granted

CleanUpDetaches(g) ==
  /\ g \in toDetach
  /\ toDetach' = toDetach \ {g}
  /\ Detaches(g)
  /\ UNCHANGED <<plugged, gone, astray, given, wire, feed, hears, lane, previous, mainTask, menu,
                 recon, leave, missed, unlisted>>

\* disconnect_from_server
Closes ==
  /\ lane # "closed"
  /\ lane' = "closed"
  /\ hears' = FALSE
  /\ CutOff

CleanUpDisconnects ==
  /\ toDetach = {}
  /\ Closes
  /\ UNCHANGED <<feed, virtual, previous, clientTasks>>

-----------------------------------------------------------------------------
(* The user of the TUI *)

\* With --headless there is no menu, and nobody at it.
AtMenu == ~mainTask.listing /\ toDetach = Staying

\* connect_to_server: nothing but the pool is asked.  Two connects that overlap
\* are ClientPool's.
UserConnects ==
  /\ AtMenu
  /\ lane = "closed" /\ lane' = "up"
  /\ UNCHANGED <<serverSide, wire, feed, hears, virtual, previous, clientTasks, missed>>

UserAttaches(u, g) ==
  /\ AtMenu /\ menu.pc = "idle"
  /\ Grant(u, g)
  /\ menu' = [pc |-> "enter", unit |-> u, grip |-> g]
  /\ UNCHANGED <<plugged, gone, wire, feed, hears, lane, virtual, previous, mainTask,
                 recon, leave, toDetach, missed>>

UserEnters ==
  /\ menu.pc = "enter"
  /\ menu' = Idle
  /\ \/ ~Jammed /\ virtual' = With(virtual, menu.grip, menu.unit)
     \/ UNCHANGED virtual
  /\ UNCHANGED <<serverSide, wire, feed, hears, lane, previous, mainTask,
                 recon, leave, toDetach, missed>>

\* One device, or all and then the connection: what is attached now.
UserLeaves ==
  /\ AtMenu /\ leave.pc = "idle"
  /\ ~Jammed
  /\ \/ leave' = [leave EXCEPT !.pc = "disconnect", !.todo = DOMAIN virtual]
     \/ \E g \in DOMAIN virtual : leave' = [leave EXCEPT !.pc = "detach", !.todo = {g}]
  /\ UNCHANGED <<serverSide, wire, feed, hears, lane, virtual, previous, mainTask, menu,
                 recon, toDetach, missed>>

\* detach_device for one ...
UserDetaches(g) ==
  /\ leave.pc = "detach" /\ g \in leave.todo
  /\ leave' = [leave EXCEPT !.todo = @ \ {g}]
  /\ Detaches(g)
  /\ UNCHANGED <<plugged, gone, astray, given, wire, feed, hears, lane, previous, mainTask, menu,
                 recon, toDetach, missed, unlisted>>

\* ... and force_detach, which does not tell the server, for all.  Its two steps
\* are one here: they overlap with those of the other tasks in ForceDetach.
UserForceDetaches(g) ==
  /\ leave.pc = "disconnect" /\ g \in leave.todo
  /\ ~Jammed
  /\ IF g \in DOMAIN virtual
     THEN leave' = [leave EXCEPT !.todo = @ \ {g}] /\ virtual' = Less(virtual, {g})
     ELSE leave' = [leave EXCEPT !.pc = "jammed"] /\ UNCHANGED virtual
  /\ UNCHANGED <<serverSide, wire, feed, hears, lane, previous, mainTask, menu,
                 recon, toDetach, missed>>

UserHasLeft ==
  /\ leave.pc \in {"detach", "disconnect"} /\ leave.todo = {}
  /\ leave' = [leave EXCEPT !.pc = "idle"]
  /\ IF leave.pc = "disconnect" /\ lane # "closed"
     THEN Closes
     ELSE UNCHANGED <<serverSide, wire, hears, lane, missed>>
  /\ UNCHANGED <<feed, virtual, previous, mainTask, menu, recon, toDetach>>

-----------------------------------------------------------------------------
(* The monitor *)

\* The server is a target again and the pool has no connection to it.
MonitorConnects ==
  /\ lane = "closed" /\ recon.pc = "idle"
  /\ recon' = [recon EXCEPT !.pc = "list"]
  /\ UNCHANGED <<serverSide, wire, feed, hears, lane, virtual, previous, mainTask, menu,
                 leave, toDetach, missed>>

\* Mutant: a list that could not be read is taken for an empty one.
ReconListOrNone ==
  /\ recon.pc = "list"
  /\ \E units \in {plugged, {}} : recon' = [recon EXCEPT !.pc = "compare", !.listed = units]
  /\ UNCHANGED <<serverSide, wire, feed, hears, lane, virtual, previous, mainTask, menu,
                 leave, toDetach, missed>>

\* list_devices; without its answer nothing is reconciled.
ReconList ==
  /\ recon.pc = "list"
  /\ recon' = [recon EXCEPT !.pc = "compare", !.listed = plugged]
     \/ recon' = [recon EXCEPT !.pc = "detach"]
  /\ UNCHANGED <<serverSide, wire, feed, hears, lane, virtual, previous, mainTask, menu,
                 leave, toDetach, missed>>

\* reconcile_devices with get_attached_device_info: ids alone are compared.
ReconCompare ==
  /\ recon.pc = "compare"
  /\ ~Jammed
  /\ recon' = [pc |-> "detach", listed |-> {},
               todo |-> {g \in DOMAIN virtual : virtual[g] \notin recon.listed}]
  /\ UNCHANGED <<serverSide, wire, feed, hears, lane, virtual, previous, mainTask, menu,
                 leave, toDetach, missed>>

\* The server is told if the user has connected meanwhile: this connection is not
\* in the pool yet.
ReconDetach(g) ==
  /\ recon.pc = "detach" /\ g \in recon.todo
  /\ recon' = [recon EXCEPT !.todo = @ \ {g}]
  /\ Detaches(g)
  /\ UNCHANGED <<plugged, gone, astray, given, wire, feed, hears, lane, previous, mainTask, menu,
                 leave, toDetach, missed, unlisted>>

\* HashMap::insert: the user's connection, if there is one, leaves the pool
\* without being closed.
MonitorEnters ==
  /\ recon.pc = "detach" /\ recon.todo = {}
  /\ recon' = [recon EXCEPT !.pc = "idle"]
  /\ lane' = "up"
  /\ astray' = DOMAIN granted
  /\ unlisted' = {}
  /\ UNCHANGED <<plugged, gone, granted, given, wire, feed, hears, virtual, previous,
                 mainTask, menu, leave, toDetach, missed>>

MainStep ==
  \/ ListDevices \/ (\E u \in Unit : AttachNext(u)) \/ AttachAtServer \/ EnterVirtual
  \/ Subscribe \/ TakeArrived \/ TakeRemoved \/ ChannelCloses
  \/ (\E g \in Grip : ForceDetach(g)) \/ Forget \/ RemovalEnds

AutoNext ==
  \/ \E u \in Unit : PlugIn(u) \/ Unplug(u)
  \/ ReadNotice \/ Breaks \/ Reopens \/ (\E g \in Grip : StrayBreaks(g))
  \/ MainStep
  \/ CleanUpBegins \/ (\E g \in Grip : CleanUpDetaches(g)) \/ CleanUpDisconnects
  \/ UserConnects \/ UserLeaves \/ UserHasLeft
  \/ \E g \in Grip : UserDetaches(g) \/ UserForceDetaches(g)
  \/ \E u \in Unit, g \in Grip : UserAttaches(u, g)
  \/ UserEnters
  \/ MonitorConnects \/ ReconList \/ ReconCompare \/ MonitorEnters
  \/ \E g \in Grip : ReconDetach(g)

AutoSpec == AutoInit /\ [][AutoNext]_autoVars

-----------------------------------------------------------------------------
(* Properties *)

Notice == [kind : {"arrived", "removed"}, unit : Unit, grips : SUBSET Grip]

MainTask == [mode : {"connect", "auto"},
             pc : {"list", "each", "attach", "enter", "listen", "remove", "forget", "jammed", "ended"},
             listing : BOOLEAN, todo : SUBSET Unit, unit : Unit \cup {NoUnit},
             grip : Grip \cup {NoGrip}, grips : SUBSET Grip]
Menu == [pc : {"idle", "enter"}, unit : Unit \cup {NoUnit}, grip : Grip \cup {NoGrip}]
Reconciliation == [pc : {"idle", "list", "compare", "detach"}, listed : SUBSET Unit,
                   todo : SUBSET Grip]
Leaving == [pc : {"idle", "detach", "disconnect", "jammed"}, todo : SUBSET Grip]

\* The type invariant.
AutoTypeOK ==
  /\ plugged \subseteq Unit /\ gone \subseteq Unit \ plugged
  /\ DOMAIN granted \subseteq given /\ \A g \in DOMAIN granted : granted[g] \in plugged
  /\ given \subseteq Grip
  /\ wire \in Seq(Notice) /\ feed \in Seq(Notice) /\ Len(feed) <= FeedCap
  /\ hears \in BOOLEAN /\ lane \in {"up", "down", "closed"}
  /\ DOMAIN virtual \subseteq given /\ \A g \in DOMAIN virtual : virtual[g] \in Unit
  /\ previous \subseteq Unit
  /\ mainTask \in MainTask /\ menu \in Menu /\ recon \in Reconciliation /\ leave \in Leaving
  /\ toDetach = Staying \/ toDetach \subseteq Grip
  /\ astray \subseteq Grip /\ missed \subseteq Grip /\ unlisted \subseteq Grip

\* A virtual device whose handle is dead is one whose removal is still to be
\* handled, or whose removal no notice told in time: before the subscription,
\* over a broken or closed connection, out of a full channel, or to another
\* handler (handle_notifications, handle_device_removed).
StaleIsExplained ==
  \A g \in DOMAIN virtual :
    \/ g \in DOMAIN granted
    \/ g \in GripsIn(wire) \cup GripsIn(feed) \cup mainTask.grips
    \/ g \in missed

\* A virtual device is taken away when its device has left the server, or when
\* the user has asked for it, and then only what was attached at that time: no
\* notice, and no list of the server that is compared with what is attached
\* later, takes another one (handle_device_removed, reconcile_devices).  One case
\* is left open, and ReconciledHasLeft is about it: what the server has given to
\* the user between its list for the monitor and the comparison with that list.
NothingTakenInVain ==
  [][\A g \in DOMAIN virtual \ DOMAIN virtual' :
       \/ virtual[g] \in gone
       \/ g \in leave.todo \cup toDetach
       \/ g \in recon.todo \cap unlisted]_autoVars

\* "Detaches any local devices that no longer exist on the server" (main.rs:691),
\* and no others: what the reconciliation takes away has left the server.
ReconciledHasLeft ==
  [][\A g \in (DOMAIN virtual \ DOMAIN virtual') \cap (recon.todo \ recon'.todo) :
       virtual[g] \in gone]_autoVars

===============================================================================
