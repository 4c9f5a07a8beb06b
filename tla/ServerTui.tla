------------------------------- MODULE ServerTui -------------------------------
(***************************************************************************)
(* The server's terminal interface (crates/server/src/tui/app.rs and        *)
(* events.rs): its list of devices, the selected line, the dialogs and the  *)
(* reset of a device, over the USB thread's answers and the channel of USB  *)
(* events that it shares with the handlers of the connections.              *)
(*                                                                          *)
(* The loop does one thing at a time: while it awaits the USB thread it     *)
(* takes no key and no event.  Nobody sends network events to it, so the    *)
(* clients it would show are left out.  Device ids and handles are the      *)
(* numbers the USB thread counts up, each kind on its own.                  *)
(***************************************************************************)
EXTENDS Integers, Sequences, FiniteSets

CONSTANTS
  MaxRow,      \* bound of the runs: devices ever plugged in
  MaxKey,      \* bound of the runs: handles ever given out
  EventRoom,   \* room of the event channel (256)
  AutoShare    \* the configuration's auto_share

ASSUME TuiAssumption ==
  /\ MaxRow \in Nat /\ MaxKey \in Nat
  /\ EventRoom \in Nat \ {0}
  /\ AutoShare \in BOOLEAN

VARIABLES
  onBus,       \* the USB thread's registered devices
  rows, keys,  \* how many device ids and handles it has given out
  opened,      \* its attached: handle -> device
  events,      \* the channel of UsbEvents
  shared,      \* devices: id -> sharing flag
  order,       \* device_order
  selected,    \* selected_index
  dialog,      \* "none", "reset" (ConfirmReset) or "other"
  uiLoop,        \* what the main loop does, and the device or devices it is about
  stolen,      \* history: events other receivers took since the last answer
  hit          \* history: the device of the last reset and the one that was reset

tuiVars == <<onBus, rows, keys, opened, events, shared, order, selected, dialog,
             uiLoop, stolen, hit>>
usbThread == <<onBus, rows, keys, opened>>

NoRow == 0
Came(r) == [kind |-> "arrived", row |-> r]
Went(r) == [kind |-> "left", row |-> r]
Listed == DOMAIN shared
Lines(seq) == {seq[i] : i \in DOMAIN seq}
Doing(pc, row, answer) == [pc |-> pc, row |-> row, answer |-> answer]
Selecting == Doing("select", NoRow, {})

\* run asks for the list before its loop.
TuiInit ==
  /\ onBus = {} /\ rows = 0 /\ keys = 0 /\ opened = <<>>
  /\ events = <<>>
  /\ shared = <<>> /\ order = <<>> /\ selected = 0
  /\ dialog = "none"
  /\ uiLoop = Doing("list", NoRow, {})
  /\ stolen = {}
  /\ hit = [asked |-> NoRow, done |-> NoRow]

-----------------------------------------------------------------------------
(* The USB thread, the clients, and the handlers that share the channel *)

RowArrives ==
  /\ rows < MaxRow /\ Len(events) < EventRoom
  /\ rows' = rows + 1
  /\ onBus' = onBus \cup {rows'}
  /\ events' = Append(events, Came(rows'))
  /\ UNCHANGED <<keys, opened, shared, order, selected, dialog, uiLoop, stolen, hit>>

RowLeaves(r) ==
  /\ r \in onBus /\ Len(events) < EventRoom
  /\ onBus' = onBus \ {r}
  /\ opened' = [k \in {k \in DOMAIN opened : opened[k] # r} |-> opened[k]]
  /\ events' = Append(events, Went(r))
  /\ UNCHANGED <<rows, keys, shared, order, selected, dialog, uiLoop, stolen, hit>>

ClientOpens(r) ==
  /\ r \in onBus /\ keys < MaxKey
  /\ keys' = keys + 1
  /\ opened' = [k \in DOMAIN opened \cup {keys'} |-> IF k = keys' THEN r ELSE opened[k]]
  /\ UNCHANGED <<onBus, rows, events, shared, order, selected, dialog, uiLoop, stolen, hit>>

ClientCloses(k) ==
  /\ k \in DOMAIN opened
  /\ opened' = [x \in DOMAIN opened \ {k} |-> opened[x]]
  /\ UNCHANGED <<onBus, rows, keys, events, shared, order, selected, dialog, uiLoop, stolen, hit>>

HandlerTakes ==
  /\ events # <<>>
  /\ stolen' = stolen \cup {Head(events)}
  /\ events' = Tail(events)
  /\ UNCHANGED <<usbThread, shared, order, selected, dialog, uiLoop, hit>>

-----------------------------------------------------------------------------
(* refresh_devices and reset_selected_device *)

UsbLists ==
  /\ uiLoop.pc = "list"
  /\ \E seq \in [1 .. Cardinality(onBus) -> onBus] :
       /\ Lines(seq) = onBus
       /\ uiLoop' = Doing("refresh", NoRow, seq)
  /\ stolen' = {}
  /\ UNCHANGED <<usbThread, events, shared, order, selected, dialog, hit>>

Clamp(i, seq) == IF seq # <<>> /\ i >= Len(seq) THEN Len(seq) - 1 ELSE i
Flag(r) == IF r \in Listed THEN shared[r] ELSE AutoShare

\* Mutant: what is listed already stays.
RefreshAdds ==
  /\ uiLoop.pc = "refresh"
  /\ shared' = [r \in Lines(uiLoop.answer) \cup Listed |-> Flag(r)]
  /\ order' = order \o SelectSeq(uiLoop.answer, LAMBDA r : r \notin Listed)
  /\ selected' = Clamp(selected, order')
  /\ uiLoop' = Selecting
  /\ UNCHANGED <<usbThread, events, dialog, stolen, hit>>

\* The answer replaces the list; flags of devices that stay are kept.
Refresh ==
  /\ uiLoop.pc = "refresh"
  /\ shared' = [r \in Lines(uiLoop.answer) |-> Flag(r)]
  /\ order' = uiLoop.answer
  /\ selected' = Clamp(selected, uiLoop.answer)
  /\ uiLoop' = Selecting
  /\ UNCHANGED <<usbThread, events, dialog, stolen, hit>>

\* The device's id is sent as a handle.
UsbResets ==
  /\ uiLoop.pc = "reset"
  /\ hit' = [asked |-> uiLoop.row,
             done |-> IF uiLoop.row \in DOMAIN opened THEN opened[uiLoop.row] ELSE NoRow]
  /\ uiLoop' = Selecting
  /\ UNCHANGED <<usbThread, events, shared, order, selected, dialog, stolen>>

-----------------------------------------------------------------------------
(* handle_usb_event *)

TakeCame ==
  LET r == Head(events).row IN
  /\ uiLoop.pc = "select" /\ events # <<>> /\ Head(events).kind = "arrived"
  /\ events' = Tail(events)
  /\ shared' = [x \in Listed \cup {r} |-> IF x = r THEN AutoShare ELSE shared[x]]
  /\ order' = IF r \in Lines(order) THEN order ELSE Append(order, r)
  /\ UNCHANGED <<usbThread, selected, dialog, uiLoop, stolen, hit>>

\* retain: the lines but one device's.
Retained(seq, r) ==
  LET kept[i \in 0 .. Len(seq)] ==
        IF i = 0 THEN <<>> ELSE IF seq[i] = r THEN kept[i - 1] ELSE Append(kept[i - 1], seq[i])
  IN kept[Len(seq)]

TakeWent ==
  LET r == Head(events).row IN
  /\ uiLoop.pc = "select" /\ events # <<>> /\ Head(events).kind = "left"
  /\ events' = Tail(events)
  /\ shared' = [x \in Listed \ {r} |-> shared[x]]
  /\ order' = Retained(order, r)
  /\ selected' = Clamp(selected, order')
  /\ UNCHANGED <<usbThread, dialog, uiLoop, stolen, hit>>

-----------------------------------------------------------------------------
(* handle_action, one disjunct per key that does something *)

HasSelected == selected < Len(order)
SelectedRow == order[selected + 1]

Move ==
  /\ dialog = "none" /\ order # <<>>
  /\ \/ selected > 0 /\ selected' = selected - 1
     \/ selected < Len(order) - 1 /\ selected' = selected + 1
  /\ UNCHANGED <<shared, dialog, uiLoop>>

Toggle ==
  /\ dialog = "none" /\ HasSelected
  /\ shared' = [shared EXCEPT ![SelectedRow] = ~@]
  /\ UNCHANGED <<selected, dialog, uiLoop>>

\* Details, clients and the QR code open over no dialog, help over any.
OpenDialog ==
  /\ dialog' \in {"other"} \cup (IF dialog = "none" /\ HasSelected THEN {"reset"} ELSE {})
  /\ UNCHANGED <<shared, selected, uiLoop>>

\* Quit and CloseDialog.
CloseDialog ==
  /\ dialog' = "none"
  /\ uiLoop' = IF dialog = "none" THEN Doing("quit", NoRow, {}) ELSE uiLoop
  /\ UNCHANGED <<shared, selected>>

\* The next turn of the loop resets what is selected, if anything is.
Confirm ==
  /\ dialog = "reset"
  /\ dialog' = "none"
  /\ uiLoop' = IF HasSelected THEN Doing("reset", SelectedRow, {}) ELSE uiLoop
  /\ UNCHANGED <<shared, selected>>

AskList ==
  /\ uiLoop' = Doing("list", NoRow, {})
  /\ UNCHANGED <<shared, selected, dialog>>

TakeKey ==
  /\ uiLoop.pc = "select"
  /\ Move \/ Toggle \/ OpenDialog \/ CloseDialog \/ Confirm \/ AskList
  /\ UNCHANGED <<usbThread, events, order, stolen, hit>>

TuiNext ==
  \/ RowArrives \/ (\E r \in onBus : RowLeaves(r) \/ ClientOpens(r))
  \/ \E k \in DOMAIN opened : ClientCloses(k)
  \/ HandlerTakes
  \/ UsbLists \/ Refresh \/ UsbResets
  \/ TakeCame \/ TakeWent \/ TakeKey

TuiSpec == TuiInit /\ [][TuiNext]_tuiVars

-----------------------------------------------------------------------------
(* Properties *)

\* The type invariant.
TuiTypeOK ==
  /\ onBus \subseteq 1 .. rows /\ rows \in 0 .. MaxRow /\ keys \in 0 .. MaxKey
  /\ DOMAIN opened \subseteq 1 .. keys /\ \A k \in DOMAIN opened : opened[k] \in onBus
  /\ Len(events) <= EventRoom
  /\ Listed \subseteq 1 .. rows /\ \A r \in Listed : shared[r] \in BOOLEAN
  /\ selected \in 0 .. MaxRow
  /\ dialog \in {"none", "reset", "other"}
  /\ uiLoop.pc \in {"list", "refresh", "reset", "select", "quit"}

Pending == Lines(events) \cup stolen

\* The list shows every device once, and where it is wrong about the bus an
\* event still on its way, or one that a connection's handler has taken since
\* the last answer of the USB thread, would put it right: a refresh does, though
\* events from before and after its answer meet it in the channel
\* (refresh_devices, handle_usb_event).
ListCatchesUp ==
  /\ Lines(order) = Listed /\ Len(order) = Cardinality(Listed)
  /\ uiLoop.pc # "refresh" =>
       /\ \A r \in Listed \ onBus : Went(r) \in Pending
       /\ \A r \in onBus \ Listed : Came(r) \in Pending

\* Violated: a reset reaches the device it was confirmed for, if any (app.rs:352
\* takes a device's id for its handle).
ResetsSelected == hit.done # NoRow => hit.done = hit.asked

===============================================================================
