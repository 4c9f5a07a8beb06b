---------------------------- MODULE ClientNotices ----------------------------
(***************************************************************************)
(* Notifications of device changes to one client: NotificationAggregator    *)
(* (crates/server/src/network/notification_aggregator.rs) as the handler's  *)
(* loop uses it (crates/server/src/network/connection.rs): events are added *)
(* to the pending notices, one per device, and flushed when their window is *)
(* over or there are too many of them.                                      *)
(*                                                                          *)
(* A notice is its kind; the kinds of events follow a device's life, whose  *)
(* id is never used again: it arrives, possibly twice, changes, and leaves. *)
(* Sending a batch may fail; the pending notices are gone then, too.        *)
(***************************************************************************)
EXTENDS Integers, Sequences, FiniteSets

CONSTANTS
  Gadget,       \* device ids
  AggWindow,    \* AGGREGATION_WINDOW in ticks
  MaxPending    \* MAX_PENDING_NOTIFICATIONS

ASSUME NoticesAssumption == AggWindow \in Nat /\ MaxPending \in Nat \ {0}

VARIABLES
  pending,     \* a function from devices to their latest notice
  arrivals,    \* pending_order
  windowAge,   \* ticks since window_start, NoWindow without one
  busy,        \* the handler awaits a request's answer: no event, no timer
  latest,      \* history: device -> kind of the last event the handler took
  told         \* history: device -> kind of the last notice sent or lost

noticeVars == <<pending, arrivals, windowAge, busy, latest, told>>

NoWindow == -1
Kinds == {"Arrived", "StatusChanged", "Removed"}
Waiting == DOMAIN pending

NoticesInit ==
  /\ pending = <<>>
  /\ arrivals = <<>>
  /\ windowAge = NoWindow
  /\ busy = FALSE
  /\ latest = [d \in Gadget |-> "none"]
  /\ told = [d \in Gadget |-> "none"]

\* A device that has gone does not come back under its id; the client may have
\* connected at any point of its life.
MayFollow(last) == last # "Removed"

ShouldFlush(waiting, age) ==
  /\ waiting # {}
  /\ Cardinality(waiting) >= MaxPending \/ age >= AggWindow

\* flush and send_push_notification: the batch in the order of first arrival.
Flush(notices, devices) ==
  /\ told' = [d \in Gadget |-> IF d \in {devices[i] : i \in DOMAIN devices}
                               THEN notices[d] ELSE told[d]]
  /\ pending' = <<>>
  /\ arrivals' = <<>>
  /\ windowAge' = NoWindow

\* Mutant: the first notice of a device stays.
AddFirst(kind, d) ==
  [x \in Waiting \cup {d} |-> IF x \in Waiting THEN pending[x] ELSE kind]

\* add: the latest notice of a device replaces an earlier one.
Add(kind, d) ==
  [x \in Waiting \cup {d} |-> IF x = d THEN kind ELSE pending[x]]

Place(d) == IF d \in Waiting THEN arrivals ELSE Append(arrivals, d)

\* handle_usb_event, and the check for a full batch at the end of the turn.
TakeEvent(d, kind) ==
  LET notices == Add(kind, d)
      age == IF windowAge = NoWindow THEN 0 ELSE windowAge
  IN /\ ~busy
     /\ MayFollow(latest[d])
     /\ latest' = [latest EXCEPT ![d] = kind]
     /\ IF ShouldFlush(Waiting \cup {d}, age)
        THEN Flush(notices, Place(d))
        ELSE /\ pending' = notices
             /\ arrivals' = Place(d)
             /\ windowAge' = age
             /\ UNCHANGED told
     /\ UNCHANGED busy

\* The flush timer, guarded by has_pending.
FlushTimer ==
  /\ ~busy
  /\ ShouldFlush(Waiting, windowAge)
  /\ Flush(pending, arrivals)
  /\ UNCHANGED <<busy, latest>>

NoticesHeld ==
  /\ ~busy
  /\ busy' = TRUE
  /\ UNCHANGED <<pending, arrivals, windowAge, latest, told>>

\* At the end of the turn the window is looked at.
NoticesReleased ==
  /\ busy
  /\ busy' = FALSE
  /\ IF ShouldFlush(Waiting, windowAge) THEN Flush(pending, arrivals)
     ELSE UNCHANGED <<pending, arrivals, windowAge, told>>
  /\ UNCHANGED latest

NoticeTick ==
  /\ windowAge # NoWindow
  /\ windowAge < AggWindow
  /\ windowAge' = windowAge + 1
  /\ UNCHANGED <<pending, arrivals, busy, latest, told>>

NoticesNext ==
  \/ \E d \in Gadget, kind \in Kinds : TakeEvent(d, kind)
  \/ FlushTimer
  \/ NoticesHeld
  \/ NoticesReleased
  \/ NoticeTick

NoticesSpec == NoticesInit /\ [][NoticesNext]_noticeVars

-----------------------------------------------------------------------------
(* Properties *)

\* The type invariant.
NoticesTypeOK ==
  /\ Waiting \subseteq Gadget
  /\ \A d \in Waiting : pending[d] \in Kinds
  /\ arrivals \in Seq(Gadget)
  /\ windowAge \in {NoWindow} \cup 0 .. AggWindow
  /\ busy \in BOOLEAN
  /\ latest \in [Gadget -> Kinds \cup {"none"}]
  /\ told \in [Gadget -> Kinds \cup {"none"}]

\* However many changes of a device fall into one window, the client is left
\* with the last of them: it waits to be sent, or was what was sent last.
LatestIsNotLost ==
  \A d \in Gadget : latest[d] = IF d \in Waiting THEN pending[d] ELSE told[d]

===============================================================================
