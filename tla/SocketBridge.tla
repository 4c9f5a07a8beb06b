----------------------------- MODULE SocketBridge -----------------------------
(***************************************************************************)
(* The USB/IP bridge of one virtual device: SocketBridge                    *)
(* (crates/client/src/virtual_usb/socket_bridge.rs) between the kernel's    *)
(* vhci_hcd and DeviceProxy::submit_transfer                                *)
(* (crates/client/src/network/device_proxy.rs).                             *)
(*                                                                          *)
(* A reader thread takes CMD_SUBMIT and CMD_UNLINK from the socket in their *)
(* order. Each CMD_SUBMIT gets a task of its own; the tasks of the          *)
(* interrupt endpoint hold the endpoint's lock from before the transfer to  *)
(* the end of the task, the others run freely. The server's device is a     *)
(* counter: the n-th transfer it executes on the interrupt endpoint takes   *)
(* the n-th report. Replies are applied to the kernel as they are written:  *)
(* the write mutex keeps them whole and in order.                           *)
(***************************************************************************)
EXTENDS Integers, Sequences, FiniteSets

CONSTANTS
  MaxUrb,       \* the kernel submits the URBs 1..MaxUrb in this order (bound)
  Serialized,   \* the URBs among them for the interrupt endpoint
  MaxTries,     \* MAX_RETRIES of submit_transfer
  MaxUnlinked   \* MAX_UNLINKED_SEQNUMS

Urb == 1..MaxUrb

ASSUME BridgeAssumption ==
  /\ MaxUrb \in Nat \ {0} /\ MaxTries \in Nat \ {0} /\ MaxUnlinked \in Nat \ {0}
  /\ Serialized \subseteq Urb

VARIABLES
  socket,      \* messages on the way from the kernel to the reader
  urb,         \* the kernel's view of each URB
  open,        \* the kernel has not shut the socket down
  reader,      \* what the reader thread does: [at, urb]
  running,
  task,        \* what the task of each URB does
  lockQueue,   \* the endpoint's lock: its holder first, then who waits for it
  registered,  \* the keys of pending_transfers
  unlinked,    \* unlinked_seqnums
  tries,       \* attempts made by submit_transfer
  produced,    \* reports the device has given
  report,      \* the report a task has got from the device, 0 without one
  delivered,   \* history: the reports the kernel got, in order
  forgotten,   \* history: URBs that were cleared from unlinked_seqnums
  late         \* history: URBs put there after their tasks had looked

bridgeVars == <<socket, urb, open, reader, running, task, lockQueue, registered,
                unlinked, tries, produced, report, delivered, forgotten, late>>
kernelVars == <<urb, open, delivered>>
deviceVars == <<tries, produced, report>>
unlinkVars == <<unlinked, forgotten, late>>

Reading == [at |-> "read", urb |-> 0]

BridgeInit ==
  /\ socket = <<>>
  /\ urb = [u \in Urb |-> "new"]
  /\ open = TRUE
  /\ reader = Reading
  /\ running = TRUE
  /\ task = [u \in Urb |-> "none"]
  /\ lockQueue = <<>>
  /\ registered = {}
  /\ unlinked = {}
  /\ tries = [u \in Urb |-> 0]
  /\ produced = 0
  /\ report = [u \in Urb |-> 0]
  /\ delivered = <<>>
  /\ forgotten = {} /\ late = {}

(***************************** the kernel (external) ***********************)

KernelSubmits(u) ==
  /\ open
  /\ urb[u] = "new" /\ \A v \in 1..(u - 1) : urb[v] # "new"
  /\ urb' = [urb EXCEPT ![u] = "submitted"]
  /\ socket' = Append(socket, [cmd |-> "submit", urb |-> u])
  /\ UNCHANGED <<open, reader, running, task, lockQueue,
                 registered, unlinkVars, deviceVars, delivered>>

\* The driver gives the URB up; it stays the kernel's until an answer to either
\* of the two commands arrives.
KernelUnlinks(u) ==
  /\ open
  /\ urb[u] = "submitted"
  /\ urb' = [urb EXCEPT ![u] = "unlinking"]
  /\ socket' = Append(socket, [cmd |-> "unlink", urb |-> u])
  /\ UNCHANGED <<open, reader, running, task, lockQueue,
                 registered, unlinkVars, deviceVars, delivered>>

\* The port is detached: the kernel shuts its end of the socket down.
KernelCloses ==
  /\ open
  /\ open' = FALSE
  /\ UNCHANGED <<socket, urb, reader, running, task,
                 lockQueue, registered, unlinkVars, deviceVars, delivered>>

\* The kernel ends an URB it has; it takes a reply for another one for an error
\* of the connection, and closes it. Nothing is read from a closed socket.
KernelTakesReply(u) ==
  IF ~open THEN UNCHANGED kernelVars
  ELSE IF urb[u] \in {"submitted", "unlinking"}
  THEN /\ urb' = [urb EXCEPT ![u] = "returned"]
       /\ delivered' = IF report[u] = 0 THEN delivered ELSE Append(delivered, report[u])
       /\ UNCHANGED open
  ELSE /\ open' = FALSE
       /\ UNCHANGED <<urb, delivered>>

KernelTakesUnlinkReply(u, found) ==
  IF ~open THEN UNCHANGED kernelVars
  ELSE /\ urb' = IF urb[u] # "unlinking" THEN urb
                 ELSE [urb EXCEPT ![u] = IF found THEN "cancelled" ELSE "absent"]
       /\ UNCHANGED <<open, delivered>>

(***************************** the reader thread ***************************)

\* run_blocking: a CMD_SUBMIT spawns its task, and the thread reads on.
ReaderSpawns ==
  /\ reader = Reading /\ running
  /\ socket # <<>> /\ Head(socket).cmd = "submit"
  /\ task' = [task EXCEPT ![Head(socket).urb] = "spawned"]
  /\ socket' = Tail(socket)
  /\ UNCHANGED <<kernelVars, reader, running, lockQueue, registered, unlinkVars, deviceVars>>

\* handle_cmd_unlink_blocking: the URB is put among the unlinked ones, which are
\* cleared first when there are too many of them.
Cleared == IF Cardinality(unlinked) >= MaxUnlinked THEN unlinked ELSE {}

\* Mutant: the URB at hand is not put there when they are cleared.
TrackOrClear(u) ==
  /\ unlinked' = IF Cleared = {} THEN unlinked \cup {u} ELSE {}
  /\ forgotten' = forgotten \cup Cleared
  /\ late' = IF task[u] \in {"cleared", "writes"} THEN late \cup {u} ELSE late

TrackUnlinked(u) ==
  /\ unlinked' = (unlinked \ Cleared) \cup {u}
  /\ forgotten' = forgotten \cup Cleared
  /\ late' = IF task[u] \in {"cleared", "writes"} THEN late \cup {u} ELSE late

ReaderTracks ==
  /\ reader = Reading /\ running
  /\ socket # <<>> /\ Head(socket).cmd = "unlink"
  /\ TrackUnlinked(Head(socket).urb)
  /\ reader' = [at |-> "cancel", urb |-> Head(socket).urb]
  /\ socket' = Tail(socket)
  /\ UNCHANGED <<kernelVars, running, task, lockQueue, registered, deviceVars>>

\* The registered sender is taken out; nobody listens at its other end, so that
\* the transfer itself goes on.
ReaderCancels ==
  /\ reader.at = "cancel"
  /\ registered' = registered \ {reader.urb}
  /\ reader' = [reader EXCEPT !.at = IF reader.urb \in registered THEN "found" ELSE "missing"]
  /\ UNCHANGED <<socket, kernelVars, running, task, lockQueue, unlinkVars, deviceVars>>

\* RET_UNLINK with status 0 or -ENOENT.
ReaderReplies ==
  /\ reader.at \in {"found", "missing"}
  /\ KernelTakesUnlinkReply(reader.urb, reader.at = "found")
  /\ reader' = Reading
  /\ UNCHANGED <<socket, running, task, lockQueue, registered, unlinkVars, deviceVars>>

\* The end of the stream is read, after everything in it.
ReaderEnds ==
  /\ reader = Reading /\ running
  /\ ~open /\ socket = <<>>
  /\ running' = FALSE
  /\ UNCHANGED <<socket, kernelVars, reader, task, lockQueue, registered, unlinkVars, deviceVars>>

\* stop, by the virtual USB manager: the thread ends before its next message.
Stop ==
  /\ running
  /\ running' = FALSE
  /\ UNCHANGED <<socket, kernelVars, reader, task, lockQueue, registered, unlinkVars, deviceVars>>

(***************************** the tasks ***********************************)

Passes(u, at) == task' = [task EXCEPT ![u] = at]

\* The guard is dropped at the end of the task: the next in line has the lock.
Unlock(u) == lockQueue' = IF u \in Serialized THEN Tail(lockQueue) ELSE lockQueue

TaskEnds(u) == Passes(u, "ended") /\ Unlock(u)

\* Spawned tasks start in any order; the lock's queue is fair.
QueueForLock(u) ==
  /\ task[u] = "spawned"
  /\ Passes(u, "queued")
  /\ lockQueue' = IF u \in Serialized THEN Append(lockQueue, u) ELSE lockQueue
  /\ UNCHANGED <<socket, kernelVars, reader, running, registered, unlinkVars, deviceVars>>

HasTurn(u) == u \in Serialized => Head(lockQueue) = u

Register(u) ==
  /\ task[u] = "queued"
  /\ HasTurn(u)
  /\ Passes(u, "asks")
  /\ registered' = registered \cup {u}
  /\ UNCHANGED <<socket, kernelVars, reader, running, lockQueue, unlinkVars, deviceVars>>

\* usbip_to_usb_request finds that the device is not attached any more: the task
\* ends, and the URB stays registered.
ConversionFails(u) ==
  /\ task[u] = "asks" /\ tries[u] = 0
  /\ Passes(u, "lost")
  /\ Unlock(u)
  /\ UNCHANGED <<socket, kernelVars, reader, running, registered, unlinkVars, deviceVars>>

\* The device executes a transfer: an interrupt transfer takes its next report.
\* Without a report it succeeds with no data, which delivers as little as an error.
Executes(u) == produced' = IF u \in Serialized THEN produced + 1 ELSE produced

\* submit_transfer: an answer that is not to be retried.
Answered(u) ==
  /\ task[u] = "asks"
  /\ Executes(u)
  /\ report' = [report EXCEPT ![u] = IF u \in Serialized THEN produced + 1 ELSE 0]
  /\ tries' = [tries EXCEPT ![u] = @ + 1]
  /\ Passes(u, "answered")
  /\ UNCHANGED <<socket, kernelVars, reader, running, lockQueue, registered, unlinkVars>>

\* An error of the device (Timeout, Busy or Io, after the last try, or any other
\* one): the answer carries it.
AnsweredError(u) ==
  /\ task[u] = "asks"
  /\ tries' = [tries EXCEPT ![u] = @ + 1]
  /\ Passes(u, "answered")
  /\ UNCHANGED <<socket, kernelVars, reader, running, lockQueue, registered, unlinkVars,
                 produced, report>>

\* The request, or only its answer, is lost, or the device reports an error that
\* may be retried: the request is made again.
TriesAgain(u) ==
  /\ task[u] = "asks"
  /\ tries[u] + 1 < MaxTries
  /\ tries' = [tries EXCEPT ![u] = @ + 1]
  /\ Executes(u) \/ UNCHANGED produced
  /\ UNCHANGED <<socket, kernelVars, reader, running, task, lockQueue, registered,
                 unlinkVars, report>>

\* Lost for the last time: the task ends with an error, and no RET_SUBMIT.
Fails(u) ==
  /\ task[u] = "asks"
  /\ tries[u] + 1 >= MaxTries
  /\ tries' = [tries EXCEPT ![u] = @ + 1]
  /\ Executes(u) \/ UNCHANGED produced
  /\ Passes(u, "failed")
  /\ UNCHANGED <<socket, kernelVars, reader, running, lockQueue, registered, unlinkVars, report>>

Unregister(u) ==
  /\ task[u] \in {"answered", "failed"}
  /\ registered' = registered \ {u}
  /\ IF task[u] = "answered" THEN Passes(u, "checks") /\ UNCHANGED lockQueue
     ELSE Passes(u, "lost") /\ Unlock(u)
  /\ tries' = [tries EXCEPT ![u] = 0]
  /\ UNCHANGED <<socket, kernelVars, reader, running, unlinkVars, produced, report>>

WasUnlinked(u) == u \in unlinked

\* The first look at running, and the unlinked ones: a reply the kernel does not
\* want any more is suppressed.
Check(u) ==
  /\ task[u] = "checks"
  /\ IF ~running THEN TaskEnds(u) /\ UNCHANGED unlinked
     ELSE IF WasUnlinked(u) THEN TaskEnds(u) /\ unlinked' = unlinked \ {u}
     ELSE Passes(u, "cleared") /\ UNCHANGED <<lockQueue, unlinked>>
  /\ UNCHANGED <<socket, kernelVars, reader, running, registered, forgotten, late, deviceVars>>

CheckLate(u) ==
  /\ task[u] = "cleared"
  /\ IF running THEN Passes(u, "writes") /\ UNCHANGED lockQueue ELSE TaskEnds(u)
  /\ UNCHANGED <<socket, kernelVars, reader, running, registered, unlinkVars, deviceVars>>

\* send_ret_submit_async; a socket that is closed is no error.
Write(u) ==
  /\ task[u] = "writes"
  /\ KernelTakesReply(u)
  /\ TaskEnds(u)
  /\ UNCHANGED <<socket, reader, running, registered, unlinkVars, deviceVars>>

TaskStep(u) ==
  \/ QueueForLock(u) \/ Register(u) \/ ConversionFails(u) \/ Unregister(u)
  \/ Check(u) \/ CheckLate(u) \/ Write(u)

Transfer(u) == Answered(u) \/ AnsweredError(u) \/ TriesAgain(u) \/ Fails(u)
ReaderStep == ReaderSpawns \/ ReaderTracks \/ ReaderCancels \/ ReaderReplies \/ ReaderEnds

BridgeNext ==
  \/ \E u \in Urb : \/ KernelSubmits(u) \/ KernelUnlinks(u)
                    \/ Transfer(u) \/ TaskStep(u)
  \/ KernelCloses \/ Stop \/ ReaderStep

BridgeSpec == BridgeInit /\ [][BridgeNext]_bridgeVars


(***************************** properties **********************************)

\* Every variable has values of its type (SocketBridge's fields).
BridgeTypeOK ==
  /\ urb \in [Urb -> {"new", "submitted", "unlinking", "returned", "cancelled", "absent"}]
  /\ task \in [Urb -> {"none", "spawned", "queued", "asks", "answered", "failed",
                       "checks", "cleared", "writes", "lost", "ended"}]
  /\ reader \in {Reading} \cup [at : {"cancel", "found", "missing"}, urb : Urb]
  /\ socket \in Seq([cmd : {"submit", "unlink"}, urb : Urb])
  /\ lockQueue \in Seq(Serialized)
  /\ registered \subseteq Urb /\ unlinked \subseteq Urb
  /\ forgotten \subseteq Urb /\ late \subseteq Urb
  /\ tries \in [Urb -> 0..MaxTries] /\ report \in [Urb -> Nat]
  /\ produced \in Nat /\ delivered \in Seq(Nat)
  /\ {open, running} \subseteq BOOLEAN

\* Reports of the interrupt endpoint reach the kernel in the order the device
\* gave them, none of them twice, whatever order the tasks run in and whatever is
\* retried or unlinked meanwhile (the endpoint's lock, socket_bridge.rs:351-391).
ReportsInOrder ==
  \A i, j \in DOMAIN delivered : i < j => delivered[i] < delivered[j]

\* An URB whose CMD_UNLINK has been answered gets no RET_SUBMIT any more.  Two
\* windows are left open: the set of unlinked ones may have been cleared in
\* between (socket_bridge.rs:733), and a CMD_UNLINK that finds nothing may have
\* come after the task has looked at the set (socket_bridge.rs:474-496).
UnlinkedAreSilent ==
  \A u \in Urb : task[u] \in {"cleared", "writes"} =>
    /\ urb[u] = "cancelled" => u \in forgotten
    /\ urb[u] = "absent" => u \in forgotten \cup late

\* The bridge passes reports on in order, and outside of these two windows it
\* answers no request that the kernel has taken back (socket_bridge.rs).
BridgeIsSound == ReportsInOrder /\ UnlinkedAreSilent

\* "The kernel removes URBs from its pending list on unlink, so any RET_SUBMIT
\* arriving after that causes 'cannot find urb of seqnum' errors and disconnects
\* the device" (socket_bridge.rs:704-706): no reply comes after the URB's unlink.
NoReplyIsLate ==
  [][\A u \in Urb :
       (task[u] = "writes" /\ task'[u] # "writes" /\ open)
       => urb[u] \notin {"cancelled", "absent"}]_bridgeVars

=============================================================================
