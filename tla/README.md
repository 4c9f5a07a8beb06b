# A TLA+ model of rust-p2p-usb

rust-p2p-usb shares USB devices over iroh (QUIC) connections: a server process
owns the devices and a client process presents them to its kernel through
`vhci_hcd`. This directory holds TLA+ specifications translated from the
source, the configurations that model-check them with TLC, and proofs checked
by TLAPS. `PROJECT.json` lists every run, the lines each definition stands for,
the hazards and the theorems.

Paths below are relative to `src/crates/`.

## 1. Inventory of the system

| Component | State it keeps | Operations | Talks to |
|---|---|---|---|
| Device sharing state, `server/src/usb/sharing.rs` | per device: attached clients with flags and lock time, queue, two lock holders | attach, detach, acquire, release, process queue, lock timeout | called by the manager |
| Device manager, `server/src/usb/manager.rs`, `device.rs` | devices by port, ids, attached handles, tracker, open devices, debounce table | enumerate, add, remove, attach, detach, lock, unlock, hotplug callbacks | libusb; sends events |
| USB thread, `server/src/usb/worker.rs` | the command loop | one command, libusb events, debounced events per turn | bounded channels of `common/src/channel.rs` |
| Connection handler, `server/src/network/connection.rs` | tracked handles, device cache, pending notifications, last activity | a `select!` over streams, USB events, flush timer, 30 s timer; cleanup | USB thread, policy, limiter, client |
| Session policy, `server/src/policy.rs` | active sessions with deadlines | check access, register, unregister, find expired; a monitor task | connection handlers |
| Rate limiter, `common/src/rate_limiter.rs` | token buckets: global, per client, per device | check, try_acquire, record | connection handlers |
| Notification aggregator, `server/src/network/notification_aggregator.rs` | pending notification per device, window | add, should_flush, flush | connection handler |
| Interrupt buffer, `server/src/usb/interrupt_buffer.rs` | per endpoint ring, sequence, poller thread | push, pop, start, stop | not wired in yet |
| QoS, `server/src/qos.rs` | priority queue, client quotas, round robin | enqueue, dequeue, cancel, quota window | not wired in yet |
| Audit log, `server/src/audit.rs` | channel, open file, counters, rotated files | write, rotate, restart | callers across the server |
| Server TUI, `server/src/tui/app.rs`, `events.rs` | device list, selection, dialogs | keys, refresh, reset, share, USB events | USB thread; takes events from the handlers' channel |
| Client connection, `client/src/network/connection.rs`, `health.rs` | QUIC connection behind a mutex, state, shutdown flag, health | connect, warm-up, reconnect, heartbeat loop, round trips, close | server |
| Client pool, `client/src/network/client.rs` | connections, target servers, reconnect attempts | connect, disconnect, monitor task, reconciliation | client connections |
| Attaching, `client/src/main.rs` | previously attached devices, forwarded notices | auto-attach, notice handler, reconciliation, detach | pool, virtual USB manager |
| Device proxy, `client/src/network/device_proxy.rs` | the handle | attach, detach, transfer with retries | client pool |
| Virtual USB manager, `client/src/virtual_usb/linux.rs` | attached devices, bridges, two port bitmaps | attach, detach, forced detach, port allocation | proxy, bridge, kernel |
| Socket bridge, `client/src/virtual_usb/socket_bridge.rs` | pending and unlinked requests, endpoint locks, running flag | CMD_SUBMIT tasks, CMD_UNLINK, replies | kernel, proxy |
| Interrupt receive buffer, `client/src/virtual_usb/interrupt_receive_buffer.rs` | reports, expected/highest/contiguous sequence, missing set | activate, store, take, NACKs | bridge |
| Client TUI, `client/src/tui/` | server and device lists, panes, dialogs | keys, spawned tasks and their messages | pool |
| Wire protocol, USB/IP encoding, transfers, configuration, keys, metrics, drawing | none, files, counters | – | – |

What is hard in it:

* **One thread, many tasks.** All device state belongs to the USB thread; the
  Tokio side only sees answers and events, which may be out of date when they
  arrive. A handler awaits an answer inside the branch of its own `select!`.
* **Bounded channels in both directions**, one of them sent to with
  `send_blocking`, and one receiver end cloned by every connection.
* **Hotplug** at any moment, debounced by 500 ms per port.
* **Locks with a queue and timeouts** among the clients of one device.
* **Lost connections, reconnects, forced detaches** and two or three parties
  that each keep their own table of what is attached.
* **Two observers of one fact**: the expiration monitor and the handlers, the
  pool's monitor and the connection that reconnects by itself, the terminal
  interface and the handlers on one event channel.
* **Checks and uses apart**: rate limits checked and then taken, ports read and
  then reserved, targets copied and then connected.

## 2. Modules

| Module | Models |
|---|---|
| `SharingState` | the record `DeviceSharingState` and its methods as operators |
| `DeviceSharing` | one such record as a state machine; its properties |
| `LeaseLock` | abstract: what the lock of a shared device promises |
| `DeviceManager` | the registry, the handles, the tracker and the open devices |
| `UsbServer` | the USB thread, both channels, hotplug, one handler per client; extends `DeviceManager` and implements it |
| `AccessPolicy` | the policy's decisions as operators: filters, time windows, durations |
| `SessionExpiry` | the table of sessions, the monitor, the handlers' timers; extends `AccessPolicy` |
| `RateLimiter` | token buckets and the transfers of several connections |
| `ClientNotices` | the batch of notices of one connection and the turns of its handler |
| `InterruptPolling` | the server's interrupt buffer, its thread, stop and start |
| `QosQueue`, `FairScheduler` | the heap of requests with aging; the round robin |
| `ServerTui` | the server's list of devices, dialogs, reset, over the shared event channel |
| `AuditLog` | the audit writer with rotation, failing file operations, restarts |
| `VhciPorts` | ports of `vhci_hcd`, bitmap, attached map, bridges, overlapping detaches |
| `SocketBridge` | URBs, their tasks, endpoint locks, unlinking, the proxy's retries |
| `ReceiveBuffer` | the client's buffer of reports and its sleeping readers |
| `AutoAttach` | which devices the client attaches, attaches again and takes away |
| `ClientLink` | one server connection: connect, warm-up, heartbeat, reconnect, close |
| `ClientPool` | the pool, the targets, the monitor task |
| `ClientApp` | the client's terminal interface and the tasks it spawns |
| `*Proofs` | the theorems about the module of that name |
| `ServerPartsProofs` | the theorems about `ClientNotices`, `InterruptPolling`, `SessionExpiry`, `RateLimiter`, `ServerTui`, `AuditLog` and `FairScheduler` |
| `QosQueueProofs` | the theorems about `QosQueue`, and about all parts of the server side by side (`MCServerParts`) |
| `ClientPartsProofs` | the theorems about `VhciPorts`, `SocketBridge`, `ReceiveBuffer` and `AutoAttach`, and about all of them side by side (`MCClientParts`) |
| `ClientStateProofs` | the theorems about `ClientLink`, `ClientPool` and `ClientApp` |
| `MCServer` | `DeviceSharing`, `UsbServer`, and an instance of `DeviceManager` in Shared mode, one per behaviour |
| other `MC*` | instances, their constants and symmetry, for TLC |

### SharingState and DeviceSharing

A client record's Boolean fields are sets of handles (`has_access`,
`has_write_lock`), the two `Option<DeviceHandle>` fields use `NoHandle`.
Instants become elapsed times saturated at `LockTimeout + 1`, the only
distinction the code makes being "more than `lock_timeout` ago"; `Age` is one
tick for every Instant at once, which keeps their order. `DeviceSharing` lets
every method be called at any time by any handle. A detached handle may attach
again: the record keeps nothing of a detached handle, so it stands for a new one.

`LeaseLock` knows members, a holder, waiters and whether the lease is overdue.
The mapping is direct (`holder <- Holder(sharing)` and so on); the interesting
step is `process_all`, which releases an overdue lock and serves the queue at
once and must not give the lock back to the same client. It does not, although
the holder may itself be in the queue, because the queue entry is at least as
old as the lock and has expired with it (part of `QueueIsConsistent`).

### DeviceManager and UsbServer

Maps are total functions with a null value per map. `next_device_id` and
`next_handle_id` are kept as the sets of ids already used. A device that does
not pass the filters, or is a root hub, never gets past `add_device`; it appears
as a port outside `Shareable` in `UsbServer`. `AttachDevice` is the whole of
`attach_device`: checks, `open`, tracker, map. Opening may fail, in which case
nothing changes. `UsbDevice::new` is taken not to fail: it reads the device
descriptor, which the filter check has read before it.

The USB thread takes one step per command, libusb message, batch of due
debounced events, event of such a batch, and channel send. `sending` is the
event inside `send_blocking`. Each handler has a `pc`: `ready` is the `select!`,
`send` is `send_command().await` (the channel may be full), `wait` is the
one-shot answer, `done` is the answer not yet acted upon. An attach of an
uncached device lists devices first, then decides (the policy may refuse), then
attaches. A lost connection goes through `cleanup`, one `DetachDevice` after
another. All handlers take from one event channel; each event goes to one.
A command is one of list, attach, detach, transfer, lock, unlock or shutdown.

`UsbServer` implements `ManagerSpec` with the identity as its mapping
(`UsesManager`): nothing but the operations of `DeviceManager` ever changes the
manager's maps, so whatever `DeviceManager` is shown to keep, the server keeps.

### The smaller parts of the server

* `SessionExpiry` counts ticks, `MinuteTicks` to each minute of a short day. The
  policy sees whole minutes (`MinuteOfDay` drops the rest, as
  `get_current_time_with_offset` does), and the window's end is that many whole
  minutes from the present tick. A client may ask to detach any handle, its own or
  another client's: the handler does not look whose it is. A handler's turn is one step
  unless it waits for the USB thread. The handler's 30 s timer is created anew
  in each turn, so it fires only after a quiet period (`quiet`); the monitor
  looks at the same table on its own and forgets what it reports.
* `RateLimiter` charges buckets one after the other, with other connections in
  between. Refill is a tick of its own; the code refills at each access from the
  time elapsed, and `min(t + r*e, max)` composes.
* `ClientNotices`: `told` and `latest` are history variables over the batch.
* `InterruptPolling`: a thread takes a sequence number first and the buffer's
  lock later, in two steps; `stop` sets the flag and waits for the thread.
* `QosQueue` keeps the array of the standard library's heap and its sift
  operations, as the order of two requests depends on the time. Loops over the
  array are recursive functions of the place.
* `ServerTui` takes the events the handlers also take; each may go elsewhere.
* `AuditLog`: what handling a message may leave behind is the set of outcomes of
  its file operations, each of which may fail or be the last before a crash.

### The client

* `VhciPorts` holds the map's lock over a whole detach (`writer`), as the code
  does, but not over `force_detach`, unless it finds no entry: then it waits for
  its own read guard. The kernel's status is read before the bitmap is locked.
  Other programs take and leave ports. `contested` is a history variable: the
  ports that two removers have read at the same time.
* `SocketBridge`: the reader thread, one task per URB, the endpoint lock from
  before the transfer to the end of the task. The server's device is a counter
  of reports, so that a transfer executed twice is visible. The histories `forgotten`
  (requests that were cleared from the set of unlinked ones) and `late` (requests that
  were put there after their task had looked) mark the two windows in which a reply
  may follow the answer to its unlinking; `UnlinkedAreSilent` excludes every other.
* `ReceiveBuffer`: the network may lose, repeat and reorder. Readers sleep on a
  condition variable that `store` notifies once.
* `AutoAttach` composes `main.rs`, the notices of `connection.rs`, the
  reconciliation of `client.rs` and the map of `linux.rs` over one server.
  `Plural` are units the server lets be attached more than once at a time. The
  removal of a device is a step per handle and lock, and may be `Jammed`, as above.
  The monitor holds no lock while it connects, lists and reconciles, so the user's
  connect, attach and disconnect interleave with it; a connection that the monitor's
  replaces in the pool lives on (`astray`) until it breaks. `unlisted` is a history
  variable: the handles given out between the monitor's list and its comparison.
* `ClientLink`: the mutex is a line of tasks, the QUIC connection one value; the
  other end is the part of `handle_connection` that reads the first message.
* `ClientPool`: each point at which the mutex is given up is a step boundary.
* `ClientApp`: keys, dialogs, and one step for each spawned task's end and each
  message taken. The lists are sequences, for the selection is an index; the tasks are
  a bag, for two of them may be alike.

## 3. Runs

| Run | Instance | Shows |
|---|---|---|
| `server` | `DeviceSharing`: 4 handles, 3 admitted, timeout 2, all modes; `DeviceManager`: 2 ports, 3 ids, 2 clients, 3 handles, 2 admitted, Shared; `UsbServer`: 2 clients, 1 port, 3 ids, 2 handles, channels of 1, 2 changes on the bus; 860 000 states | lock, queue and capacity stay consistent; a waiter never moves back; service in order; refinement of `LeaseLock`; registry, attachments, tracker, open devices agree; no orphaned handle; a tracked handle leads to its device |
| `usb_server_one_client` | 1 client, 2 ports (1 shareable), 2 ids, 2 handles, event channel as large as the number of changes; 125 000 states | no stale handle; the registry matches a quiet bus; refinement of `ManagerSpec`; liveness: answers, closing and shutdown, catching up with the bus |
| `server_parts` | eight parts, one per behaviour; 1 230 000 states | `SessionsAreAllowed`, `ForcedOnlyWhenDue`, `TokensConserved`, `LatestIsNotLost`, `StreamIsComplete`, `QosServesAll`, `ListCatchesUp`, `TrailIsKept` |
| `client_parts` | four parts, one per behaviour; 1 730 000 states | `PortsNotShared`, `BridgeIsSound`, `ReceiverIsSound`, `StaleIsExplained`, `NothingTakenInVain` |
| `progress` | connection, pool, client TUI, one per behaviour; 125 000 states | `StateIsConsistent`; liveness: `LinkComesBack`, `TargetsAreServed`, `CloseIsFinal`, `AttachingEnds` |
| `stale_handle`, `blocking_ends`, `expired_is_detached`, `late_reply`, `reconciled_has_left`, `stays_disconnected`, `resets_selected` | smallest that show it | violations, see Findings |

### Parts that share a run

`MCServer`, `MCServerParts`, `MCClientParts` and `MCProgress` put parts that have no
variable in common into one run. Their `focus` is chosen initially and never
changes; a behaviour is one of the part in focus, and the others stand still in
one initial state. The states are therefore the sum of the parts' states and not
their product, each part's property says what it would say in a run of its own,
and the initial choices of a part are free only where it is in focus. Where
parts of the system really meet (handlers and USB thread; pool, notices and
virtual devices; the sessions and the handlers), they are composed inside one
module instead.

### Bounds

* Four handles with room for three make a full device, a holder and two waiters;
  two ticks make requests of different ages.
* Three ids and handles allow a device to be unplugged, replaced and attached
  again. In `UsbServer`, where one port is enough, two bus changes allow unplug and replug, or plug and
  unplug, at every point; channels of capacity 1 are full as early as possible.
* `SessionExpiry`: two clients and two handles, a day of three minutes of two ticks
  each with a window over midnight and one that does not parse, four ticks of time
  from any tick on: a session may begin in the second half of a minute, and outlive
  its window by the first half.
* `RateLimiter`: two connections that share their device's bucket, and clients'
  buckets smaller than it, so that the second bucket may refuse.
* `InterruptPolling`: a buffer that overflows, and more than one thread.
* `AuditLog`: three files, rotation by size and by entries, six entries.
* `VhciPorts`: two ports, three devices, two workers that may both detach, and a
  foreign program: a port freed twice can be given away in between. `SocketBridge`:
  two URBs on one endpoint, two tries, and room for one unlinked request, so that
  the second unlinking clears the set.
  `ReceiveBuffer`: three numbers, a buffer of two, two gaps, two readers.
* `AutoAttach`: two units of which one matches the filter and may be attached
  twice, two handles, a channel of one so that notices are lost. The unit that is
  not wanted is there from the start and stays; the wanted one may come before the
  list is read or later, and leave.
* `ClientLink`, `ClientPool`: two faults, one server, two callers. `ClientApp`: one
  server, one device, two jobs or messages at a time (`MaxJobs`) and one notice: an
  attachment goes on beside a refresh, a list, a disconnect or a second attachment,
  while the device leaves and the line changes. Liveness needs no symmetry and hence
  small sets.

Every other bound is named in its module as "bound of the runs". The server ends
its run when the USB thread has stopped, or when all ids and handles are used;
the parts end when their counters are used up. Deadlock is therefore not checked, and
what must go on is stated as liveness.

Symmetry is used for invariants and action properties only; the runs with
liveness properties have none. The action properties and the refinements treat
all permuted values alike.

### Fairness

`UsbServer`. `UsbThread` is weakly fair: the loop polls with a 100 ms timeout and
never waits for anybody, except inside `send_blocking`. Each turn takes a command
if there is one, handles libusb's events and fires what is due: these three are
strongly fair, since one that is possible in turn after turn is taken. A
handler's own next step (sending, acting upon an answer) is weakly fair: Tokio
runs ready tasks. Taking an event is strongly fair: `select!` polls its branches
in random order each time around. Clients and the bus have no fairness: nobody
has to connect, ask, disconnect, plug, or shut down. `RequestsAnswered`,
`EndsAreReached` and `RegistryCatchesUp` hold only while the event channel has
room; `blocking_ends` shows what happens when it has not.

`SessionExpiry`. The handlers' and the monitor's steps and the clock are weakly
fair; clients are not: `expired_is_detached` is violated although every task runs.

`MCProgress`. In the connection the tasks go on when they can, iroh notices a
silent connection in the end (its idle timeout), and now and then the server
answers the dial: that one is strongly fair, because the code redials for ever
and the property is about a server that can be reached. In the pool, Tokio's
mutex is first come first served, so that whoever waits for it again and again
gets it: strong fairness of each caller's and the monitor's steps; requests have
timeouts or end with the connection; the monitor reaches a server now and then.
In the interface, spawned tasks end and the loop takes messages. Users press no
key they do not want to press.

## 4. Findings

* `stale_handle`: `UsbBridge` is cloned per connection and `async_channel` is
  not a broadcast, so `DeviceLeft` reaches one connection. Every other client of
  that device keeps a dead handle and hears nothing.
* `blocking_ends`: with the event channel full the USB thread and a waiting
  handler block each other for ever.
* `expired_is_detached`: the monitor removes an expired session from the table
  and reports it to a channel without a reader; the handler that would detach the
  device looks in the same table later and finds nothing.
* `late_reply`: a task looks once whether its request was unlinked and writes its reply
  later. A `CMD_UNLINK` read in between finds nothing registered, is answered with
  `-ENOENT`, and the kernel, for which this ends the request, then gets a reply to a
  request it does not know and closes the connection. The same follows when the set of
  unlinked requests is cleared (`socket_bridge.rs:733`).
* `reconciled_has_left`: the monitor compares the server's list with what is attached
  somewhat later; a device that came and was attached by the user in between is
  detached, although it is still there.
* `stays_disconnected`: the monitor works on a copy of the targets; a disconnect
  between its look at them and its look at the connections is undone.
* `resets_selected`: the server's terminal interface sends a device id where the
  USB thread expects a handle; the two are counted apart, and the reset reaches
  another device.

Observations met while modelling that have no run of their own. They are part of
the model, and the properties are stated so as to hold with them:

* Sharing: a queue entry is kept by a client that finds the lock free
  (`sharing.rs:147`) and by a holder; position 0 is told to a client that may not
  use the device (`sharing.rs:292`). Nothing calls `process_all_queues`.
* Sessions: access is checked and the session registered in two steps; sessions
  are not unregistered when a device leaves or a connection is cleaned up. A session
  outlives its window by up to 59 seconds (`policy.rs:311-319` drops the seconds,
  `policy.rs:385` adds whole minutes to the present instant), and one registered after
  its window has closed has no end at all. `SessionsAreAllowed` says less than a minute.
* Handles: `handle_detach_device` (`connection.rs:530-584`) does not ask whose handle
  it is given. A client may detach another one's device: that one's handler goes on
  tracking the handle, and the session is gone with the device. The properties that
  speak of handles and sessions hold with this.
* Limits: a transfer that `check` allowed goes ahead although another connection
  has taken the tokens since. Buckets of gone clients are never dropped.
* Interrupt buffer: after the device has gone the running flag stays up, and
  `start` does nothing ever after.
* QoS: the second branch of the aging is unreachable, and aging alone does not
  move a request in the heap.
* Audit: when renaming the log fails, each further entry rotates again and the
  older files are lost one by one; entries in the channel at exit are lost. Of
  `max_files` rotated files (`config.rs:56`: "Maximum number of rotated files to keep")
  one fewer is kept (`audit.rs:625`).
* Server TUI: an event that arrives late undoes the share flag of a device; a
  dialog that is open while the list changes acts on another line.
* Connection: a request of another task may be the first on a new connection and
  be answered as if it were the capability exchange.
* Client TUI: a detach that fails leaves its entry "Detaching"; a disconnect
  leaves entries "Attached"; Ctrl-C does not quit.
* Attaching: the subscription begins after the first attachments, so earlier
  removals are missed; the forwarder ends when it lags; a replugged device has a
  new id and is not "previously attached"; reconciliation compares ids only, and runs
  when the monitor has connected anew, not when a connection has reopened itself, as
  `client.rs:266` and `main.rs:665-669` may be read. A connection that the monitor's
  replaces in the pool is not closed, and what it attached stays at the server.
  `StaleIsExplained` lists these causes and excludes all others.
* Bridge: an unlinked request that waits for the endpoint lock is executed all
  the same and takes a report; a retried request may be executed twice. When the
  device is detached before its request is converted (`socket_bridge.rs:409`), the
  request stays registered and its unlinking is answered with success.
* Receive buffer: nobody activates it, and a repeated report is served twice.
* Ports: two removers of one device may free a port that has been given to
  another in the meantime (`linux.rs:634`); `PortsNotShared` excepts the ports
  for which this has happened.
* Forced detach: when the handle has no entry, `force_detach` (`linux.rs:619-640`)
  still holds its read guard as it asks for the write lock. It waits for itself,
  and every later attach, detach or removal waits for it.

## 5. Proofs

A theorem holds for every value of the constants that satisfies the named
assumption of its module; TLC evaluates those assumptions in every run. Each
inductive invariant was checked by TLC before it was proved. The last step of
each theorem combines `Init => Inv`, `Inv /\ [Next]_vars => Inv'` and
`Inv => property`.

* **`SharingStateProofs`** has one lemma per operator: it keeps the record's type
  and the three named invariants. `Retain` keeps order and removes exactly the
  handle; `ExpiredPrefix` is well defined and splits the queue.
* **`DeviceSharingProofs`** proves `SharingTypeOK /\ LockIsConsistent /\
  QueueIsConsistent /\ CapacityKept` inductive, and from it `TypeCorrect`,
  `LockSafety`, `QueueSafety`, `Capacity`, `ServiceOrder`, `WaitersMoveForward` and
  `LeaseRefinement`. What is removed from the queue leaves the rest in its order, so
  that an entry at place i was at place i or behind it before (`KeptEntries`).
  That a released holder is not served again rests on the age of its queue entry;
  that the entry found for a handle is the one removed, on entries being unique;
  that `check_lock_timeout` names the holder, on only the holder having a lock
  time. None is inductive without the others.
* **`DeviceManagerProofs`**: `ManagerInv` adds to the checked invariants that ids
  and handles in use were given out (`Used`: what is new is nowhere known) and
  that the two maps of devices are inverse to each other (`Maps`). It reuses the
  lemmas about the record. Theorems `ManagerTypes`, `RegistrySafety`,
  `AttachmentSafety`, `OpenSafety`, `Exclusivity`.
* **`UsbServerProofs`**: `UsbInv` is `ManagerInv` with, for each client,
  `Owned(c)`: what it tracks, what its command in flight will do, and what its
  unread answer says, together account for each of its handles at the manager. A
  command belongs to one waiting handler (`OneCommand`), and a device named in a
  removal on its way has gone for good (`Removals`), which is why forgetting its
  handles is right. Theorems `UsesTheManager` (the refinement), `NothingOrphaned`,
  `HandlesSafe`, `UsbTypes`. `LoneClientHears` is about one client: each handle it
  tracks is attached, or announced as gone, or being returned by its own command
  (`Hears`), so that it learns of every handle dropped. With two clients it is
  false, as the run `stale_handle` shows. `RegistryInv` says that the last message
  about a port is true of the bus, wherever it is: in libusb's list, in the debounce
  table, or in the batch being processed; and where there is none, the registry is
  true. It is the argument for replacing an earlier debounced event by a later one.
  Theorem `RegistryMatches`.
* **`ServerPartsProofs`** has one inductive invariant for each part of the server.
  - Notices (`NoticesInv`): the list of arrivals holds exactly the devices that
    wait, so that a later notice replaces an earlier one in place. Theorem
    `LatestNotLost`.
  - Interrupt polling (`PollingInv`): one thread works at a time, and the number it
    holds is newer than all in the stream of taken and buffered reports; what is
    missing from the stream is as much as the dropped counter says. Theorem
    `NoReportUncounted`.
  - Sessions (`SessionsInv`): the end of a session is the first of its limits
    (`EndsKnown`), whoever is about to take a session away has seen it end (`Due`),
    and a handle is in one handler's hands and tracked by no other (`InHand`,
    `TrackedAlone`), unless another client has asked to detach it; such a handler
    has the device detached before it unregisters the session, so that the session
    is not missed. That a session ends less than a minute after its windows is
    arithmetic of ticks and minutes (`DayTurns` and the lemmas after it): of the
    minutes counted from the present tick one has begun. Theorems
    `SessionsStayAllowed` and `ForcedOnlyAtTheEnd`.
  - Limits (`LimiterInv`): where a transfer is on its path says which buckets it has
    been charged for (`Charges`), and so what a refund gives back was taken before.
    Theorem `TokensStayConserved`.
  - Terminal interface (`TuiInv`): the lines have no device twice (`LinesHold`), and
    where the list and the bus differ the event is in the channel or went to a
    handler (`ShownHolds`). Theorem `ListStaysInStep`.
  - Audit log (`AuditInv`): the entries grow from the oldest file to the newest, and
    none is missing in between until an operation fails (`Sound`); every rename of a
    rotation keeps this, which is why it holds between moving the files and opening
    a log as well. Theorem `TrailStaysKept`.
  - Round robin (`SchedulerInv`): a client that is asked i-th has been passed over
    fewer times than there are clients, less i (`InTurn`). Theorem
    `NobodyStaysPassedOver`.
* **`QosQueueProofs`**: a sift, a removal and a cancelled device are functions
  defined by recursion over places. That such a function exists, and stays in D[k]
  at k if each of its steps leads from D[k - 1] to D[k], is `Iterates`; it follows
  from there being no least place at which it fails.
  - Requests (`QosInv`): ids are given out in turn, so that the next one is new
    (`NextIsNew`), and no id is twice in the heap. Every operation only rearranges
    the requests but for the ones it adds or takes (`Arranges`). Theorem
    `RequestsStayConserved`, and with the round robin `QueueServesAll`.
  - Order (`Ordered`): a sift up may find one request out of order with its parent
    (`OrderedBut`), a sift down one that is out of order both ways
    (`OrderedAround`), and each step moves that place nearer to an end. Theorem
    `OnlyTimeDisorders`: no operation puts the heap out of order, at any ages.
    Theorem `HighestIsServed` is about behaviours in which no request waits until
    its priority is raised; with one that does, its place is not where it belongs
    until the heap is rebuilt, as section 4 says.
  - `ServerPartsTypes`: the parts of the server keep their types side by side; each
    step of one is a stutter of the others (`EachPartSteps`).
* **`ClientPartsProofs`** does so for the parts of the client, and has
  `ClientPartsTypes`.
  - Ports (`PortsInv`): a port that is not contested has one owner, which is a
    worker that places a device (`PlacersAlone`), the entry (`EntriesAlone`), or a
    worker that gives the port back (`GiversKnow`), and counts as allocated until
    then; the kernel's table agrees (`KernelAgrees`). Theorems `PortsStayOwned`,
    `PortsStayTyped`, `PortsStayUnshared`.
  - Bridge (`OrderInv`): each URB is submitted once, the first in the endpoint's line
    is the only task past its lock, and the report it has is newer than all that
    were delivered. From it `ReportsStayInOrder`. `Silence`: a request whose unlinking
    was answered has ended, or will find itself among the unlinked ones, or was cleared
    from them (`Settled`), and what came to them after its task had looked was not
    registered any more. With `UnlinkedOnce`, from which a request is taken back only
    once, `BridgeStaysSound` follows for any number of requests and any `MaxUnlinked`.
  - Receive buffer (`ReceiveInv`): the numbers received and missing are below the
    one expected next (`Caught`), so that a gap is noticed once; and there are
    readers awake for the reports that wait. Theorem `ReceiverStaysSound`.
  - Attaching (`AutoInv`): every handle in the client's hands belongs to one unit,
    whether entered in the map or about to be, and the server's table, the notices on
    their way and the reconciliation's picks agree with it: a unit that is not in the
    list the monitor compares with has left, or its handle was given out since that
    list (`unlisted`). The user may connect, attach and leave at any point of it.
    Theorems `AutoConsistent`, `StaleExplained` and `NothingInVain`.
* **`ClientStateProofs`** (`LinkInv`, `PoolInv`, `AppInv`): a task is in the
  mutex's line once, and exactly while it uses the connection or waits for it
  (`Lined`); whoever is about to enter a server in the pool has one (`Named`); and
  of the interface, each list keeps a device once and agrees with its count
  (`ListValues`), whichever of list, notice and answer comes first. A server has
  one place in the order, which bounds the cursor. Theorem `ClientStateSound`.

The assumptions are those of the modules: finite sets of senders, takers and
tenants, a minute of at least one tick (`MinuteTicks`) and any bound on time
(`MaxNow`, a bound of the runs), policies as the configuration's parser lets them
through, and a list of configured servers that names each once, as `add_server`
makes it. Two theorems say more of their range: `HighestIsServed` is about
behaviours in which no request ages, and `LoneClientHears` about a server with one
client.

Only model-checked: all liveness and everything that uses fairness or `ENABLED`,
which the prover does not reach: `LinkComesBack`, `TargetsAreServed`,
`CloseIsFinal`, `AttachingEnds`, `RequestsAnswered`, `EndsAreReached` and
`RegistryCatchesUp`. Every invariant and every action property of a passing run is
stated by a theorem; `SharedManagerIsSound`, for the instance in Shared mode, is what
`ManagerConsistent` says of every mode.

## 6. Not modelled

* **Cancelling a transfer** (`connection.rs:1021`): transfers are awaited inside
  the loop, so nothing is pending when it runs. The keep-alive task has no state.
* **A replugged device at its old address** within the debounce time: whether
  libusb reuses the address so soon is not decided by this code.
* **A restart of the server** seen by the client: handles of the new process may
  equal old ones; `AutoAttach` is about one run of the server.
* **USB transfers, wire protocol, USB/IP encoding**: calls and byte layouts
  without state; a transfer appears in `SocketBridge` by the report it takes. The
  repository has property tests for the protocol.
* **Configuration, keys, logging, metrics, systemd, drawing, QR codes**: files,
  counters and widgets; what the interfaces draw is modelled as their state.
* **The jitter estimate and statistics** of the receive buffer, and its maps by
  device and endpoint; **network events** of the server's interface, which nothing
  sends; **entry levels** of the audit log.
* **iroh, libusb, vhci_hcd**: external. A dial succeeds or not, a connection
  breaks silently or not, messages of libusb come in their order, and the kernel
  gives a port away while it is free.
