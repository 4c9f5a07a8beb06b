------------------------------ MODULE ClientLink ------------------------------
(***************************************************************************)
(* One ServerConnection (crates/client/src/network/connection.rs) with its  *)
(* health monitor (health.rs) and the first messages of the server's        *)
(* handler: connecting, warming up, requests, heartbeats, reconnecting and  *)
(* closing.                                                                 *)
(*                                                                          *)
(* Three tasks use the connection: the heartbeat task, which also           *)
(* reconnects; the user, since the client pool lets one request through at  *)
(* a time; and whoever closes it.  A request holds the connection's mutex   *)
(* over its whole round trip.  The mutex is fair: "line" are the tasks that *)
(* hold it (the first) or wait for it.                                      *)
(*                                                                          *)
(* The QUIC connection is one value: fresh until the server has seen a      *)
(* first message, serving or legacy (without push notifications) after it,  *)
(* silent when nothing comes through any more, lost when iroh has noticed.  *)
(* Time is counted in heartbeat intervals.                                  *)
(***************************************************************************)
EXTENDS Integers, Sequences, SequencesExt

CONSTANT MaxFaults  \* bound of the runs: how often a connection breaks

ASSUME LinkAssumption == MaxFaults \in Nat

VARIABLES
  state,      \* ConnectionState
  link,       \* connection: the stored QUIC connection
  line,       \* the tasks at its mutex
  beat,       \* pc of the heartbeat task
  newborn,    \* ServerConnection::new has not returned
  user,       \* pc of the request
  closer,     \* pc of close
  shutdown,   \* the flag
  failures,   \* consecutive_failures
  sinceAck,   \* intervals since last_heartbeat, Never before the first one
  health,     \* HealthState
  faults      \* how often a connection broke

linkVars == <<state, link, line, beat, newborn, user, closer, shutdown,
              failures, sinceAck, health, faults>>
linkTasks == <<beat, newborn, user, closer, shutdown>>
monitorVars == <<failures, sinceAck, health>>

Never == -1
MaxFailures == 3
TimeoutIntervals == 3   \* HEARTBEAT_TIMEOUT / HEARTBEAT_INTERVAL
Alive == {"fresh", "serving", "legacy"}
Usable == state = "Connected" /\ link \in Alive

LinkInit ==
  /\ state = "Connecting"
  /\ link = "none"
  /\ line = <<>>
  /\ beat = "dial"
  /\ newborn = TRUE
  /\ user = "idle"
  /\ closer = "no"
  /\ shutdown = FALSE
  /\ failures = 0
  /\ sinceAck = Never
  /\ health = "Connecting"
  /\ faults = 0

Queue(t) == line' = Append(line, t)
Holds(t) == line # <<>> /\ Head(line) = t
Leave(t) == \E i \in DOMAIN line : line[i] = t /\ line' = RemoveAt(line, i)

-----------------------------------------------------------------------------
(* send_message by the task that holds the mutex *)

\* What the server makes of a message, and whether the task gets its answer.
\* Its handler takes the first message for the capabilities and drops any
\* other; later it does not know them any more.
Exchange(isCapabilities, ok) ==
  CASE link = "fresh"             -> /\ ok = isCapabilities
                                     /\ link' = IF isCapabilities THEN "serving" ELSE "legacy"
    [] link \in {"serving", "legacy"} -> ok = ~isCapabilities /\ UNCHANGED link
    [] link \in {"none", "lost"}  -> ~ok /\ UNCHANGED link
    [] link = "silent"            -> FALSE

UserCalls ==
  /\ user = "idle"
  /\ ~newborn /\ closer = "no"
  /\ user' = "call"
  /\ Queue("user")
  /\ UNCHANGED <<state, link, beat, newborn, closer, shutdown, failures, sinceAck, health, faults>>

UserReturns ==
  /\ user = "call"
  /\ Holds("user")
  /\ \E ok \in BOOLEAN : Exchange(FALSE, ok)
  /\ user' = "idle"
  /\ Leave("user")
  /\ UNCHANGED <<state, beat, newborn, closer, shutdown, failures, sinceAck, health, faults>>

-----------------------------------------------------------------------------
(* HealthMonitor *)

\* calculate_state; the round trip times and the packet loss decide only
\* whether an acknowledged connection counts as degraded.
CalculateState(fails, since, poor) ==
  IF (since # Never /\ since > TimeoutIntervals) \/ fails >= MaxFailures THEN "Disconnected"
  ELSE IF since = Never THEN "Connecting"
  ELSE IF poor \/ fails >= 1 THEN "Degraded"
  ELSE "Connected"

ProcessAck ==
  /\ failures' = 0
  /\ sinceAck' = 0
  /\ \E poor \in BOOLEAN : health' = CalculateState(0, 0, poor)

Elapsed(n) == IF sinceAck = Never THEN Never
              ELSE IF sinceAck + n > TimeoutIntervals + 1 THEN TimeoutIntervals + 1
              ELSE sinceAck + n

RecordFailure(n) ==
  /\ failures' = IF failures < MaxFailures THEN failures + 1 ELSE failures
  /\ sinceAck' = Elapsed(n)
  /\ \E poor \in BOOLEAN : health' = CalculateState(failures', sinceAck', poor)

Reset == failures' = 0 /\ sinceAck' = Never /\ health' = "Connecting"

-----------------------------------------------------------------------------
(* heartbeat_loop *)

\* Mutant: the loop does not look at the shutdown flag.
BeatTicksOn ==
  /\ beat = "tick"
  /\ sinceAck' = Elapsed(1)
  /\ IF state = "Connected" THEN beat' = "beat" /\ Queue("beat")
                            ELSE UNCHANGED <<beat, line>>
  /\ UNCHANGED <<state, link, newborn, user, closer, shutdown, failures, health, faults>>

\* The tick: shutdown is looked at first; without a connection nothing is sent.
BeatTicks ==
  /\ beat = "tick"
  /\ IF shutdown
     THEN beat' = "ended" /\ UNCHANGED <<line, sinceAck>>
     ELSE /\ sinceAck' = Elapsed(1)
          /\ IF state = "Connected" THEN beat' = "beat" /\ Queue("beat")
                                    ELSE UNCHANGED <<beat, line>>
  /\ UNCHANGED <<state, link, newborn, user, closer, shutdown, failures, health, faults>>

BeatAnswered ==
  /\ beat = "beat"
  /\ Holds("beat")
  /\ \/ /\ Exchange(FALSE, TRUE)
        /\ ProcessAck
        /\ beat' = "tick"
     \/ /\ Exchange(FALSE, FALSE)
        /\ RecordFailure(0)
        /\ beat' = "failed"
  /\ Leave("beat")
  /\ UNCHANGED <<state, newborn, user, closer, shutdown, faults>>

\* The heartbeat times out at the mutex or on the way.
BeatTimesOut ==
  /\ beat = "beat"
  /\ RecordFailure(TimeoutIntervals)
  /\ beat' = "failed"
  /\ Leave("beat")
  /\ UNCHANGED <<state, link, newborn, user, closer, shutdown, faults>>

\* is_timed_out, where the milliseconds decide at exactly three intervals: the
\* monitor is reset and reconnect begins.
BeatFailed ==
  /\ beat = "failed"
  /\ \/ /\ IF sinceAck = Never THEN failures >= MaxFailures ELSE sinceAck >= TimeoutIntervals
        /\ Reset
        /\ state' = "Reconnecting"
        /\ beat' = "retry"
     \/ /\ IF sinceAck = Never THEN failures < MaxFailures ELSE sinceAck <= TimeoutIntervals
        /\ beat' = "tick"
        /\ UNCHANGED <<state, failures, sinceAck, health, faults>>
  /\ UNCHANGED <<link, line, newborn, user, closer, shutdown, faults>>

\* The head of reconnect's loop.
Retry ==
  /\ beat = "retry"
  /\ IF shutdown THEN beat' = "ended" /\ UNCHANGED state
                 ELSE beat' = "dial" /\ state' = "Connecting"
  /\ UNCHANGED <<link, line, newborn, user, closer, shutdown, failures, sinceAck, health, faults>>

-----------------------------------------------------------------------------
(* connect, by new or by reconnect *)

\* Mutant: the heartbeat task gives up with the first failure.
ConnectFailsForGood ==
  /\ beat' = "ended"
  /\ IF newborn THEN link' = "none" ELSE UNCHANGED link

\* A failed connect: new returns the error and drops everything, reconnect
\* sleeps and tries again.
ConnectFails ==
  IF newborn THEN beat' = "ended" /\ link' = "none"
             ELSE beat' = "retry" /\ UNCHANGED link

DialEnds ==
  /\ beat = "dial"
  /\ \/ beat' = "store" /\ Queue("beat") /\ UNCHANGED link
     \/ ConnectFails /\ UNCHANGED line
  /\ UNCHANGED <<state, newborn, user, closer, shutdown, failures, sinceAck, health, faults>>

\* The mutex is held for the assignment only; the replaced connection is
\* dropped.
KeepConnection ==
  /\ beat = "store"
  /\ Holds("beat")
  /\ link' = "fresh"
  /\ beat' = "publish"
  /\ Leave("beat")
  /\ UNCHANGED <<state, newborn, user, closer, shutdown, failures, sinceAck, health, faults>>

Publish ==
  /\ beat = "publish"
  /\ state' = "Connected"
  /\ beat' = "warm"
  /\ Queue("beat")
  /\ UNCHANGED <<link, newborn, user, closer, shutdown, failures, sinceAck, health, faults>>

WarmedUp == beat' = "tick" /\ newborn' = FALSE

\* warm_up_connection: the answer to the capabilities, or an error, or 30
\* seconds at the mutex and on the way.
WarmUpEnds ==
  /\ beat = "warm"
  /\ \/ Holds("beat") /\ Exchange(TRUE, TRUE) /\ WarmedUp
     \/ ConnectFails /\ UNCHANGED newborn
  /\ Leave("beat")
  /\ UNCHANGED <<state, user, closer, shutdown, failures, sinceAck, health, faults>>

-----------------------------------------------------------------------------
(* close *)

\* The pool gives the connection up to close, with no request in it.
CloseBegins ==
  /\ closer = "no" /\ ~newborn /\ user = "idle"
  /\ shutdown' = TRUE
  /\ closer' = "mark"
  /\ UNCHANGED <<state, link, line, beat, newborn, user, failures, sinceAck, health, faults>>

CloseMarks ==
  /\ closer = "mark"
  /\ state' = "Closed"
  /\ closer' = "take"
  /\ Queue("closer")
  /\ UNCHANGED <<link, beat, newborn, user, shutdown, failures, sinceAck, health, faults>>

CloseTakes ==
  /\ closer = "take"
  /\ Holds("closer")
  /\ link' = "none"
  /\ closer' = "done"
  /\ Leave("closer")
  /\ UNCHANGED <<state, beat, newborn, user, shutdown, failures, sinceAck, health, faults>>

\* The last task that shares the connection has gone: it is dropped.
LastTaskDrops ==
  /\ closer = "done" /\ beat = "ended"
  /\ link # "none"
  /\ link' = "none"
  /\ UNCHANGED <<state, line, linkTasks, monitorVars, faults>>

-----------------------------------------------------------------------------
(* The network and the server's handler *)

GoesSilent ==
  /\ link \in Alive
  /\ faults < MaxFaults
  /\ faults' = faults + 1
  /\ link' = "silent"
  /\ UNCHANGED <<state, line, linkTasks, monitorVars>>

\* The other side closes the connection.
IsLost ==
  /\ link \in Alive
  /\ faults < MaxFaults
  /\ faults' = faults + 1
  /\ link' = "lost"
  /\ UNCHANGED <<state, line, linkTasks, monitorVars>>

\* iroh's idle timeout.
IdleTimeout ==
  /\ link = "silent"
  /\ link' = "lost"
  /\ UNCHANGED <<state, line, linkTasks, monitorVars, faults>>

\* The handler waits ten seconds for the capabilities.
CapabilitiesTimeOut ==
  /\ link = "fresh"
  /\ link' = "legacy"
  /\ UNCHANGED <<state, line, linkTasks, monitorVars, faults>>

BeatTask == BeatTicks \/ BeatAnswered \/ BeatTimesOut \/ BeatFailed \/ Retry
            \/ DialEnds \/ KeepConnection \/ Publish \/ WarmUpEnds
CloseTask == CloseMarks \/ CloseTakes \/ LastTaskDrops

LinkNext ==
  \/ UserCalls \/ UserReturns
  \/ BeatTask
  \/ CloseBegins \/ CloseTask
  \/ GoesSilent \/ IsLost \/ IdleTimeout \/ CapabilitiesTimeOut

DialSucceeds == DialEnds /\ beat' = "store"

LinkSpec == LinkInit /\ [][LinkNext]_linkVars

-----------------------------------------------------------------------------
(* Properties *)

\* The type invariant; every task is in the line at most once.
LinkTypeOK ==
  /\ state \in {"Connecting", "Connected", "Reconnecting", "Closed"}
  /\ link \in Alive \cup {"none", "silent", "lost"}
  /\ line \in Seq({"user", "beat", "closer"})
  /\ \A i, j \in DOMAIN line : line[i] = line[j] => i = j
  /\ beat \in {"tick", "beat", "failed", "retry", "dial", "store", "publish", "warm", "ended"}
  /\ newborn \in BOOLEAN /\ shutdown \in BOOLEAN
  /\ user \in {"idle", "call"}
  /\ closer \in {"no", "mark", "take", "done"}
  /\ failures \in 0 .. MaxFailures
  /\ sinceAck \in {Never} \cup 0 .. (TimeoutIntervals + 1)
  /\ health \in {"Connecting", "Connected", "Degraded", "Disconnected"}
  /\ faults \in 0 .. MaxFaults

\* A lost or silent connection is replaced in the end, whatever the user's
\* requests do at the mutex, unless it is closed (heartbeat_loop, reconnect).
LinkComesBack == ~Usable /\ ~newborn ~> Usable \/ shutdown

\* A reconnect that races with close may store a new connection after close has
\* taken the old one; it does not outlive the heartbeat task.
CloseIsFinal == shutdown ~> [](link = "none")

===============================================================================
