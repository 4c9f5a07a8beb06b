------------------------------ MODULE ClientPool ------------------------------
(***************************************************************************)
(* IrohClient (crates/client/src/network/client.rs): the pool of server     *)
(* connections, the servers it wants to stay connected to, the monitor task *)
(* that connects again, and the calls of the user interface.                *)
(*                                                                          *)
(* The mutex "connections" is held over a request's round trip and over a   *)
(* disconnect, but not while a connection is set up.  A connection that is  *)
(* in the pool reconnects by itself (ClientLink); the monitor looks only at *)
(* whether there is one.                                                    *)
(***************************************************************************)
EXTENDS Integers, FiniteSets

CONSTANTS
  Host,         \* servers (EndpointId)
  Caller,       \* tasks of the user interface and of the virtual devices
  Monitor,      \* the monitor task
  NoHost,
  AllowedHosts, \* allowed_servers; empty allows all
  MaxAttempts   \* attempt numbers from which the delay is the longest

ASSUME PoolAssumption ==
  /\ Monitor \notin Caller
  /\ NoHost \notin Host
  /\ AllowedHosts \subseteq Host
  /\ MaxAttempts \in Nat \ {0}

VARIABLES
  pool,       \* connections: the servers that have one
  strays,     \* servers whose connection was replaced and still runs
  targets,    \* target_servers
  mutex,      \* who holds "connections"
  call,       \* caller -> pc and server
  monitor,    \* pc, its copy of the targets, those still to look at, the one at hand
  attempts,   \* reconnect_attempts
  leftOnPurpose \* history: disconnected, and no connect begun or under way since

poolVars == <<pool, strays, targets, mutex, call, monitor, attempts, leftOnPurpose>>

Free == "free"
NoCall == [pc |-> "idle", host |-> NoHost]

PoolInit ==
  /\ pool = {}
  /\ strays = {}
  /\ targets = {}
  /\ mutex = Free
  /\ call = [k \in Caller |-> NoCall]
  /\ monitor = [pc |-> "scan", copy |-> {}, todo |-> {}, host |-> NoHost]
  /\ attempts = [s \in Host |-> 0]
  /\ leftOnPurpose = {}

\* HashMap::insert: a connection that is replaced is dropped without close, and
\* its heartbeat task goes on.
Insert(s) ==
  /\ pool' = pool \cup {s}
  /\ strays' = IF s \in pool THEN strays \cup {s} ELSE strays

Goes(k, pc) == call' = [call EXCEPT ![k].pc = pc]
Returns(k) == call' = [call EXCEPT ![k] = NoCall]
Allowed(s) == AllowedHosts = {} \/ s \in AllowedHosts

-----------------------------------------------------------------------------
(* connect_to_server *)

ConnectBegins(k, s) ==
  /\ call[k].pc = "idle"
  /\ Allowed(s)
  /\ call' = [call EXCEPT ![k] = [pc |-> "check", host |-> s]]
  /\ leftOnPurpose' = leftOnPurpose \ {s}
  /\ UNCHANGED <<pool, strays, targets, mutex, monitor, attempts>>

CheckPool(k) ==
  /\ call[k].pc = "check"
  /\ mutex = Free
  /\ IF call[k].host \in pool
     THEN targets' = targets \cup {call[k].host} /\ Returns(k)
     ELSE Goes(k, "setup") /\ UNCHANGED targets
  /\ UNCHANGED <<pool, strays, mutex, monitor, attempts, leftOnPurpose>>

SetupEnds(k) ==
  /\ call[k].pc = "setup"
  /\ Goes(k, "insert") \/ Returns(k)
  /\ UNCHANGED <<pool, strays, targets, mutex, monitor, attempts, leftOnPurpose>>

InsertConnection(k) ==
  /\ call[k].pc = "insert"
  /\ mutex = Free
  /\ Insert(call[k].host)
  /\ Goes(k, "target")
  /\ UNCHANGED <<targets, mutex, monitor, attempts, leftOnPurpose>>

AddTarget(k) ==
  /\ call[k].pc = "target"
  /\ targets' = targets \cup {call[k].host}
  /\ Returns(k)
  /\ UNCHANGED <<pool, strays, mutex, monitor, attempts, leftOnPurpose>>

-----------------------------------------------------------------------------
(* disconnect_from_server and the requests *)

\* A server without a connection is an error and stays a target.
DisconnectBegins(k, s) ==
  /\ call[k].pc = "idle"
  /\ mutex = Free
  /\ s \in pool
  /\ mutex' = k
  /\ pool' = pool \ {s}
  /\ call' = [call EXCEPT ![k] = [pc |-> "close", host |-> s]]
  /\ UNCHANGED <<strays, targets, monitor, attempts, leftOnPurpose>>

Connecting(s) == \E k \in Caller : call[k].pc \notin {"idle", "close", "request"} /\ call[k].host = s

DisconnectEnds(k) ==
  /\ call[k].pc = "close"
  /\ targets' = targets \ {call[k].host}
  /\ leftOnPurpose' = IF Connecting(call[k].host) THEN leftOnPurpose
                      ELSE leftOnPurpose \cup {call[k].host}
  /\ mutex' = Free
  /\ Returns(k)
  /\ UNCHANGED <<pool, strays, monitor, attempts>>

\* list, attach, detach, transfer.
RequestBegins(k, s) ==
  /\ call[k].pc = "idle"
  /\ mutex = Free
  /\ s \in pool
  /\ mutex' = k
  /\ call' = [call EXCEPT ![k] = [pc |-> "request", host |-> s]]
  /\ UNCHANGED <<pool, strays, targets, monitor, attempts, leftOnPurpose>>

RequestEnds(k) ==
  /\ call[k].pc = "request"
  /\ mutex' = Free
  /\ Returns(k)
  /\ UNCHANGED <<pool, strays, targets, monitor, attempts, leftOnPurpose>>

-----------------------------------------------------------------------------
(* start_monitor *)

MonitorScan ==
  /\ monitor.pc = "scan"
  /\ monitor' = [pc |-> "look", copy |-> targets, todo |-> targets, host |-> NoHost]
  /\ UNCHANGED <<pool, strays, targets, mutex, call, attempts, leftOnPurpose>>

MonitorLook(s) ==
  /\ monitor.pc = "look"
  /\ s \in monitor.todo
  /\ mutex = Free
  /\ IF s \in pool
     THEN /\ monitor' = [monitor EXCEPT !.todo = @ \ {s}]
          /\ attempts' = [attempts EXCEPT ![s] = 0]
     ELSE /\ monitor' = [monitor EXCEPT !.pc = "setup", !.todo = @ \ {s}, !.host = s]
          /\ attempts' = [attempts EXCEPT ![s] = IF @ < MaxAttempts THEN @ + 1 ELSE @]
  /\ UNCHANGED <<pool, strays, targets, mutex, call, leftOnPurpose>>

\* The delay of the attempt, the connection, and the reconciliation.
MonitorSetupEnds ==
  /\ monitor.pc = "setup"
  /\ monitor' \in {[monitor EXCEPT !.pc = "insert"],
                   [monitor EXCEPT !.pc = "look", !.host = NoHost]}
  /\ UNCHANGED <<pool, strays, targets, mutex, call, attempts, leftOnPurpose>>

MonitorInsert ==
  /\ monitor.pc = "insert"
  /\ mutex = Free
  /\ Insert(monitor.host)
  /\ attempts' = [attempts EXCEPT ![monitor.host] = 0]
  /\ monitor' = [monitor EXCEPT !.pc = "look", !.host = NoHost]
  /\ UNCHANGED <<targets, mutex, call, leftOnPurpose>>

\* Mutant: a server that could not be reached is not looked at again.
MonitorEndsRoundOnce ==
  /\ monitor.pc = "look"
  /\ monitor.todo = {}
  /\ \A s \in Host : attempts[s] = 0
  /\ monitor' = [monitor EXCEPT !.pc = "scan", !.copy = {}]
  /\ attempts' = [s \in Host |-> IF s \in monitor.copy THEN attempts[s] ELSE 0]
  /\ UNCHANGED <<pool, strays, targets, mutex, call, leftOnPurpose>>

\* The attempts of servers that were no targets in this round are forgotten; then
\* the monitor sleeps for a second.
MonitorEndsRound ==
  /\ monitor.pc = "look"
  /\ monitor.todo = {}
  /\ monitor' = [monitor EXCEPT !.pc = "scan", !.copy = {}]
  /\ attempts' = [s \in Host |-> IF s \in monitor.copy THEN attempts[s] ELSE 0]
  /\ UNCHANGED <<pool, strays, targets, mutex, call, leftOnPurpose>>

-----------------------------------------------------------------------------
CallSteps(k) ==
  CheckPool(k) \/ SetupEnds(k) \/ InsertConnection(k) \/ AddTarget(k)
  \/ DisconnectEnds(k) \/ RequestEnds(k)

MonitorSteps ==
  MonitorScan \/ (\E s \in Host : MonitorLook(s)) \/ MonitorSetupEnds
  \/ MonitorInsert \/ MonitorEndsRound

PoolNext ==
  \/ \E k \in Caller :
       \/ \E s \in Host : ConnectBegins(k, s) \/ DisconnectBegins(k, s) \/ RequestBegins(k, s)
       \/ CallSteps(k)
  \/ MonitorSteps

MonitorReaches(s) == MonitorSetupEnds /\ monitor.host = s /\ monitor'.pc = "insert"

PoolSpec == PoolInit /\ [][PoolNext]_poolVars

-----------------------------------------------------------------------------
(* Properties *)

\* The type invariant.
PoolTypeOK ==
  /\ pool \subseteq Host /\ strays \subseteq Host /\ targets \subseteq Host
  /\ leftOnPurpose \subseteq Host
  /\ mutex \in Caller \cup {Free}
  /\ call \in [Caller -> [pc : {"idle", "check", "setup", "insert", "target", "close", "request"},
                          host : Host \cup {NoHost}]]
  /\ monitor \in [pc : {"scan", "look", "setup", "insert"}, copy : SUBSET Host, todo : SUBSET Host,
                  host : Host \cup {NoHost}]
  /\ attempts \in [Host -> 0 .. MaxAttempts]

\* A server that is wanted gets its connection, though requests hold the mutex,
\* attempts fail, and the monitor works from a copy of the targets.
TargetsAreServed == \A s \in Host : s \in targets ~> s \in pool \/ s \notin targets

\* "Remove from targets so we don't auto-reconnect" (client.rs:527): a server
\* that was left on purpose stays disconnected.
StaysDisconnected == \A s \in leftOnPurpose : s \notin pool
===============================================================================
