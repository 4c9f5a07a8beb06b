------------------------------ MODULE MCServerParts ------------------------------
(***************************************************************************)
(* One instance of each part of the server whose safety is at stake beside   *)
(* the devices themselves: sessions, bandwidth limits, notices, interrupt    *)
(* polling, the two schedulers, the terminal interface and the audit log.    *)
(* They share no state; "focus" says which one a behaviour is about.          *)
(***************************************************************************)
EXTENDS TLC, SessionExpiry, RateLimiter, ClientNotices, InterruptPolling,
        QosQueue, FairScheduler, ServerTui, AuditLog

CONSTANTS
  keyboard, storage,  \* interface classes
  vid1, pid1, pid2,
  sender1, sender2, device, client1, client2

VARIABLE focus

Keyboard == [vid |-> vid1, pid |-> pid1, class |-> keyboard]
Disk == [vid |-> vid1, pid |-> pid2, class |-> storage]
MCThing == {Keyboard, Disk}

Filter(vid, pid) == [vid |-> vid, pid |-> pid, lower |-> TRUE]
Anybody == {Anyone}

\* The vendor's policy has a window over midnight and refuses storage; what the
\* default would say of the disk does not matter.
MCPolicies ==
  << [filter |-> Filter(AnyId, AnyId), clients |-> Anybody, restricted |-> {},
      windows |-> <<>>, maxDuration |-> Unlimited],
     [filter |-> Filter(vid1, AnyId), clients |-> Anybody, restricted |-> {storage},
      windows |-> <<BadWindow, [start |-> 2, end |-> 1]>>, maxDuration |-> 3] >>

\* Two clients of one device, each with a bucket of its own.
MCPath == [s \in {sender1, sender2} |->
             IF s = sender1 THEN <<client1, device>> ELSE <<client2, device>>]
MCBurst == [b \in {client1, client2, device} |-> IF b = device THEN 3 ELSE 2]
MCRate == [b \in {client1, client2, device} |-> 1]

Init ==
  /\ focus \in {"sessions", "limits", "notices", "polling", "queue", "turns", "tui", "audit"}
  /\ SessionInit /\ (focus # "sessions" => now = 0)
  /\ LimiterInit /\ NoticesInit /\ PollingInit /\ QosInit /\ SchedulerInit
  /\ TuiInit /\ AuditInit

\* The variables of all parts but one.
ButSession ==
  <<limiterVars, noticeVars, pollingVars, qosVars,
    schedulerVars, tuiVars, auditVars>>
ButLimiter ==
  <<sessionVars, noticeVars, pollingVars, qosVars,
    schedulerVars, tuiVars, auditVars>>
ButNotices ==
  <<sessionVars, limiterVars, pollingVars, qosVars,
    schedulerVars, tuiVars, auditVars>>
ButPolling ==
  <<sessionVars, limiterVars, noticeVars, qosVars,
    schedulerVars, tuiVars, auditVars>>
ButQos ==
  <<sessionVars, limiterVars, noticeVars, pollingVars,
    schedulerVars, tuiVars, auditVars>>
ButScheduler ==
  <<sessionVars, limiterVars, noticeVars, pollingVars,
    qosVars, tuiVars, auditVars>>
ButTui ==
  <<sessionVars, limiterVars, noticeVars, pollingVars,
    qosVars, schedulerVars, auditVars>>
ButAudit ==
  <<sessionVars, limiterVars, noticeVars, pollingVars,
    qosVars, schedulerVars, tuiVars>>

Next ==
  \/ focus = "sessions" /\ SessionNext /\ UNCHANGED <<focus, ButSession>>
  \/ focus = "limits" /\ LimiterNext /\ UNCHANGED <<focus, ButLimiter>>
  \/ focus = "notices" /\ NoticesNext /\ UNCHANGED <<focus, ButNotices>>
  \/ focus = "polling" /\ PollingNext /\ UNCHANGED <<focus, ButPolling>>
  \/ focus = "queue" /\ QosNext /\ UNCHANGED <<focus, ButQos>>
  \/ focus = "turns" /\ SchedulerNext /\ UNCHANGED <<focus, ButScheduler>>
  \/ focus = "tui" /\ TuiNext /\ UNCHANGED <<focus, ButTui>>
  \/ focus = "audit" /\ AuditNext /\ UNCHANGED <<focus, ButAudit>>

Spec == Init /\ [][Next]_<<focus, sessionVars, ButSession>>

\* Every variable of the eight parts has values of its type.
TypeOK ==
  /\ SessionTypeOK /\ LimiterTypeOK /\ NoticesTypeOK /\ PollingTypeOK
  /\ QosTypeOK /\ SchedulerTypeOK /\ TuiTypeOK /\ AuditTypeOK

\* The queue loses no request, and the turns pass nobody over (PriorityQueue and
\* FairScheduler in qos.rs).
QosServesAll == RequestsConserved /\ NobodyIsPassedOver

Symmetric == Permutations(Peer) \cup Permutations(Session)
===============================================================================
