---------------------------- MODULE ClientStateProofs ----------------------------
(***************************************************************************)
(* A server connection, the pool of connections and the terminal interface *)
(* of the client: what keeps each of them sound, for any number of servers,*)
(* callers, devices and tasks.                                             *)
(***************************************************************************)
EXTENDS MCProgress, SequenceTheorems, FiniteSetTheorems, WellFoundedInduction, TLAPS

-----------------------------------------------------------------------------
(* Numbers *)

Less(a, b) == a < b
Below == OpToRel(Less, Nat)

\* Numbers have a least one.
LEMMA LeastOf ==
  ASSUME NEW S \in SUBSET Nat, S # {}
  PROVE  \E p \in S : \A q \in S : p <= q
<1>1. IsWellFoundedOn(Below, Nat)
  BY NatLessThanWellFounded DEF OpToRel, Below, Less
<1>3. PICK x \in S : \A y \in S : ~(<<y, x>> \in Below)
  BY <1>1, WFMin, Zenon
<1>4. \A y \in S : ~(y < x)
  BY <1>3 DEF Below, Less, OpToRel
<1> QED
  BY <1>4

-----------------------------------------------------------------------------
(* The connection *)

Apart(s) == \A i, j \in DOMAIN s : s[i] = s[j] => i = j
Tasks == {"user", "beat", "closer"}
Queued(t) == \E i \in DOMAIN line : line[i] = t

\* A task is in the line exactly while it uses the connection or waits for it.
Lined ==
  /\ Queued("user") <=> user = "call"
  /\ Queued("beat") <=> beat \in {"beat", "store", "warm"}
  /\ Queued("closer") <=> closer = "take"

LinkInv == LinkTypeOK /\ Lined

\* Behind the line.
LEMMA QueueEffect ==
  ASSUME line \in Seq(Tasks), Apart(line), NEW t \in Tasks, ~Queued(t), Queue(t)
  PROVE  /\ line' \in Seq(Tasks) /\ Apart(line)'
         /\ Queued(t)' /\ \A x \in Tasks \ {t} : Queued(x)' <=> Queued(x)
<1>1. /\ line' \in Seq(Tasks) /\ Len(line) \in Nat
      /\ DOMAIN line = 1 .. Len(line) /\ DOMAIN line' = 1 .. (Len(line) + 1)
      /\ \A i \in 1 .. Len(line) : line'[i] = line[i]
      /\ line'[Len(line) + 1] = t
  BY DEF Queue
<1> QED
  BY <1>1 DEF Apart, Queued

\* Out of the line.
LEMMA LeaveEffect ==
  ASSUME line \in Seq(Tasks), Apart(line), NEW t \in Tasks, Leave(t)
  PROVE  /\ line' \in Seq(Tasks) /\ Apart(line)'
         /\ ~Queued(t)' /\ \A x \in Tasks \ {t} : Queued(x)' <=> Queued(x)
<1>1. PICK k \in DOMAIN line : line[k] = t /\ line' = RemoveAt(line, k)
  BY DEF Leave
<1>2. Len(line) \in Nat /\ DOMAIN line = 1 .. Len(line) /\ k \in 1 .. Len(line)
  BY <1>1
<1>3. /\ line' \in Seq(Tasks) /\ Len(line') = Len(line) - 1 /\ DOMAIN line' = 1 .. (Len(line) - 1)
      /\ \A i \in 1 .. (Len(line) - 1) : line'[i] = IF i < k THEN line[i] ELSE line[i + 1]
  <2> DEFINE a == SubSeq(line, 1, k - 1)
             b == SubSeq(line, k + 1, Len(line))
  <2>0. \A i \in 1 .. Len(line) : line[i] \in Tasks
    BY <1>2
  <2>1. /\ a \in Seq(Tasks) /\ Len(a) = k - 1
        /\ \A i \in 1 .. (k - 1) : a[i] = line[i]
    <3>1. \A i \in 1 .. k - 1 : line[i] \in Tasks
      BY <1>2, <2>0
    <3>2. /\ a \in Seq(Tasks) /\ Len(a) = IF 1 <= k - 1 THEN k - 1 - 1 + 1 ELSE 0
          /\ \A i \in 1 .. k - 1 - 1 + 1 : a[i] = line[1 + i - 1]
      BY <1>2, <3>1, SubSeqProperties
    <3> QED
      BY <1>2, <3>2
  <2>2. /\ b \in Seq(Tasks) /\ Len(b) = Len(line) - k
        /\ \A i \in 1 .. (Len(line) - k) : b[i] = line[k + i]
    <3>1. \A i \in k + 1 .. Len(line) : line[i] \in Tasks
      BY <1>2, <2>0
    <3>2. /\ b \in Seq(Tasks) /\ Len(b) = IF k + 1 <= Len(line) THEN Len(line) - (k + 1) + 1 ELSE 0
          /\ \A i \in 1 .. Len(line) - (k + 1) + 1 : b[i] = line[k + 1 + i - 1]
      BY <1>2, <3>1, SubSeqProperties
    <3> QED
      BY <1>2, <3>2
  <2>3. line' = a \o b
    BY <1>1 DEF RemoveAt
  <2> HIDE DEF a, b
  <2>4. /\ line' \in Seq(Tasks) /\ Len(line') = Len(a) + Len(b)
        /\ \A i \in 1 .. Len(a) + Len(b) :
             line'[i] = IF i <= Len(a) THEN a[i] ELSE b[i - Len(a)]
    BY <2>1, <2>2, <2>3, ConcatProperties
  <2>5. Len(a) + Len(b) = Len(line) - 1
    BY <1>2, <2>1, <2>2
  <2>6. ASSUME NEW i \in 1 .. (Len(line) - 1)
        PROVE  line'[i] = IF i < k THEN line[i] ELSE line[i + 1]
    <3>1. CASE i < k
      BY <1>2, <2>1, <2>4, <2>5, <3>1
    <3>2. CASE ~(i < k)
      <4>1. i - (k - 1) \in 1 .. (Len(line) - k) /\ k + (i - (k - 1)) = i + 1
        BY <1>2, <3>2
      <4>2. line'[i] = b[i - (k - 1)]
        BY <1>2, <2>1, <2>4, <2>5, <3>2
      <4> QED
        BY <2>2, <3>2, <4>1, <4>2
    <3> QED
      BY <3>1, <3>2
  <2>7. DOMAIN line' = 1 .. Len(line')
    BY <2>4
  <2> QED
    BY <2>4, <2>5, <2>6, <2>7
<1>4. \A i \in 1 .. Len(line) : i # k => line[i] # t
  BY <1>1, <1>2 DEF Apart
<1>5. Apart(line)' /\ ~Queued(t)'
  <2>1. \A i \in 1 .. (Len(line) - 1) :
          \E x \in 1 .. Len(line) : x # k /\ line'[i] = line[x] /\ x = IF i < k THEN i ELSE i + 1
    BY <1>2, <1>3
  <2>2. ASSUME NEW i \in 1 .. (Len(line) - 1), NEW j \in 1 .. (Len(line) - 1), line'[i] = line'[j]
        PROVE  i = j
    <3>1. PICK x \in 1 .. Len(line) : line'[i] = line[x] /\ x = IF i < k THEN i ELSE i + 1
      BY <2>1
    <3>2. PICK y \in 1 .. Len(line) : line'[j] = line[y] /\ y = IF j < k THEN j ELSE j + 1
      BY <2>1
    <3>3. x = y
      BY <1>2, <2>2, <3>1, <3>2 DEF Apart
    <3>4. CASE i < k
      BY <1>2, <3>1, <3>2, <3>3, <3>4
    <3>5. CASE ~(i < k)
      BY <1>2, <3>1, <3>2, <3>3, <3>5
    <3> QED
      BY <3>4, <3>5
  <2>3. \A i \in DOMAIN line' : line'[i] # t
    BY <1>3, <1>4, <2>1
  <2> QED
    BY <1>3, <2>2, <2>3 DEF Apart, Queued
<1>6. ASSUME NEW x \in Tasks \ {t}
      PROVE  Queued(x)' <=> Queued(x)
  <2>1. ASSUME NEW i \in 1 .. (Len(line) - 1), line'[i] = x
        PROVE  Queued(x)
    <3> DEFINE p == IF i < k THEN i ELSE i + 1
    <3>1. p \in 1 .. Len(line) /\ line[p] = x
      BY <1>2, <1>3, <2>1
    <3> HIDE DEF p
    <3> QED
      BY <1>2, <3>1 DEF Queued
  <2>2. ASSUME NEW i \in 1 .. Len(line), line[i] = x
        PROVE  Queued(x)'
    <3>1. i # k
      BY <1>1, <2>2
    <3>2. CASE i < k
      <4>1. i \in 1 .. (Len(line) - 1) /\ line'[i] = x
        BY <1>2, <1>3, <2>2, <3>2
      <4> QED
        BY <1>3, <4>1 DEF Queued
    <3>3. CASE i > k
      <4>1. i - 1 \in 1 .. (Len(line) - 1) /\ line'[i - 1] = x
        BY <1>2, <1>3, <2>2, <3>3
      <4> QED
        BY <1>3, <4>1 DEF Queued
    <3> QED
      BY <1>2, <3>1, <3>2, <3>3
  <2>3. Queued(x) => \E i \in 1 .. Len(line) : line[i] = x
    BY <1>2 DEF Queued
  <2>4. Queued(x)' => \E i \in 1 .. (Len(line) - 1) : line'[i] = x
    BY <1>3 DEF Queued
  <2> QED
    BY <2>1, <2>2, <2>3, <2>4
<1> QED
  BY <1>3, <1>5, <1>6

\* The line apart, the connection's variables.
LinkValues ==
  /\ state \in {"Connecting", "Connected", "Reconnecting", "Closed"}
  /\ link \in Alive \cup {"none", "silent", "lost"}
  /\ beat \in {"tick", "beat", "failed", "retry", "dial", "store", "publish", "warm", "ended"}
  /\ newborn \in BOOLEAN /\ shutdown \in BOOLEAN
  /\ user \in {"idle", "call"}
  /\ closer \in {"no", "mark", "take", "done"}
  /\ failures \in 0 .. MaxFailures
  /\ sinceAck \in {Never} \cup 0 .. (TimeoutIntervals + 1)
  /\ health \in {"Connecting", "Connected", "Degraded", "Disconnected"}
  /\ faults \in 0 .. MaxFaults

LEMMA LinkValuesStep ==
  ASSUME LinkValues, [LinkNext]_linkVars
  PROVE  LinkValues'
<1> USE LinkAssumption DEF LinkValues, Alive
<1>1. CASE UserCalls \/ UserReturns
  BY <1>1 DEF UserCalls, UserReturns, Exchange
<1>2. CASE BeatTicks \/ BeatAnswered \/ BeatTimesOut
  <2>1. CASE BeatTicks
    BY <2>1 DEF BeatTicks, Elapsed, Never, TimeoutIntervals
  <2>2. CASE BeatAnswered
    <3>1. UNCHANGED <<state, newborn, user, closer, shutdown, faults>>
          /\ beat' \in {"tick", "failed"} /\ (ProcessAck \/ RecordFailure(0))
      BY <2>2 DEF BeatAnswered
    <3>2. link' \in Alive \cup {"none", "silent", "lost"}
      BY <2>2 DEF BeatAnswered, Exchange
    <3>3. /\ failures' \in 0 .. MaxFailures
          /\ sinceAck' \in {Never} \cup 0 .. (TimeoutIntervals + 1)
          /\ health' \in {"Connecting", "Connected", "Degraded", "Disconnected"}
      BY <3>1 DEF ProcessAck, RecordFailure, Elapsed, CalculateState, Never, TimeoutIntervals,
                  MaxFailures
    <3> QED
      BY <3>1, <3>2, <3>3
  <2>3. CASE BeatTimesOut
    BY <2>3 DEF BeatTimesOut, RecordFailure, Elapsed, CalculateState, Never, TimeoutIntervals,
                MaxFailures
  <2> QED
    BY <1>2, <2>1, <2>2, <2>3
<1>3. CASE BeatFailed \/ Retry
  BY <1>3 DEF BeatFailed, Retry, Reset, MaxFailures
<1>4. CASE DialEnds \/ KeepConnection \/ Publish \/ WarmUpEnds
  BY <1>4 DEF DialEnds, KeepConnection, Publish, WarmUpEnds, ConnectFails, WarmedUp, Exchange
<1>5. CASE CloseBegins \/ CloseTask
  BY <1>5 DEF CloseBegins, CloseTask, CloseMarks, CloseTakes, LastTaskDrops, linkTasks, monitorVars
<1>6. CASE GoesSilent \/ IsLost \/ IdleTimeout \/ CapabilitiesTimeOut
  BY <1>6 DEF GoesSilent, IsLost, IdleTimeout, CapabilitiesTimeOut, linkTasks, monitorVars
<1>7. CASE UNCHANGED linkVars
  BY <1>7 DEF linkVars
<1> QED
  BY <1>1, <1>2, <1>3, <1>4, <1>5, <1>6, <1>7 DEF LinkNext, BeatTask

LineSound == line \in Seq(Tasks) /\ Apart(line) /\ Lined

\* The user, the heartbeat task and whoever closes enter and leave the line.
LEMMA LineStep ==
  ASSUME LinkValues, LineSound, [LinkNext]_linkVars
  PROVE  LineSound'
<1> USE DEF LineSound, Lined, Tasks
<1>0. /\ "user" \in Tasks /\ "beat" \in Tasks /\ "closer" \in Tasks
  OBVIOUS
<1>1. ASSUME UNCHANGED <<line, user, beat, closer>>
      PROVE  LineSound'
  BY <1>1 DEF Apart, Queued
<1>2. ASSUME Queue("user"), user = "idle", user' = "call", UNCHANGED <<beat, closer>>
      PROVE  LineSound'
  BY <1>0, <1>2, QueueEffect
<1>3. ASSUME Leave("user"), user' = "idle", UNCHANGED <<beat, closer>>
      PROVE  LineSound'
  BY <1>0, <1>3, LeaveEffect
<1>4. ASSUME Queue("beat"), beat \notin {"beat", "store", "warm"}, beat' \in {"beat", "store", "warm"},
             UNCHANGED <<user, closer>>
      PROVE  LineSound'
  BY <1>0, <1>4, QueueEffect
<1>5. ASSUME Leave("beat"), beat' \notin {"beat", "store", "warm"}, UNCHANGED <<user, closer>>
      PROVE  LineSound'
  BY <1>0, <1>5, LeaveEffect
<1>6. ASSUME Queue("closer"), closer = "mark", closer' = "take", UNCHANGED <<user, beat>>
      PROVE  LineSound'
  BY <1>0, <1>6, QueueEffect
<1>7. ASSUME Leave("closer"), closer' = "done", UNCHANGED <<user, beat>>
      PROVE  LineSound'
  BY <1>0, <1>7, LeaveEffect
<1>8. ASSUME UNCHANGED <<line, user, closer>>, beat \notin {"beat", "store", "warm"},
             beat' \notin {"beat", "store", "warm"}
      PROVE  LineSound'
  BY <1>8 DEF Apart, Queued
<1>9. ASSUME UNCHANGED <<line, user, beat>>, closer # "take", closer' # "take"
      PROVE  LineSound'
  BY <1>9 DEF Apart, Queued
<1> HIDE DEF LineSound, Lined, Tasks
<1>10. CASE UserCalls \/ UserReturns
  BY <1>2, <1>3, <1>10 DEF UserCalls, UserReturns
<1>11. CASE BeatTicks \/ BeatAnswered \/ BeatTimesOut
  BY <1>1, <1>4, <1>5, <1>8, <1>11 DEF BeatTicks, BeatAnswered, BeatTimesOut
<1>12. CASE BeatFailed \/ Retry
  BY <1>8, <1>12 DEF BeatFailed, Retry
<1>13. CASE DialEnds \/ KeepConnection \/ Publish \/ WarmUpEnds
  BY <1>4, <1>5, <1>8, <1>13 DEF DialEnds, KeepConnection, Publish, WarmUpEnds, ConnectFails, WarmedUp
<1>14. CASE CloseBegins \/ CloseTask
  BY <1>1, <1>6, <1>7, <1>9, <1>14
     DEF CloseBegins, CloseTask, CloseMarks, CloseTakes, LastTaskDrops, linkTasks
<1>15. CASE GoesSilent \/ IsLost \/ IdleTimeout \/ CapabilitiesTimeOut \/ UNCHANGED linkVars
  BY <1>1, <1>15 DEF GoesSilent, IsLost, IdleTimeout, CapabilitiesTimeOut, linkTasks, linkVars
<1> QED
  BY <1>10, <1>11, <1>12, <1>13, <1>14, <1>15 DEF LinkNext, BeatTask

LEMMA LinkStep ==
  ASSUME LinkInv, [LinkNext]_linkVars
  PROVE  LinkInv'
<1>1. LinkValues /\ LineSound
  BY DEF LinkInv, LinkTypeOK, LinkValues, LineSound, Tasks, Apart
<1>2. LinkValues' /\ LineSound'
  BY <1>1, LinkValuesStep, LineStep
<1> QED
  BY <1>2 DEF LinkInv, LinkTypeOK, LinkValues, LineSound, Tasks, Apart

LEMMA LinkStarts ==
  ASSUME LinkInit
  PROVE  LinkInv
<1>1. <<>> \in Seq({"user", "beat", "closer"}) /\ DOMAIN <<>> = {}
  OBVIOUS
<1>2. 0 \in 0 .. MaxFaults /\ 0 \in 0 .. MaxFailures
  BY LinkAssumption DEF MaxFailures
<1>3. LinkTypeOK
  BY <1>1, <1>2 DEF LinkInit, LinkTypeOK
<1> QED
  BY <1>1, <1>3 DEF LinkInit, LinkInv, Lined, Queued

-----------------------------------------------------------------------------
(* The pool *)

\* Whoever is at work is so for a server.
PoolInv ==
  /\ PoolTypeOK
  /\ \A k \in Caller : call[k].pc # "idle" => call[k].host \in Host
  /\ monitor.pc \in {"setup", "insert"} => monitor.host \in Host

LEMMA PoolStarts ==
  ASSUME PoolInit
  PROVE  PoolInv
<1>1. 0 \in 0 .. MaxAttempts
  BY PoolAssumption
<1>2. NoCall \in [pc : {"idle", "check", "setup", "insert", "target", "close", "request"},
                 host : Host \cup {NoHost}]
  BY DEF NoCall
<1>3. PoolTypeOK
  BY <1>1, <1>2 DEF PoolInit, PoolTypeOK
<1> QED
  BY <1>3 DEF PoolInit, PoolInv, NoCall

\* The calls of the interface and the monitor.
Calls == [pc : {"idle", "check", "setup", "insert", "target", "close", "request"},
          host : Host \cup {NoHost}]
Named(c) == c.pc # "idle" => c.host \in Host

LEMMA CallEffect ==
  ASSUME call \in [Caller -> Calls], \A k \in Caller : Named(call[k]),
         NEW k \in Caller, NEW c \in Calls, Named(c), call' = [call EXCEPT ![k] = c]
  PROVE  call' \in [Caller -> Calls] /\ \A x \in Caller : Named(call'[x])
OBVIOUS

LEMMA GoesEffect ==
  ASSUME call \in [Caller -> Calls], \A k \in Caller : Named(call[k]),
         NEW k \in Caller, call[k].pc # "idle",
         \/ \E pc \in {"setup", "insert", "target"} : Goes(k, pc)
         \/ Returns(k)
  PROVE  call' \in [Caller -> Calls] /\ \A x \in Caller : Named(call'[x])
<1>1. call[k] \in Calls /\ call[k].host \in Host
  BY DEF Named
<1>2. CASE Returns(k)
  <2>1. NoCall \in Calls /\ Named(NoCall) /\ call' = [call EXCEPT ![k] = NoCall]
    BY <1>2 DEF NoCall, Calls, Named, Returns
  <2> QED
    BY <2>1, CallEffect
<1>3. ASSUME NEW pc \in {"setup", "insert", "target"}, Goes(k, pc)
      PROVE  call' \in [Caller -> Calls] /\ \A x \in Caller : Named(call'[x])
  <2> DEFINE c == [call[k] EXCEPT !.pc = pc]
  <2>1. c \in Calls /\ Named(c)
    BY <1>1 DEF Calls, Named
  <2>2. call' = [call EXCEPT ![k] = c]
    BY <1>3 DEF Goes
  <2> HIDE DEF c
  <2> QED
    BY <2>1, <2>2, CallEffect
<1> QED
  BY <1>2, <1>3

PoolValues ==
  /\ pool \subseteq Host /\ strays \subseteq Host /\ targets \subseteq Host
  /\ leftOnPurpose \subseteq Host
  /\ mutex \in Caller \cup {Free}
  /\ attempts \in [Host -> 0 .. MaxAttempts]

CallsNamed == call \in [Caller -> Calls] /\ \A k \in Caller : Named(call[k])

Watch == [pc : {"scan", "look", "setup", "insert"}, copy : SUBSET Host, todo : SUBSET Host,
          host : Host \cup {NoHost}]

MonitorNamed ==
  /\ monitor \in Watch
  /\ monitor.pc \in {"setup", "insert"} => monitor.host \in Host

LEMMA PoolStep ==
  ASSUME PoolInv, [PoolNext]_poolVars
  PROVE  PoolInv'
<1>0. PoolValues /\ CallsNamed /\ MonitorNamed
  BY DEF PoolInv, PoolTypeOK, PoolValues, CallsNamed, MonitorNamed, Watch, Calls, Named
<1> DEFINE Goal == PoolValues' /\ CallsNamed' /\ MonitorNamed'
<1>1. ASSUME NEW k \in Caller, NEW s \in Host,
             ConnectBegins(k, s) \/ DisconnectBegins(k, s) \/ RequestBegins(k, s)
      PROVE  Goal
  <2>1. PICK pc \in {"check", "close", "request"} : call' = [call EXCEPT ![k] = [pc |-> pc, host |-> s]]
    BY <1>1 DEF ConnectBegins, DisconnectBegins, RequestBegins
  <2>2. [pc |-> pc, host |-> s] \in Calls /\ Named([pc |-> pc, host |-> s])
    BY DEF Calls, Named
  <2>3. CallsNamed'
    BY <1>0, <2>1, <2>2, CallEffect DEF CallsNamed
  <2>4. PoolValues' /\ UNCHANGED monitor
    BY <1>0, <1>1 DEF ConnectBegins, DisconnectBegins, RequestBegins, PoolValues
  <2> QED
    BY <1>0, <2>3, <2>4 DEF MonitorNamed
<1>2. ASSUME NEW k \in Caller, CallSteps(k)
      PROVE  Goal
  <2>1. /\ call[k].pc # "idle" /\ UNCHANGED monitor
        /\ \/ \E pc \in {"setup", "insert", "target"} : Goes(k, pc)
           \/ Returns(k)
    BY <1>2 DEF CallSteps, CheckPool, SetupEnds, InsertConnection, AddTarget, DisconnectEnds,
                RequestEnds
  <2>2. CallsNamed'
    BY <1>0, <2>1, GoesEffect DEF CallsNamed
  <2>3. call[k].host \in Host
    BY <1>0, <2>1 DEF CallsNamed, Named
  <2>4. PoolValues'
    BY <1>0, <1>2, <2>3 DEF CallSteps, CheckPool, SetupEnds, InsertConnection, AddTarget,
       DisconnectEnds, RequestEnds, Insert, PoolValues
  <2> QED
    BY <1>0, <2>1, <2>2, <2>4 DEF MonitorNamed
<1>3. ASSUME MonitorScan \/ MonitorSetupEnds \/ MonitorEndsRound
      PROVE  Goal
  <2>1. PoolValues' /\ UNCHANGED call
    BY <1>0, <1>3, PoolAssumption DEF MonitorScan, MonitorSetupEnds, MonitorEndsRound, PoolValues
  <2>2. ASSUME MonitorScan
        PROVE  MonitorNamed'
    <3>1. monitor' = [pc |-> "look", copy |-> targets, todo |-> targets, host |-> NoHost]
      BY <2>2 DEF MonitorScan
    <3> QED
      BY <1>0, <3>1 DEF PoolValues, MonitorNamed, Watch
  <2>3. ASSUME MonitorSetupEnds
        PROVE  MonitorNamed'
    <3>1. /\ monitor.pc = "setup"
          /\ \/ monitor' = [monitor EXCEPT !.pc = "insert"]
             \/ monitor' = [monitor EXCEPT !.pc = "look", !.host = NoHost]
      BY <2>3 DEF MonitorSetupEnds
    <3> QED
      BY <1>0, <3>1 DEF MonitorNamed, Watch
  <2>4. ASSUME MonitorEndsRound
        PROVE  MonitorNamed'
    <3>1. monitor.pc = "look" /\ monitor' = [monitor EXCEPT !.pc = "scan", !.copy = {}]
      BY <2>4 DEF MonitorEndsRound
    <3> QED
      BY <1>0, <3>1 DEF MonitorNamed, Watch
  <2> QED
    BY <1>0, <1>3, <2>1, <2>2, <2>3, <2>4 DEF CallsNamed
<1>4. ASSUME NEW s \in Host, MonitorLook(s)
      PROVE  Goal
  <2>1. MonitorNamed' /\ UNCHANGED <<pool, strays, targets, mutex, call, leftOnPurpose>>
    <3>1. \/ monitor' = [monitor EXCEPT !.todo = @ \ {s}]
          \/ monitor' = [monitor EXCEPT !.pc = "setup", !.todo = @ \ {s}, !.host = s]
      BY <1>4 DEF MonitorLook
    <3>2. MonitorNamed'
      BY <1>0, <3>1 DEF MonitorNamed, Watch
    <3> QED
      BY <1>4, <3>2 DEF MonitorLook
  <2>2. attempts' \in [Host -> 0 .. MaxAttempts]
    <3>1. attempts \in [Host -> 0 .. MaxAttempts] /\ MaxAttempts \in Nat
      BY <1>0, PoolAssumption DEF PoolValues
    <3> QED
      BY <1>4, <3>1 DEF MonitorLook
  <2> QED
    BY <1>0, <2>1, <2>2 DEF PoolValues, CallsNamed
<1>5. ASSUME MonitorInsert
      PROVE  Goal
  <2>1. monitor.pc = "insert" /\ monitor' = [monitor EXCEPT !.pc = "look", !.host = NoHost]
    BY <1>5 DEF MonitorInsert
  <2>2. MonitorNamed' /\ monitor.host \in Host
    BY <1>0, <2>1 DEF MonitorNamed, Watch
  <2>3. PoolValues' /\ UNCHANGED call
    BY <1>0, <1>5, <2>2, PoolAssumption DEF MonitorInsert, Insert, PoolValues
  <2> QED
    BY <1>0, <2>2, <2>3 DEF CallsNamed
<1>6. ASSUME UNCHANGED poolVars
      PROVE  Goal
  BY <1>0, <1>6 DEF poolVars, PoolValues, MonitorNamed, CallsNamed
<1>7. Goal
  BY <1>1, <1>2, <1>3, <1>4, <1>5, <1>6 DEF PoolNext, MonitorSteps
<1> QED
  BY <1>7 DEF PoolInv, PoolTypeOK, PoolValues, CallsNamed, MonitorNamed, Watch, Calls, Named

-----------------------------------------------------------------------------
(* The interface: lists of devices *)

Statuses == {"Available", "Attaching", "Attached", "Detaching"}
Entry == [id : Gear, status : Statuses, handle : Handles \cup {NoHandle}]

\* No device twice.
OnceEach(list) == \A i, j \in DOMAIN list : list[i].id = list[j].id => i = j
GoodList(list) == list \in Seq(Entry) /\ OnceEach(list)

\* An entry that changes stays where it is, for the same device.
LEMMA SameDevices ==
  ASSUME NEW list, GoodList(list), NEW new, DOMAIN new = DOMAIN list,
         \A i \in DOMAIN list : new[i] \in Entry /\ new[i].id = list[i].id,
         new = [i \in DOMAIN list |-> new[i]]
  PROVE  GoodList(new) /\ Len(new) = Len(list)
<1>1. Len(list) \in Nat /\ DOMAIN list = 1 .. Len(list)
  BY DEF GoodList
<1>2. new \in [1 .. Len(list) -> Entry]
  BY <1>1
<1>3. new \in Seq(Entry) /\ Len(new) = Len(list)
  BY <1>1, <1>2
<1> QED
  BY <1>3 DEF GoodList, OnceEach

\* The message that a device could not be attached.
LEMMA AvailableGood ==
  ASSUME NEW list, GoodList(list), NEW d
  PROVE  LET new == [i \in DOMAIN list |->
                       IF list[i].id = d THEN [list[i] EXCEPT !.status = "Available"] ELSE list[i]]
         IN  GoodList(new) /\ Len(new) = Len(list)
<1> DEFINE new == [i \in DOMAIN list |->
                     IF list[i].id = d THEN [list[i] EXCEPT !.status = "Available"] ELSE list[i]]
<1>1. \A i \in DOMAIN list : list[i] \in Entry
  BY DEF GoodList
<1>2. DOMAIN new = DOMAIN list /\ new = [i \in DOMAIN list |-> new[i]]
  OBVIOUS
<1>3. \A i \in DOMAIN list : new[i] \in Entry /\ new[i].id = list[i].id
  BY <1>1 DEF Entry, Statuses
<1> HIDE DEF new
<1>4. GoodList(new) /\ Len(new) = Len(list)
  BY <1>2, <1>3, SameDevices
<1> QED
  BY <1>4 DEF new

LEMMA WithStatusGood ==
  ASSUME NEW list, GoodList(list), NEW d, NEW st \in Statuses, NEW h \in Handles \cup {NoHandle}
  PROVE  GoodList(WithStatus(list, d, st, h)) /\ Len(WithStatus(list, d, st, h)) = Len(list)
<1> DEFINE new == WithStatus(list, d, st, h)
<1>1. \A i \in DOMAIN list : list[i] \in Entry
  BY DEF GoodList
<1>2. DOMAIN new = DOMAIN list /\ new = [i \in DOMAIN list |-> new[i]]
  BY DEF WithStatus
<1>3. \A i \in DOMAIN list : new[i] \in Entry /\ new[i].id = list[i].id
  <2> TAKE i \in DOMAIN list
  <2> DEFINE e == list[i]
             other == [e EXCEPT !.status = st, !.handle = h]
  <2>1. e \in Entry
    BY <1>1
  <2>2. new[i] = IF e.id = d THEN other ELSE e
    BY DEF WithStatus
  <2> HIDE DEF e, new
  <2>3. other \in Entry /\ other.id = e.id
    BY <2>1 DEF Entry
  <2> HIDE DEF other
  <2> QED
    BY <2>1, <2>2, <2>3 DEF e
<1> HIDE DEF new
<1>4. GoodList(new) /\ Len(new) = Len(list)
  BY <1>2, <1>3, SameDevices
<1> QED
  BY <1>4 DEF new

\* The message that a device has been detached.
LEMMA DetachedGood ==
  ASSUME NEW list, GoodList(list), NEW g
  PROVE  LET new == [i \in DOMAIN list |->
                       IF list[i].handle = g
                       THEN [list[i] EXCEPT !.status = "Available", !.handle = NoHandle]
                       ELSE list[i]]
         IN  GoodList(new) /\ Len(new) = Len(list)
<1> DEFINE new == [i \in DOMAIN list |->
                     IF list[i].handle = g
                     THEN [list[i] EXCEPT !.status = "Available", !.handle = NoHandle]
                     ELSE list[i]]
<1>1. \A i \in DOMAIN list : list[i] \in Entry
  BY DEF GoodList
<1>2. DOMAIN new = DOMAIN list /\ new = [i \in DOMAIN list |-> new[i]]
  OBVIOUS
<1>3. \A i \in DOMAIN list : new[i] \in Entry /\ new[i].id = list[i].id
  BY <1>1 DEF Entry, Statuses
<1> HIDE DEF new
<1>4. GoodList(new) /\ Len(new) = Len(list)
  BY <1>2, <1>3, SameDevices
<1> QED
  BY <1>4 DEF new

\* update_devices: the server's devices, each once.
LEMMA ListedGood ==
  ASSUME NEW s \in Servers, GoodList(listed[s]), NEW ids \in SUBSET Gear, IsFiniteSet(ids),
         NEW list \in Listed(s, ids)
  PROVE  GoodList(list) /\ Len(list) = Cardinality(ids)
<1> DEFINE known(d) == CHOOSE i \in DOMAIN listed[s] : listed[s][i].id = d
           entry(d) == IF Shown(s, d) THEN listed[s][known(d)]
                       ELSE [id |-> d, status |-> "Available", handle |-> NoHandle]
<1>1. Cardinality(ids) \in Nat
  BY FS_CardinalityType
<1>2. PICK sorted \in [1 .. Cardinality(ids) -> ids] :
        /\ \A i, j \in 1 .. Cardinality(ids) : i # j => sorted[i] # sorted[j]
        /\ list = [i \in DOMAIN sorted |-> entry(sorted[i])]
  BY DEF Listed, SetToSeqs
<1>3. ASSUME NEW d \in Gear
      PROVE  entry(d) \in Entry /\ entry(d).id = d
  <2>1. CASE Shown(s, d)
    <3>1. \E i \in DOMAIN listed[s] : listed[s][i].id = d
      BY <2>1 DEF Shown
    <3>2. known(d) \in DOMAIN listed[s] /\ listed[s][known(d)].id = d
      BY <3>1
    <3>3. \A i \in DOMAIN listed[s] : listed[s][i] \in Entry
      BY DEF GoodList
    <3> QED
      BY <2>1, <3>2, <3>3
  <2>2. CASE ~Shown(s, d)
    BY <2>2 DEF Entry, Statuses
  <2> QED
    BY <2>1, <2>2
<1> HIDE DEF entry
<1>4. /\ DOMAIN list = 1 .. Cardinality(ids)
      /\ \A i \in 1 .. Cardinality(ids) : list[i] \in Entry /\ list[i].id = sorted[i]
  BY <1>2, <1>3
<1>5. list \in [1 .. Cardinality(ids) -> Entry]
  BY <1>2, <1>4
<1>6. list \in Seq(Entry) /\ Len(list) = Cardinality(ids)
  BY <1>1, <1>5
<1> QED
  BY <1>2, <1>4, <1>6 DEF GoodList, OnceEach

\* add_device
LEMMA AddGood ==
  ASSUME NEW s \in Servers, GoodList(listed[s]), NEW d \in Gear
  PROVE  GoodList(AddDevice(s, d))
<1>1. CASE Shown(s, d)
  BY <1>1 DEF AddDevice
<1>2. CASE ~Shown(s, d)
  <2> DEFINE e == [id |-> d, status |-> "Available", handle |-> NoHandle]
             new == Append(listed[s], e)
  <2>1. e \in Entry /\ e.id = d
    BY DEF Entry, Statuses
  <2>2. listed[s] \in Seq(Entry) /\ AddDevice(s, d) = new
    BY <1>2 DEF GoodList, AddDevice
  <2> HIDE DEF e
  <2>3. /\ new \in Seq(Entry) /\ Len(listed[s]) \in Nat
        /\ DOMAIN listed[s] = 1 .. Len(listed[s]) /\ DOMAIN new = 1 .. (Len(listed[s]) + 1)
        /\ \A i \in 1 .. Len(listed[s]) : new[i] = listed[s][i]
        /\ new[Len(listed[s]) + 1] = e
    BY <2>1, <2>2
  <2>4. \A i \in DOMAIN listed[s] : listed[s][i].id # d
    BY <1>2 DEF Shown
  <2> HIDE DEF new
  <2> QED
    BY <2>1, <2>2, <2>3, <2>4 DEF GoodList, OnceEach
<1> QED
  BY <1>1, <1>2

\* What retain goes through.
KeptBy(f, n, list, d) ==
  f = [i \in 0 .. n |-> IF i = 0 THEN <<>> ELSE IF list[i].id = d THEN f[i - 1]
                                           ELSE Append(f[i - 1], list[i])]

LEMMA KeptByExists ==
  ASSUME NEW list, NEW d, NEW n \in Nat
  PROVE  \E f : KeptBy(f, n, list, d)
<1> DEFINE N == {m \in Nat : ~ \E f : KeptBy(f, m, list, d)}
<1> SUFFICES ASSUME N # {} PROVE FALSE
  OBVIOUS
<1>1. N \in SUBSET Nat
  OBVIOUS
<1>2. PICK m \in N : \A q \in N : m <= q
  BY <1>1, LeastOf
<1>3. m # 0
  <2>1. KeptBy([i \in 0 .. 0 |-> <<>>], 0, list, d)
    BY DEF KeptBy
  <2> QED
    BY <2>1
<1>4. m - 1 \in Nat /\ m - 1 \notin N
  BY <1>2, <1>3
<1>5. PICK f : KeptBy(f, m - 1, list, d)
  BY <1>4
<1> DEFINE g == [i \in 0 .. m |-> IF i < m THEN f[i]
                                  ELSE IF list[m].id = d THEN f[m - 1] ELSE Append(f[m - 1], list[m])]
<1>6. \A i \in 0 .. (m - 1) : f[i] = IF i = 0 THEN <<>> ELSE IF list[i].id = d THEN f[i - 1]
                                                         ELSE Append(f[i - 1], list[i])
  BY <1>4, <1>5 DEF KeptBy
<1>7. \A i \in 0 .. (m - 1) : g[i] = f[i]
  BY <1>4
<1>8. g[m] = IF list[m].id = d THEN g[m - 1] ELSE Append(g[m - 1], list[m])
  BY <1>3, <1>4
<1>9. \A i \in 0 .. m : g[i] = IF i = 0 THEN <<>> ELSE IF list[i].id = d THEN g[i - 1]
                                                       ELSE Append(g[i - 1], list[i])
  <2> HIDE DEF g
  <2> TAKE i \in 0 .. m
  <2>1. CASE i = m
    BY <1>3, <1>8, <2>1
  <2>2. CASE i = 0
    BY <1>4, <1>6, <1>7, <2>2
  <2>3. CASE i # 0 /\ i # m
    <3>1. i \in 0 .. (m - 1) /\ i - 1 \in 0 .. (m - 1)
      BY <1>4, <2>3
    <3>2. g[i] = f[i] /\ g[i - 1] = f[i - 1]
      BY <1>7, <3>1
    <3>3. f[i] = IF i = 0 THEN <<>> ELSE IF list[i].id = d THEN f[i - 1]
                                    ELSE Append(f[i - 1], list[i])
      BY <1>6, <3>1
    <3> QED
      BY <3>2, <3>3
  <2> QED
    BY <2>1, <2>2, <2>3
<1>10. KeptBy(g, m, list, d)
  BY <1>9 DEF KeptBy
<1> QED
  BY <1>2, <1>10

\* remove_device: what is kept are entries of the list, in it once each.
LEMMA WithoutGood ==
  ASSUME NEW list, GoodList(list), NEW d
  PROVE  GoodList(Without(list, d))
<1>1. Len(list) \in Nat /\ \A i \in 1 .. Len(list) : list[i] \in Entry
  BY DEF GoodList
<1>2. PICK f : KeptBy(f, Len(list), list, d) /\ Without(list, d) = f[Len(list)]
  <2>1. \E f : KeptBy(f, Len(list), list, d)
    BY <1>1, KeptByExists
  <2> DEFINE f == CHOOSE f : KeptBy(f, Len(list), list, d)
  <2>2. KeptBy(f, Len(list), list, d)
    BY <2>1
  <2>3. Without(list, d) = f[Len(list)]
    BY DEF Without, KeptBy
  <2> QED
    BY <2>2, <2>3
<1> DEFINE Good(n) == /\ GoodList(f[n])
                      /\ \A k \in DOMAIN f[n] : \E i \in 1 .. n : f[n][k] = list[i]
           N == {n \in 0 .. Len(list) : ~Good(n)}
<1>3. f[0] = <<>>
  BY <1>1, <1>2 DEF KeptBy
<1>4. ASSUME NEW n \in 1 .. Len(list)
      PROVE  f[n] = IF list[n].id = d THEN f[n - 1] ELSE Append(f[n - 1], list[n])
  <2>1. n \in 0 .. Len(list) /\ n # 0
    BY <1>1, <1>4
  <2>2. f[n] = IF n = 0 THEN <<>> ELSE IF list[n].id = d THEN f[n - 1]
                                  ELSE Append(f[n - 1], list[n])
    BY <1>2, <2>1, Zenon DEF KeptBy
  <2> QED
    BY <2>1, <2>2
<1>5. Good(0)
  <2>1. f[0] \in Seq(Entry) /\ DOMAIN f[0] = {}
    BY <1>3
  <2> QED
    BY <2>1 DEF GoodList, OnceEach
<1>6. ASSUME NEW n \in 1 .. Len(list), Good(n - 1) PROVE Good(n)
  <2> DEFINE t == f[n - 1]
  <2>1. t \in Seq(Entry) /\ OnceEach(t) /\ \A k \in DOMAIN t : \E i \in 1 .. (n - 1) : t[k] = list[i]
    BY <1>6 DEF GoodList
  <2>2. CASE list[n].id = d
    <3>1. f[n] = t
      BY <1>4, <2>2
    <3> QED
      BY <1>1, <2>1, <3>1 DEF GoodList
  <2>3. CASE list[n].id # d
    <3>1. f[n] = Append(t, list[n]) /\ list[n] \in Entry
      BY <1>1, <1>4, <2>3
    <3> HIDE DEF t
    <3>2. \A i \in 1 .. (n - 1) : list[i].id # list[n].id
      BY <1>1 DEF GoodList, OnceEach
    <3>3. /\ f[n] \in Seq(Entry) /\ Len(t) \in Nat
          /\ DOMAIN t = 1 .. Len(t) /\ DOMAIN f[n] = 1 .. (Len(t) + 1)
          /\ \A k \in 1 .. Len(t) : f[n][k] = t[k]
          /\ f[n][Len(t) + 1] = list[n]
      BY <2>1, <3>1
    <3>4. \A k \in 1 .. Len(t) : t[k].id # list[n].id
      BY <2>1, <3>2, <3>3
    <3>5. OnceEach(f[n])
      BY <2>1, <3>3, <3>4 DEF OnceEach
    <3>6. \A k \in DOMAIN f[n] : \E i \in 1 .. n : f[n][k] = list[i]
      BY <2>1, <3>3
    <3> QED
      BY <3>3, <3>5, <3>6 DEF GoodList
  <2> QED
    BY <2>2, <2>3
<1> HIDE DEF Good
<1>7. N = {}
  <2> SUFFICES ASSUME N # {} PROVE FALSE
    OBVIOUS
  <2>1. N \in SUBSET Nat
    BY <1>1
  <2>2. PICK n \in N : \A q \in N : n <= q
    BY <2>1, LeastOf
  <2>3. n \in 1 .. Len(list) /\ n - 1 \in 0 .. Len(list)
    BY <1>1, <1>5, <2>2
  <2>4. Good(n - 1)
    BY <1>1, <2>2, <2>3
  <2> QED
    BY <1>6, <2>2, <2>3, <2>4
<1> QED
  BY <1>1, <1>2, <1>7 DEF Good

-----------------------------------------------------------------------------
(* The interface: what is on its way *)

AppJob ==
  [do : {"connect", "list", "disconnect", "refresh"}, server : Servers]
    \cup [do : {"attach"}, server : Servers, id : Gear]
    \cup [do : {"detach"}, server : Servers, handle : Handles]

Lists == {ids \in SUBSET Gear : IsFiniteSet(ids)}

AppMessage ==
  [is : {"ServerConnected", "ServerConnectionFailed", "ServerDisconnected"}, server : Servers]
    \cup [is : {"DeviceListReceived"}, server : Servers, ids : Lists]
    \cup [is : {"DeviceAttached"}, server : Servers, id : Gear, handle : Handles]
    \cup [is : {"DeviceAttachFailed"}, server : Servers, id : Gear]
    \cup [is : {"DeviceDetached"}, server : Servers, handle : Handles]

AppNotice == [kind : {"Arrived", "Removed"}, server : Servers, id : Gear]

\* What the servers list is finite.
BusValues ==
  /\ plugged \in [Servers -> Lists] /\ gone \in [Servers -> SUBSET Gear]
  /\ notices \in Seq(AppNotice)

TrafficValues ==
  /\ vusb \subseteq [server : Servers, id : Gear, handle : Handles]
  /\ lastHandle \in 0 .. MaxHandle
  /\ BagToSet(jobs) \subseteq AppJob /\ messages \in Seq(AppMessage)

ListValues ==
  /\ \A s \in Servers : GoodList(listed[s]) /\ count[s] = Len(listed[s])
  /\ DOMAIN listed = Servers /\ DOMAIN count = Servers

\* A server has a place in the order once, and only if it is known.
OrderValues ==
  /\ order \in Seq(Servers) /\ Apart(order)
  /\ status \in [Servers -> {"Unknown", "Disconnected", "Connecting", "Connected", "Failed"}]
  /\ \A i \in DOMAIN order : status[order[i]] # "Unknown"

ScreenValues ==
  /\ pane \in {"Servers", "Devices"} /\ quit \in BOOLEAN
  /\ chosen \in Nat /\ (chosen = 0 \/ chosen < Len(order))
  /\ chosenGear \in [Servers -> Nat]

AppInv == BusValues /\ TrafficValues /\ ListValues /\ OrderValues /\ ScreenValues

LEMMA ServersFinite == IsFiniteSet(Servers)
<1> DEFINE n == Len(Configured)
<1>1. n \in Nat /\ Configured \in [1 .. n -> Range(Configured)]
  BY AppAssumption
<1>2. \A s \in Range(Configured) : \E i \in 1 .. n : Configured[i] = s
  BY <1>1 DEF Range
<1>3. Configured \in Surjection(1 .. n, Range(Configured))
  BY <1>1, <1>2 DEF Surjection
<1>4. IsFiniteSet(1 .. n)
  BY <1>1, FS_Interval
<1>5. IsFiniteSet(Range(Configured))
  BY <1>3, <1>4, FS_Surjection
<1> QED
  BY <1>5, AppAssumption, FS_Union DEF Servers

\* The server and the device under the cursor.
LEMMA UnderTheCursor ==
  ASSUME ListValues, OrderValues, ScreenValues
  PROVE  /\ HasServer => /\ ChosenServer \in Servers
                         /\ status[ChosenServer] # "Unknown"
         /\ HasGear => ChosenServer \in Servers /\ ChosenGear \in Entry
<1>1. ASSUME HasServer
      PROVE  ChosenServer \in Servers /\ status[ChosenServer] # "Unknown"
  <2>1. chosen + 1 \in DOMAIN order /\ \A i \in DOMAIN order : order[i] \in Servers
    BY <1>1 DEF HasServer, ScreenValues, OrderValues
  <2> QED
    BY <2>1 DEF ChosenServer, OrderValues
<1>2. ASSUME HasGear
      PROVE  ChosenServer \in Servers /\ ChosenGear \in Entry
  <2>1. ChosenServer \in Servers /\ ChosenIndex <= Len(listed[ChosenServer])
    BY <1>1, <1>2 DEF HasGear
  <2>2. ChosenIndex \in Nat \ {0}
    BY <2>1 DEF ChosenIndex, ScreenValues
  <2>3. listed[ChosenServer] \in Seq(Entry)
    BY <2>1 DEF ListValues, GoodList
  <2> HIDE DEF ChosenIndex, ChosenServer
  <2>4. ChosenIndex \in DOMAIN listed[ChosenServer]
    BY <2>1, <2>2, <2>3
  <2> QED
    BY <2>1, <2>3, <2>4 DEF ChosenGear
<1> QED
  BY <1>1, <1>2

\* The steps that change what is on its way.
LEMMA KeyEffect ==
  ASSUME Key
  PROVE  UNCHANGED <<worldVars, usbVars, messages>>
BY DEF Key, TogglePane, NavigateUp, NavigateDown, EnterServer, ConnectKey, DisconnectKey,
   RefreshKey, AttachKey, DetachKey, OpensDialog, ConfirmsServer, Cancels,
   ConfirmsQuit, Untouched

LEMMA BusEffect ==
  ASSUME AppNext
  PROVE  \/ \E s \in Servers, d \in Gear : Plugs(s, d) \/ Unplugs(s, d)
         \/ TakesNotice \/ UNCHANGED worldVars
<1>1. TakesMessage => UNCHANGED worldVars
  BY DEF TakesMessage
<1>2. \A j \in BagToSet(jobs) : TaskRuns(j) => UNCHANGED worldVars
  BY DEF TaskRuns
<1>3. \A s \in Servers : LineChanges(s) => UNCHANGED worldVars
  BY DEF LineChanges
<1> QED
  BY <1>1, <1>2, <1>3, KeyEffect DEF AppNext

LEMMA TrafficEffect ==
  ASSUME AppNext
  PROVE  \/ TakesMessage
         \/ \E j \in BagToSet(jobs) : TaskRuns(j)
         \/ /\ UNCHANGED <<usbVars, messages>>
            /\ \/ UNCHANGED jobs
               \/ ConnectKey \/ DisconnectKey \/ RefreshKey \/ AttachKey \/ DetachKey
<1>1. Key => \/ UNCHANGED jobs
             \/ ConnectKey \/ DisconnectKey \/ RefreshKey \/ AttachKey \/ DetachKey
  BY DEF Key, TogglePane, NavigateUp, NavigateDown, EnterServer, OpensDialog,
     ConfirmsServer, Cancels, ConfirmsQuit
<1> QED
  BY <1>1, KeyEffect DEF AppNext, Plugs, Unplugs, LineChanges, TakesNotice

LEMMA ListEffect ==
  ASSUME AppNext
  PROVE  TakesMessage \/ TakesNotice \/ AttachKey \/ DetachKey \/ UNCHANGED <<listed, count>>
<1>1. Key => AttachKey \/ DetachKey \/ UNCHANGED <<listed, count>>
  BY DEF Key, TogglePane, NavigateUp, NavigateDown, EnterServer, ConnectKey, DisconnectKey,
     RefreshKey, OpensDialog, ConfirmsServer, Cancels, ConfirmsQuit, listVars
<1> QED
  BY <1>1 DEF AppNext, TaskRuns, Plugs, Unplugs, LineChanges, listVars

LEMMA OrderEffect ==
  ASSUME AppNext
  PROVE  \/ TakesMessage \/ ConnectKey \/ ConfirmsServer \/ \E s \in Servers : LineChanges(s)
         \/ UNCHANGED <<order, status>>
<1>1. Key => ConnectKey \/ ConfirmsServer \/ UNCHANGED <<order, status>>
  BY DEF Key, TogglePane, NavigateUp, NavigateDown, EnterServer, AttachKey, DetachKey,
     DisconnectKey, RefreshKey, OpensDialog, Cancels, ConfirmsQuit, listVars
<1> QED
  BY <1>1 DEF AppNext, TaskRuns, Plugs, Unplugs, TakesNotice, listVars

LEMMA ScreenEffect ==
  ASSUME AppNext
  PROVE  \/ NavigateUp \/ NavigateDown
         \/ UNCHANGED <<chosen, chosenGear, quit>>
            /\ pane' \in {pane, "Servers", "Devices"}
         \/ UNCHANGED <<chosen, chosenGear, pane>> /\ quit' = TRUE
<1>1. Key => \/ NavigateUp \/ NavigateDown
             \/ UNCHANGED <<chosen, chosenGear, quit>>
                /\ pane' \in {pane, "Servers", "Devices"}
             \/ UNCHANGED <<chosen, chosenGear, pane>> /\ quit' = TRUE
  BY DEF Key, TogglePane, EnterServer, ConnectKey, AttachKey, DetachKey, DisconnectKey,
     RefreshKey, OpensDialog, ConfirmsServer, Cancels, ConfirmsQuit, screenVars
<1>2. TakesMessage \/ TakesNotice => UNCHANGED screenVars
  BY DEF TakesMessage, TakesNotice
<1>3. \A j \in BagToSet(jobs) : TaskRuns(j) => UNCHANGED screenVars
  BY DEF TaskRuns
<1>4. \A s \in Servers : /\ LineChanges(s) => UNCHANGED screenVars
                        /\ \A d \in Gear : Plugs(s, d) \/ Unplugs(s, d) => UNCHANGED screenVars
  BY DEF LineChanges, Plugs, Unplugs
<1>5. UNCHANGED screenVars => UNCHANGED <<chosen, chosenGear, quit, pane>>
  BY DEF screenVars
<1> QED
  BY <1>1, <1>2, <1>3, <1>4, <1>5 DEF AppNext

-----------------------------------------------------------------------------
(* The interface: steps *)

LEMMA BusStep ==
  ASSUME AppInv, AppNext
  PROVE  BusValues'
<1>0. BusValues
  BY DEF AppInv
<1>1. ASSUME NEW s \in Servers, NEW d \in Gear, Plugs(s, d)
      PROVE  BusValues'
  <2>1. IsFiniteSet(plugged[s] \cup {d}) /\ plugged[s] \cup {d} \in SUBSET Gear
    BY <1>0, FS_AddElement DEF BusValues, Lists
  <2>2. plugged' \in [Servers -> Lists] /\ gone' = gone
    BY <1>0, <1>1, <2>1 DEF BusValues, Plugs, Lists
  <2>3. notices' \in Seq(AppNotice)
    BY <1>0, <1>1 DEF BusValues, Plugs, AppNotice
  <2> QED
    BY <1>0, <2>2, <2>3 DEF BusValues
<1>2. ASSUME NEW s \in Servers, NEW d \in Gear, Unplugs(s, d)
      PROVE  BusValues'
  <2>1. IsFiniteSet(plugged[s] \ {d}) /\ plugged[s] \ {d} \in SUBSET Gear
    BY <1>0, FS_RemoveElement DEF BusValues, Lists
  <2>2. plugged' \in [Servers -> Lists]
    BY <1>0, <1>2, <2>1 DEF BusValues, Unplugs, Lists
  <2>3. gone' \in [Servers -> SUBSET Gear]
    BY <1>0, <1>2 DEF BusValues, Unplugs
  <2>4. notices' \in Seq(AppNotice)
    BY <1>0, <1>2 DEF BusValues, Unplugs, AppNotice
  <2> QED
    BY <2>2, <2>3, <2>4 DEF BusValues
<1>3. ASSUME TakesNotice
      PROVE  BusValues'
  <2>1. notices' \in Seq(AppNotice) /\ UNCHANGED <<plugged, gone>>
    BY <1>0, <1>3 DEF BusValues, TakesNotice
  <2> QED
    BY <1>0, <2>1 DEF BusValues
<1>4. ASSUME UNCHANGED worldVars
      PROVE  BusValues'
  BY <1>0, <1>4 DEF BusValues, worldVars
<1> QED
  BY <1>1, <1>2, <1>3, <1>4, BusEffect

\* The tasks that are left, and one more.
LEMMA TaskEnds ==
  ASSUME NEW j
  PROVE  BagToSet(Left(j)) \subseteq BagToSet(jobs)
BY DEF Left, BagToSet, (-)

LEMMA OneMoreTask ==
  ASSUME NEW B, NEW j
  PROVE  BagToSet(B (+) SetToBag({j})) = BagToSet(B) \cup {j}
BY DEF BagToSet, SetToBag, (+)

\* A task's message and what it leaves to be done.
LEMMA JobStep ==
  ASSUME BusValues, TrafficValues, NEW j, j \in BagToSet(jobs), TaskRuns(j)
  PROVE  TrafficValues'
<1> DEFINE Said == \E m \in AppMessage : messages' = Append(messages, m)
<1>0. j \in AppJob /\ j.server \in Servers /\ messages \in Seq(AppMessage) /\ BagToSet(jobs) \subseteq AppJob
  BY DEF TrafficValues, AppJob
<1>1. ASSUME Said \/ messages' = messages
      PROVE  messages' \in Seq(AppMessage)
  BY <1>0, <1>1
<1> HIDE DEF Said
<1>2. ASSUME ConnectTask(j)
      PROVE  TrafficValues'
  <2>1. [do |-> "list", server |-> j.server] \in AppJob
    BY <1>0 DEF AppJob
  <2>2. BagToSet(jobs') \subseteq AppJob
    <3>1. CASE jobs' = Left(j) (+) SetToBag({[do |-> "list", server |-> j.server]})
      <4>1. BagToSet(jobs') = BagToSet(Left(j)) \cup {[do |-> "list", server |-> j.server]}
        BY <3>1, OneMoreTask
      <4> QED
        BY <1>0, <2>1, <4>1, TaskEnds
    <3>2. CASE jobs' = Left(j)
      BY <1>0, <3>2, TaskEnds
    <3> QED
      BY <1>2, <3>1, <3>2 DEF ConnectTask, Ends
  <2>3. /\ [is |-> "ServerConnected", server |-> j.server] \in AppMessage
        /\ [is |-> "ServerConnectionFailed", server |-> j.server] \in AppMessage
    BY <1>0 DEF AppMessage
  <2>4. Said
    BY <1>2, <2>3 DEF ConnectTask, Sends, Said
  <2> QED
    BY <1>1, <1>2, <2>2, <2>4 DEF ConnectTask, TrafficValues, usbVars
<1>3. ASSUME ListTask(j)
      PROVE  TrafficValues'
  <2>1. plugged[j.server] \in Lists
    BY <1>0 DEF BusValues
  <2>2. [is |-> "DeviceListReceived", server |-> j.server, ids |-> plugged[j.server]] \in AppMessage
    BY <1>0, <2>1 DEF AppMessage
  <2>3. Said \/ messages' = messages
    BY <1>3, <2>2 DEF ListTask, Sends, Said
  <2> QED
    BY <1>0, <1>1, <1>3, <2>3, TaskEnds DEF ListTask, Ends, TrafficValues, usbVars
<1>4. ASSUME DisconnectTask(j)
      PROVE  TrafficValues'
  <2>1. [is |-> "ServerDisconnected", server |-> j.server] \in AppMessage
    BY <1>0 DEF AppMessage
  <2>2. Said \/ messages' = messages
    BY <1>4, <2>1 DEF DisconnectTask, Sends, Said
  <2>3. vusb' \subseteq vusb /\ lastHandle' = lastHandle /\ BagToSet(jobs') \subseteq BagToSet(jobs)
    BY <1>4, TaskEnds DEF DisconnectTask, Ends
  <2> QED
    BY <1>1, <2>2, <2>3 DEF TrafficValues
<1>5. ASSUME AttachTask(j)
      PROVE  TrafficValues'
  <2>1. j.id \in Gear
    BY <1>0, <1>5 DEF AttachTask, AppJob
  <2>2. BagToSet(jobs') \subseteq AppJob
    BY <1>0, <1>5, TaskEnds DEF AttachTask, Ends
  <2>3. CASE lastHandle < MaxHandle /\ lastHandle' = lastHandle + 1
              /\ vusb' = vusb \cup {[server |-> j.server, id |-> j.id, handle |-> lastHandle + 1]}
              /\ Sends([is |-> "DeviceAttached", server |-> j.server, id |-> j.id,
                        handle |-> lastHandle + 1])
    <3>1. lastHandle + 1 \in Handles /\ lastHandle' \in 0 .. MaxHandle
      BY <2>3, AppAssumption DEF TrafficValues, Handles
    <3>2. /\ [server |-> j.server, id |-> j.id, handle |-> lastHandle + 1]
               \in [server : Servers, id : Gear, handle : Handles]
          /\ [is |-> "DeviceAttached", server |-> j.server, id |-> j.id,
              handle |-> lastHandle + 1] \in AppMessage
      BY <1>0, <2>1, <3>1 DEF AppMessage
    <3>3. Said
      BY <2>3, <3>2 DEF Sends, Said
    <3> QED
      BY <1>1, <2>2, <2>3, <3>1, <3>2, <3>3 DEF TrafficValues
  <2>4. CASE Sends([is |-> "DeviceAttachFailed", server |-> j.server, id |-> j.id])
             /\ UNCHANGED usbVars
    <3>1. [is |-> "DeviceAttachFailed", server |-> j.server, id |-> j.id] \in AppMessage
      BY <1>0, <2>1 DEF AppMessage
    <3>2. Said
      BY <2>4, <3>1 DEF Sends, Said
    <3> QED
      BY <1>1, <2>2, <2>4, <3>2 DEF TrafficValues, usbVars
  <2> QED
    BY <1>5, <2>3, <2>4 DEF AttachTask
<1>6. ASSUME DetachTask(j)
      PROVE  TrafficValues'
  <2>1. j.handle \in Handles
    BY <1>0, <1>6 DEF DetachTask, AppJob
  <2>2. [is |-> "DeviceDetached", server |-> j.server, handle |-> j.handle] \in AppMessage
    BY <1>0, <2>1 DEF AppMessage
  <2>3. Said \/ messages' = messages
    BY <1>6, <2>2 DEF DetachTask, Sends, Said
  <2>4. vusb' \subseteq vusb /\ lastHandle' = lastHandle /\ BagToSet(jobs') \subseteq BagToSet(jobs)
    BY <1>6, TaskEnds DEF DetachTask, Ends
  <2> QED
    BY <1>1, <2>3, <2>4 DEF TrafficValues
<1> QED
  BY <1>2, <1>3, <1>4, <1>5, <1>6 DEF TaskRuns

LEMMA TrafficStep ==
  ASSUME AppInv, AppNext
  PROVE  TrafficValues'
<1>0. BusValues /\ TrafficValues /\ ListValues /\ OrderValues /\ ScreenValues
  BY DEF AppInv
<1>1. ASSUME TakesMessage
      PROVE  TrafficValues'
  <2>1. messages' = Tail(messages) /\ messages # <<>> /\ UNCHANGED <<usbVars, jobs>>
    BY <1>1 DEF TakesMessage
  <2>2. messages' \in Seq(AppMessage)
    BY <1>0, <2>1 DEF TrafficValues
  <2> QED
    BY <1>0, <2>1, <2>2 DEF TrafficValues, usbVars
<1>2. ASSUME NEW j \in AppJob, Spawned(j), UNCHANGED <<usbVars, messages>>
      PROVE  TrafficValues'
  <2>1. BagToSet(jobs') = BagToSet(jobs) \cup {j}
    BY <1>2, OneMoreTask DEF Spawned
  <2> QED
    BY <1>0, <1>2, <2>1 DEF TrafficValues, usbVars
<1>3. ASSUME ConnectKey \/ DisconnectKey \/ RefreshKey \/ AttachKey \/ DetachKey
      PROVE  \E j \in AppJob : Spawned(j)
  <2> DEFINE Goal == \E j \in AppJob : Spawned(j)
  <2>1. /\ HasServer => ChosenServer \in Servers
        /\ HasGear => ChosenServer \in Servers /\ ChosenGear \in Entry
    BY <1>0, UnderTheCursor
  <2>2. ASSUME NEW do \in {"connect", "disconnect", "refresh"}, HasServer,
               Spawned([do |-> do, server |-> ChosenServer])
        PROVE  Goal
    <3>1. [do |-> do, server |-> ChosenServer] \in AppJob
      BY <2>1, <2>2 DEF AppJob
    <3> QED
      BY <2>2, <3>1
  <2>3. ASSUME AttachKey
        PROVE  Goal
    <3>1. [do |-> "attach", server |-> ChosenServer, id |-> ChosenGear.id] \in AppJob
      BY <2>1, <2>3 DEF AttachKey, AppJob, Entry
    <3> QED
      BY <2>3, <3>1 DEF AttachKey
  <2>4. ASSUME DetachKey
        PROVE  Goal
    <3>1. [do |-> "detach", server |-> ChosenServer, handle |-> ChosenGear.handle] \in AppJob
      BY <2>1, <2>4 DEF DetachKey, AppJob, Entry
    <3> QED
      BY <2>4, <3>1 DEF DetachKey
  <2>5. Goal
    BY <1>3, <2>2, <2>3, <2>4 DEF ConnectKey, DisconnectKey, RefreshKey
  <2> QED
    BY <2>5
<1>4. ASSUME UNCHANGED <<usbVars, messages, jobs>>
      PROVE  TrafficValues'
  BY <1>0, <1>4 DEF TrafficValues, usbVars
<1>5. ASSUME NEW j, j \in BagToSet(jobs), TaskRuns(j)
      PROVE  TrafficValues'
  BY <1>0, <1>5, JobStep
<1> QED
  BY <1>1, <1>2, <1>3, <1>4, <1>5, TrafficEffect

\* A list of one server that changes with its count.
LEMMA ListChanges ==
  ASSUME ListValues, NEW s \in Servers, NEW list, GoodList(list),
         listed' = [listed EXCEPT ![s] = list],
         \/ count' = [count EXCEPT ![s] = Len(list)]
         \/ count' = count /\ Len(list) = Len(listed[s])
  PROVE  ListValues'
<1>1. /\ DOMAIN listed' = Servers /\ DOMAIN count' = Servers
      /\ listed'[s] = list /\ count'[s] = Len(list)
      /\ \A t \in Servers \ {s} : listed'[t] = listed[t] /\ count'[t] = count[t]
  BY DEF ListValues
<1>2. ASSUME NEW t \in Servers
      PROVE  GoodList(listed'[t]) /\ count'[t] = Len(listed'[t])
  BY <1>1 DEF ListValues
<1> QED
  BY <1>1, <1>2 DEF ListValues, GoodList, OnceEach, Entry, Handles, NoHandle, Statuses

LEMMA MessageStep ==
  ASSUME TrafficValues, ListValues, TakesMessage
  PROVE  ListValues'
<1> DEFINE m == Head(messages)
<1>1. m \in AppMessage
  <2>1. messages \in Seq(AppMessage) /\ messages # <<>>
    BY DEF TrafficValues, TakesMessage
  <2> QED
    BY <2>1
<1>2. \/ UNCHANGED <<listed, count>>
      \/ /\ m.is = "DeviceListReceived"
         /\ \E list \in Listed(m.server, m.ids) : listed' = [listed EXCEPT ![m.server] = list]
         /\ count' = [count EXCEPT ![m.server] = Cardinality(m.ids)]
      \/ /\ m.is = "DeviceAttached"
         /\ listed' = [listed EXCEPT ![m.server] = WithStatus(@, m.id, "Attached", m.handle)]
         /\ UNCHANGED count
      \/ /\ m.is = "DeviceAttachFailed"
         /\ listed' = [listed EXCEPT ![m.server] =
              [i \in DOMAIN @ |-> IF @[i].id = m.id THEN [@[i] EXCEPT !.status = "Available"]
                                  ELSE @[i]]]
         /\ UNCHANGED count
      \/ /\ m.is = "DeviceDetached"
         /\ listed' = [listed EXCEPT ![m.server] =
              [i \in DOMAIN @ |-> IF @[i].handle = m.handle
                                  THEN [@[i] EXCEPT !.status = "Available", !.handle = NoHandle]
                                  ELSE @[i]]]
         /\ UNCHANGED count
  BY Zenon DEF TakesMessage, ShowsFailure
<1>3. m.server \in Servers
  BY <1>1 DEF AppMessage
<1> HIDE DEF m
<1> DEFINE old == listed[m.server]
<1>4. GoodList(old)
  BY <1>3 DEF ListValues
<1>5. CASE UNCHANGED <<listed, count>>
  BY <1>5 DEF ListValues
<1>6. CASE /\ m.is = "DeviceListReceived"
           /\ \E list \in Listed(m.server, m.ids) : listed' = [listed EXCEPT ![m.server] = list]
           /\ count' = [count EXCEPT ![m.server] = Cardinality(m.ids)]
  <2>1. m.ids \in SUBSET Gear /\ IsFiniteSet(m.ids)
    BY <1>1, <1>6 DEF AppMessage, Lists
  <2>2. PICK list \in Listed(m.server, m.ids) : listed' = [listed EXCEPT ![m.server] = list]
    BY <1>6
  <2>3. GoodList(list) /\ Len(list) = Cardinality(m.ids)
    BY <1>3, <1>4, <2>1, ListedGood
  <2>4. count' = [count EXCEPT ![m.server] = Len(list)]
    BY <1>6, <2>3
  <2> QED
    BY <1>3, <2>2, <2>3, <2>4, ListChanges
<1>7. ASSUME NEW st \in Statuses, NEW h \in Handles \cup {NoHandle},
             listed' = [listed EXCEPT ![m.server] = WithStatus(@, m.id, st, h)], UNCHANGED count
      PROVE  ListValues'
  <2> DEFINE list == WithStatus(old, m.id, st, h)
  <2>1. GoodList(list) /\ Len(list) = Len(old)
    BY <1>4, WithStatusGood
  <2>2. listed' = [listed EXCEPT ![m.server] = list]
    BY <1>7
  <2> HIDE DEF list
  <2> QED
    BY <1>3, <1>7, <2>1, <2>2, ListChanges
<1>8. CASE /\ m.is = "DeviceAttached"
           /\ listed' = [listed EXCEPT ![m.server] = WithStatus(@, m.id, "Attached", m.handle)]
           /\ UNCHANGED count
  <2>1. m.handle \in Handles /\ "Attached" \in Statuses
    BY <1>1, <1>8 DEF AppMessage, Statuses
  <2> QED
    BY <1>7, <1>8, <2>1
<1>9. CASE /\ m.is = "DeviceAttachFailed"
           /\ listed' = [listed EXCEPT ![m.server] =
                [i \in DOMAIN @ |-> IF @[i].id = m.id THEN [@[i] EXCEPT !.status = "Available"]
                                    ELSE @[i]]]
           /\ UNCHANGED count
  <2> DEFINE list == [i \in DOMAIN old |->
                           IF old[i].id = m.id THEN [old[i] EXCEPT !.status = "Available"] ELSE old[i]]
  <2>1. GoodList(list) /\ Len(list) = Len(old)
    BY <1>4, AvailableGood
  <2>2. listed' = [listed EXCEPT ![m.server] = list]
    BY <1>9
  <2> HIDE DEF list
  <2> QED
    BY <1>3, <1>9, <2>1, <2>2, ListChanges
<1>10. CASE /\ m.is = "DeviceDetached"
            /\ listed' = [listed EXCEPT ![m.server] =
                 [i \in DOMAIN @ |-> IF @[i].handle = m.handle
                                     THEN [@[i] EXCEPT !.status = "Available", !.handle = NoHandle]
                                     ELSE @[i]]]
            /\ UNCHANGED count
  <2> DEFINE list == [i \in DOMAIN old |->
                           IF old[i].handle = m.handle
                           THEN [old[i] EXCEPT !.status = "Available", !.handle = NoHandle]
                           ELSE old[i]]
  <2>1. GoodList(list) /\ Len(list) = Len(old)
    BY <1>4, DetachedGood
  <2>2. listed' = [listed EXCEPT ![m.server] = list]
    BY <1>10
  <2> HIDE DEF list
  <2> QED
    BY <1>3, <1>10, <2>1, <2>2, ListChanges
<1> QED
  BY <1>2, <1>5, <1>6, <1>8, <1>9, <1>10

LEMMA ListStep ==
  ASSUME AppInv, AppNext
  PROVE  ListValues'
<1>0. BusValues /\ TrafficValues /\ ListValues /\ OrderValues /\ ScreenValues
  BY DEF AppInv
<1>1. ASSUME TakesNotice
      PROVE  ListValues'
  <2> DEFINE n == Head(notices)
             list == IF n.kind = "Removed" THEN RemoveDevice(n.server, n.id)
                                              ELSE AddDevice(n.server, n.id)
  <2>1. notices \in Seq(AppNotice) /\ notices # <<>>
    BY <1>0, <1>1 DEF BusValues, TakesNotice
  <2>2. n \in AppNotice
    BY <2>1
  <2>3. n.server \in Servers /\ n.id \in Gear
    BY <2>2 DEF AppNotice
  <2>4. \/ UNCHANGED <<listed, count>>
        \/ /\ listed' = [listed EXCEPT ![n.server] = list]
           /\ count' = [count EXCEPT ![n.server] = Len(list)]
    BY <1>1, Zenon DEF TakesNotice, CountOf
  <2> HIDE DEF n
  <2>5. GoodList(listed[n.server])
    BY <1>0, <2>3 DEF ListValues
  <2>6. GoodList(RemoveDevice(n.server, n.id)) /\ GoodList(AddDevice(n.server, n.id))
    BY <2>3, <2>5, WithoutGood, AddGood DEF RemoveDevice
  <2>7. GoodList(list)
    BY <2>6
  <2> HIDE DEF list
  <2>8. CASE UNCHANGED <<listed, count>>
    BY <1>0, <2>8 DEF ListValues
  <2>9. CASE /\ listed' = [listed EXCEPT ![n.server] = list]
             /\ count' = [count EXCEPT ![n.server] = Len(list)]
    BY <1>0, <2>3, <2>7, <2>9, ListChanges
  <2> QED
    BY <2>4, <2>8, <2>9
<1>2. ASSUME HasGear, NEW st \in Statuses, NEW h \in Handles \cup {NoHandle}, NEW d,
             listed' = [listed EXCEPT ![ChosenServer] = WithStatus(@, d, st, h)],
             UNCHANGED count
      PROVE  ListValues'
  <2> DEFINE list == WithStatus(listed[ChosenServer], d, st, h)
  <2>1. ChosenServer \in Servers
    BY <1>0, <1>2, UnderTheCursor
  <2>2. GoodList(listed[ChosenServer])
    BY <1>0, <2>1 DEF ListValues
  <2>3. GoodList(list) /\ Len(list) = Len(listed[ChosenServer])
    BY <2>2, WithStatusGood
  <2>4. listed' = [listed EXCEPT ![ChosenServer] = list]
    BY <1>2
  <2> HIDE DEF list
  <2> QED
    BY <1>0, <1>2, <2>1, <2>3, <2>4, ListChanges
<1>3. ASSUME AttachKey
      PROVE  ListValues'
  <2>1. "Attaching" \in Statuses
    BY DEF Statuses
  <2> QED
    BY <1>2, <1>3, <2>1 DEF AttachKey
<1>4. ASSUME DetachKey
      PROVE  ListValues'
  <2>1. ChosenGear.handle \in Handles \cup {NoHandle} /\ "Detaching" \in Statuses
    BY <1>0, <1>4, UnderTheCursor DEF DetachKey, Entry, Statuses
  <2> QED
    BY <1>2, <1>4, <2>1 DEF DetachKey
<1>5. ASSUME UNCHANGED <<listed, count>>
      PROVE  ListValues'
  BY <1>0, <1>5 DEF ListValues
<1> QED
  BY <1>0, <1>1, <1>3, <1>4, <1>5, MessageStep, ListEffect

LEMMA PlacesStep ==
  ASSUME AppInv, AppNext
  PROVE  OrderValues' /\ Len(order) <= Len(order')
<1> DEFINE Goal == OrderValues' /\ Len(order) <= Len(order')
           Known == {"Disconnected", "Connecting", "Connected", "Failed"}
<1>0. BusValues /\ TrafficValues /\ ListValues /\ OrderValues /\ ScreenValues
  BY DEF AppInv
<1>1. Len(order) \in Nat /\ DOMAIN order = 1 .. Len(order)
  BY <1>0 DEF OrderValues
<1>2. ASSUME NEW s \in Servers, NEW st \in Known, status' = [status EXCEPT ![s] = st], UNCHANGED order
      PROVE  Goal
  <2>1. /\ status' \in [Servers -> {"Unknown", "Disconnected", "Connecting", "Connected", "Failed"}]
        /\ \A t \in Servers : status'[t] = IF t = s THEN st ELSE status[t]
    BY <1>0, <1>2 DEF OrderValues
  <2>2. \A i \in DOMAIN order : order[i] \in Servers /\ status[order[i]] # "Unknown"
    BY <1>0 DEF OrderValues
  <2>3. \A i \in DOMAIN order : status'[order[i]] # "Unknown"
    BY <2>1, <2>2
  <2> QED
    BY <1>0, <1>1, <1>2, <2>1, <2>3 DEF OrderValues, Apart
<1>3. ASSUME UNCHANGED <<order, status>>
      PROVE  Goal
  BY <1>0, <1>1, <1>3 DEF OrderValues, Apart
<1>4. ASSUME TakesMessage
      PROVE  Goal
  <2> DEFINE m == Head(messages)
  <2>1. messages \in Seq(AppMessage) /\ messages # <<>>
    BY <1>0, <1>4 DEF TrafficValues, TakesMessage
  <2>2. m \in AppMessage
    BY <2>1
  <2>3. m.server \in Servers
    BY <2>2 DEF AppMessage
  <2>4. \/ UNCHANGED <<order, status>>
        \/ UNCHANGED order /\ \E st \in Known : status' = [status EXCEPT ![m.server] = st]
    <3> HIDE DEF m
    <3>1. /\ UNCHANGED order
          /\ \/ status' = [status EXCEPT ![m.server] = "Connected"]
             \/ status' = [status EXCEPT ![m.server] = "Failed"]
             \/ status' = [status EXCEPT ![m.server] = "Disconnected"]
             \/ status' = status
      BY <1>4, Zenon DEF TakesMessage, m
    <3> QED
      BY <3>1
  <2> HIDE DEF m
  <2> QED
    BY <1>2, <1>3, <2>3, <2>4
<1>5. ASSUME ConnectKey
      PROVE  Goal
  <2>1. ChosenServer \in Servers
    BY <1>0, <1>5, UnderTheCursor DEF ConnectKey
  <2>2. status' = [status EXCEPT ![ChosenServer] = "Connecting"] /\ UNCHANGED order
    BY <1>5 DEF ConnectKey
  <2> HIDE DEF ChosenServer
  <2> QED
    BY <1>2, <2>1, <2>2
<1>6. ASSUME NEW s \in Servers, LineChanges(s)
      PROVE  Goal
  <2>1. (\E st \in Known : status' = [status EXCEPT ![s] = st]) /\ UNCHANGED order
    BY <1>6 DEF LineChanges
  <2> QED
    BY <1>2, <2>1
<1>7. ASSUME ConfirmsServer
      PROVE  Goal
  <2>1. CASE UNCHANGED <<order, status>>
    BY <1>3, <2>1
  <2>2. ASSUME NEW s \in Servers, status[s] = "Unknown", order' = Append(order, s),
               status' = [status EXCEPT ![s] = "Disconnected"]
        PROVE  Goal
    <3>1. /\ order' \in Seq(Servers) /\ DOMAIN order' = 1 .. (Len(order) + 1)
          /\ Len(order') = Len(order) + 1 /\ order'[Len(order) + 1] = s
          /\ \A i \in 1 .. Len(order) : order'[i] = order[i]
      BY <1>0, <1>1, <2>2 DEF OrderValues
    <3>2. /\ status' \in [Servers -> {"Unknown", "Disconnected", "Connecting", "Connected", "Failed"}]
          /\ \A t \in Servers : status'[t] = IF t = s THEN "Disconnected" ELSE status[t]
      BY <1>0, <2>2 DEF OrderValues
    <3>3. /\ \A i \in 1 .. Len(order) : order[i] \in Servers /\ status[order[i]] # "Unknown"
          /\ s \in Servers /\ status[s] = "Unknown"
      BY <1>0, <1>1, <2>2 DEF OrderValues
    <3>4. Apart(order')
      BY <1>0, <1>1, <3>1, <3>3 DEF OrderValues, Apart
    <3>5. \A i \in DOMAIN order' : status'[order'[i]] # "Unknown"
      BY <1>1, <3>1, <3>2, <3>3
    <3> QED
      BY <1>1, <3>1, <3>2, <3>4, <3>5 DEF OrderValues, Apart
  <2>3. Typed \subseteq Servers
    BY DEF Servers
  <2> QED
    BY <1>7, <2>1, <2>2, <2>3 DEF ConfirmsServer
<1>8. Goal
  BY <1>3, <1>4, <1>5, <1>6, <1>7, OrderEffect
<1> QED
  BY <1>8

LEMMA ScreenStep ==
  ASSUME AppInv, AppNext
  PROVE  ScreenValues'
<1>0. OrderValues /\ ScreenValues /\ ListValues
  BY DEF AppInv
<1>1. /\ Len(order) \in Nat /\ Len(order') \in Nat /\ Len(order) <= Len(order')
  BY <1>0, PlacesStep DEF OrderValues
<1>2. ASSUME NavigateUp
      PROVE  ScreenValues'
  <2>1. UNCHANGED <<order, pane, quit>>
    BY <1>2 DEF NavigateUp, listVars
  <2>2. CASE chosen > 0 /\ chosen' = chosen - 1 /\ UNCHANGED chosenGear
    BY <1>0, <1>1, <2>1, <2>2 DEF ScreenValues
  <2>3. CASE /\ HasServer /\ chosenGear[ChosenServer] > 0
             /\ chosenGear' = [chosenGear EXCEPT ![ChosenServer] = @ - 1] /\ UNCHANGED chosen
    <3>1. ChosenServer \in Servers
      BY <1>0, <2>3, UnderTheCursor
    <3> HIDE DEF ChosenServer
    <3>2. chosenGear' \in [Servers -> Nat]
      BY <1>0, <2>3, <3>1 DEF ScreenValues
    <3> QED
      BY <1>0, <1>1, <2>1, <2>3, <3>2 DEF ScreenValues
  <2> QED
    BY <1>2, <2>2, <2>3 DEF NavigateUp
<1>3. ASSUME NavigateDown
      PROVE  ScreenValues'
  <2>1. UNCHANGED <<order, pane, quit>>
    BY <1>3 DEF NavigateDown, listVars
  <2>2. CASE chosen < Len(order) - 1 /\ chosen' = chosen + 1 /\ UNCHANGED chosenGear
    BY <1>0, <1>1, <2>1, <2>2 DEF ScreenValues
  <2>3. CASE /\ HasServer
             /\ chosenGear' = [chosenGear EXCEPT ![ChosenServer] = @ + 1] /\ UNCHANGED chosen
    <3>1. ChosenServer \in Servers
      BY <1>0, <2>3, UnderTheCursor
    <3> HIDE DEF ChosenServer
    <3>2. chosenGear' \in [Servers -> Nat]
      BY <1>0, <2>3, <3>1 DEF ScreenValues
    <3> QED
      BY <1>0, <1>1, <2>1, <2>3, <3>2 DEF ScreenValues
  <2> QED
    BY <1>3, <2>2, <2>3 DEF NavigateDown
<1>4. ASSUME UNCHANGED <<chosen, chosenGear>>, quit' \in {quit, TRUE},
             pane' \in {pane, "Servers", "Devices"}
      PROVE  ScreenValues'
  <2>1. pane' \in {"Servers", "Devices"} /\ quit' \in BOOLEAN
    BY <1>0, <1>4 DEF ScreenValues
  <2>2. chosen' \in Nat /\ (chosen' = 0 \/ chosen' < Len(order'))
    <3>1. chosen' = chosen /\ chosen \in Nat /\ (chosen = 0 \/ chosen < Len(order))
      BY <1>0, <1>4 DEF ScreenValues
    <3> QED
      BY <1>1, <3>1
  <2> QED
    BY <1>0, <1>4, <2>1, <2>2 DEF ScreenValues
<1> QED
  BY <1>2, <1>3, <1>4, ScreenEffect

LEMMA AppStep ==
  ASSUME AppInv, [AppNext]_appVars
  PROVE  AppInv'
<1>1. ASSUME AppNext
      PROVE  AppInv'
  BY <1>1, BusStep, TrafficStep, ListStep, PlacesStep, ScreenStep DEF AppInv
<1>2. ASSUME UNCHANGED appVars
      PROVE  AppInv'
  BY <1>2 DEF AppInv, BusValues, TrafficValues, ListValues, OrderValues, ScreenValues, Apart, appVars
<1> QED
  BY <1>1, <1>2

LEMMA AppStarts ==
  ASSUME AppInit
  PROVE  AppInv
<1>1. IsFiniteSet({})
  BY FS_EmptySet
<1>2. BusValues
  BY <1>1 DEF AppInit, BusValues, Lists
<1>3. TrafficValues
  BY AppAssumption DEF AppInit, TrafficValues, EmptyBag, SetToBag, BagToSet
<1>4. GoodList(<<>>)
  BY DEF GoodList, OnceEach
<1>5. ListValues
  BY <1>4 DEF AppInit, ListValues
<1>6. OrderValues
  <2>1. /\ order = Configured /\ order \in Seq(Range(Configured)) /\ Apart(order)
        /\ status = [s \in Servers |-> IF s \in Range(Configured) THEN "Disconnected" ELSE "Unknown"]
    BY AppAssumption DEF AppInit, Apart, IsInjective
  <2>2. Range(Configured) \subseteq Servers
    BY DEF Servers
  <2>3. \A i \in DOMAIN order : order[i] \in Range(Configured)
    BY <2>1
  <2>4. order \in Seq(Servers)
    BY <2>1, <2>2
  <2>5. \A i \in DOMAIN order : status[order[i]] = "Disconnected"
    BY <2>1, <2>2, <2>3
  <2> QED
    BY <2>1, <2>4, <2>5 DEF OrderValues
<1>7. ScreenValues
  BY DEF AppInit, ScreenValues
<1> QED
  BY <1>2, <1>3, <1>5, <1>6, <1>7 DEF AppInv

\* What the checked types say of it.
LEMMA AppSound ==
  ASSUME AppInv
  PROVE  AppTypeOK /\ ListsAreConsistent
<1>0. BusValues /\ TrafficValues /\ ListValues /\ OrderValues /\ ScreenValues
  BY DEF AppInv
<1> DEFINE n == Len(order)
<1>1. n \in Nat /\ order \in [1 .. n -> Servers] /\ Apart(order)
  BY <1>0 DEF OrderValues
<1>2. n <= Cardinality(Servers) /\ Cardinality(Servers) \in Nat
  <2>1. order \in Injection(1 .. n, Servers)
    BY <1>1 DEF Apart, Injection, IsInjective
  <2>2. Cardinality(1 .. n) = n
    BY <1>1, FS_Interval
  <2> HIDE DEF n
  <2> QED
    BY <2>1, <2>2, ServersFinite, FS_Injection, FS_CardinalityType
<1>3. order \in SeqOf(Servers, Cardinality(Servers))
  BY <1>1, <1>2 DEF SeqOf
<1>4. chosen \in 0 .. Cardinality(Servers)
  BY <1>0, <1>1, <1>2 DEF ScreenValues
<1>5. plugged \in [Servers -> SUBSET Gear]
  BY <1>0 DEF BusValues, Lists
<1>6. AppTypeOK
  BY <1>0, <1>3, <1>4, <1>5
     DEF AppTypeOK, BusValues, TrafficValues, ListValues, OrderValues, ScreenValues, GoodList,
         Entry, Statuses
<1>7. ListsAreConsistent
  BY <1>0 DEF ListsAreConsistent, ListValues, GoodList, OnceEach
<1> QED
  BY <1>6, <1>7

-----------------------------------------------------------------------------
(* The parts together *)

PartsInv == LinkInv /\ PoolInv /\ AppInv

\* The connection, the pool and the interface have values of their types, and the lists
\* of the interface agree with themselves, whatever crosses on its way
\* (connection.rs, pool.rs, tui/app.rs).
THEOREM ClientStateSound == Spec => []StateIsConsistent
<1>1. Init => PartsInv
  BY LinkStarts, PoolStarts, AppStarts DEF Init, PartsInv
<1>2. PartsInv /\ [Next]_<<focus, linkVars, poolVars, appVars>> => PartsInv'
  <2> SUFFICES ASSUME PartsInv, [Next]_<<focus, linkVars, poolVars, appVars>>
               PROVE  PartsInv'
    OBVIOUS
  <2>1. [LinkNext]_linkVars /\ [PoolNext]_poolVars /\ [AppNext]_appVars
    BY DEF Next
  <2> QED
    BY <2>1, LinkStep, PoolStep, AppStep DEF PartsInv
<1>3. PartsInv => StateIsConsistent
  BY AppSound DEF PartsInv, LinkInv, PoolInv, StateIsConsistent
<1> QED
  BY <1>1, <1>2, <1>3, PTL DEF Spec

=============================================================================
