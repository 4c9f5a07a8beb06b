---------------------------- MODULE FairScheduler ----------------------------
(***************************************************************************)
(* Whose turn it is: FairScheduler and ClientSchedulerState                 *)
(* (crates/server/src/qos.rs). The clients are visited in the order of the  *)
(* hash table, which is any order, and any other one after a change.        *)
(***************************************************************************)
EXTENDS Integers, Sequences, SequencesExt, FiniteSets

CONSTANTS
  Tenant,      \* client ids
  Quota,       \* client_quota
  Amount       \* bytes of one transfer

ASSUME SchedulerAssumption == IsFiniteSet(Tenant) /\ Quota \in Nat /\ Amount \subseteq Nat

VARIABLES
  visit,       \* the registered clients in the table's order
  next,        \* round_robin_index
  used,        \* bytes_transferred, by client
  over,        \* the clients whose window of one second is over
  passedOver   \* history: turns given to others while a client might have one

schedulerVars == <<visit, next, used, over, passedOver>>

Enrolled == Range(visit)
NobodyPassed == [c \in Tenant |-> 0]

SchedulerInit ==
  /\ visit = <<>> /\ next = 0
  /\ used = [c \in Tenant |-> 0]
  /\ over = {}
  /\ passedOver = NobodyPassed

RegisterClient(c) ==
  /\ c \notin Enrolled
  /\ visit' \in SetToSeqs(Enrolled \cup {c})
  /\ used' = [used EXCEPT ![c] = 0]
  /\ over' = over \ {c}
  /\ passedOver' = NobodyPassed
  /\ UNCHANGED next

UnregisterClient(c) ==
  /\ c \in Enrolled
  /\ visit' \in SetToSeqs(Enrolled \ {c})
  /\ used' = [used EXCEPT ![c] = 0]
  /\ over' = over \ {c}
  /\ passedOver' = NobodyPassed
  /\ UNCHANGED next

\* maybe_reset_window, then is_within_quota.
UsedNow(c) == IF c \in over THEN 0 ELSE used[c]
WithinQuota(c) == UsedNow(c) < Quota

RecordTransfer(c, bytes) ==
  /\ c \in Enrolled
  /\ UsedNow(c) <= Quota
  /\ used' = [used EXCEPT ![c] = UsedNow(c) + bytes]
  /\ over' = over \ {c}
  /\ UNCHANGED <<visit, next, passedOver>>

\* The i-th client to be asked, from the index on.
Asked(i) == visit[((next + i) % Len(visit)) + 1]

IndexAfter(i) == (next + i + 1) % Len(visit)

\* select_next_client: the windows of the clients that are asked are looked at.
SelectNext ==
  /\ visit # <<>>
  /\ LET turns == {i \in 0..(Len(visit) - 1) : WithinQuota(Asked(i))}
         turn  == CHOOSE i \in turns : \A j \in turns : i <= j
         asked == IF turns = {} THEN Enrolled ELSE {Asked(i) : i \in 0..turn}
     IN /\ used' = [c \in Tenant |-> IF c \in asked THEN UsedNow(c) ELSE used[c]]
        /\ over' = over \ asked
        /\ IF turns = {} THEN UNCHANGED <<next, passedOver>>
           ELSE /\ next' = IndexAfter(turn)
                /\ passedOver' = [c \in Tenant |->
                     IF c # Asked(turn) /\ c \in Enrolled /\ WithinQuota(c)
                     THEN passedOver[c] + 1 ELSE 0]
  /\ UNCHANGED visit

\* A second has gone by for one of the clients.
WindowEnds(c) ==
  /\ c \in Enrolled \ over
  /\ over' = over \cup {c}
  /\ UNCHANGED <<visit, next, used, passedOver>>

SchedulerNext ==
  \/ SelectNext
  \/ \E c \in Tenant : \/ RegisterClient(c) \/ UnregisterClient(c) \/ WindowEnds(c)
                       \/ \E bytes \in Amount : RecordTransfer(c, bytes)

SchedulerSpec == SchedulerInit /\ [][SchedulerNext]_schedulerVars

(***************************** properties **********************************)

\* Every variable has values of its type (FairScheduler's fields).
SchedulerTypeOK ==
  /\ visit \in SeqOf(Tenant, Cardinality(Tenant))
  /\ next \in 0..Cardinality(Tenant)
  /\ used \in [Tenant -> Nat] /\ over \subseteq Enrolled
  /\ passedOver \in [Tenant -> Nat]

\* Round robin: between two turns of a client that has quota left everybody else
\* has at most one, as long as nobody comes or goes (select_next_client).
NobodyIsPassedOver == \A c \in Enrolled : passedOver[c] < Len(visit)
=============================================================================
