------------------------------- MODULE QosQueue -------------------------------
(***************************************************************************)
(* The queue of transfers by priority: PriorityQueue and QosManager's       *)
(* enqueue, dequeue, cancel and cancel_device (crates/server/src/qos.rs).   *)
(* No caller of it exists in the server yet.                                *)
(*                                                                          *)
(* The heap is the one of the standard library, an array: its order depends *)
(* on the clock, for a request that has waited is compared with a higher    *)
(* priority. Request ids are taken to be of one client: those of two        *)
(* clients may be equal, and the table of ids knows only one of them.       *)
(***************************************************************************)
EXTENDS Integers, Sequences, SequencesExt, FiniteSets

CONSTANTS
  MaxRequest,   \* requests, with the ids 1..MaxRequest (bound)
  QosHandle,    \* device handles
  Level,        \* priorities, of Low = 0, Medium = 1, High = 2, Critical = 3
  Patience,     \* the five seconds of effective_priority, in ticks
  MaxClock      \* the last tick (bound)

ASSUME QosAssumption ==
  /\ Level \subseteq 0..3
  /\ Patience \in Nat /\ MaxRequest \in Nat /\ MaxClock \in Nat

VARIABLES
  heap,      \* the requests, [id, handle, level, at]
  ids,       \* the keys of request_ids
  clock,
  served,    \* history: the ids dequeued
  withdrawn  \* history: the ids cancelled

qosVars == <<heap, ids, clock, served, withdrawn>>

QosInit == heap = <<>> /\ ids = {} /\ clock = 0 /\ served = {} /\ withdrawn = {}

IdsOf(queue) == {queue[i].id : i \in DOMAIN queue}

Waited(r) == clock - r.at

\* Low becomes Medium and Medium becomes High; the second boost of the code, after
\* ten seconds, stands behind the first and is never reached.
EffectivePriority(r) ==
  IF Waited(r) > Patience /\ r.level < 2 THEN r.level + 1 ELSE r.level

\* Ord for PrioritizedRequest: a <= b.
NotAbove(a, b) ==
  \/ EffectivePriority(a) < EffectivePriority(b)
  \/ EffectivePriority(a) = EffectivePriority(b) /\ Waited(a) <= Waited(b)

Swapped(queue, i, j) == [queue EXCEPT ![i] = queue[j], ![j] = queue[i]]

\* One step up: the request above which the hole's is not stays.
Raised(hole) ==
  LET queue == hole.queue
      above == hole.place \div 2
  IN IF hole.place = 1 \/ NotAbove(queue[hole.place], queue[above]) THEN hole
     ELSE [queue |-> Swapped(queue, hole.place, above), place |-> above]

SiftUp(queue, i) ==
  LET after[k \in 0..i] == IF k = 0 THEN [queue |-> queue, place |-> i]
                           ELSE Raised(after[k - 1])
  IN after[i].queue

\* One step down, to the greater child.
Lowered(hole) ==
  LET queue == hole.queue
      left  == 2 * hole.place
      child == IF left < Len(queue) /\ NotAbove(queue[left], queue[left + 1])
               THEN left + 1 ELSE left
  IN IF left > Len(queue) THEN hole
     ELSE [queue |-> Swapped(queue, hole.place, child), place |-> child]

\* The hole goes down to a leaf, and up again from there.
SiftDown(queue) ==
  LET after[k \in 0..Len(queue)] == IF k = 0 THEN [queue |-> queue, place |-> 1]
                                    ELSE Lowered(after[k - 1])
      leaf == after[Len(queue)]
  IN SiftUp(leaf.queue, leaf.place)

Inserted(queue, r) == SiftUp(Append(queue, r), Len(queue) + 1)

\* Mutant: the last request is not put at the root's place.
PoppedShort(queue) == Front(queue)

\* The last request takes the place of the first one.
Popped(queue) ==
  IF Len(queue) = 1 THEN <<>> ELSE SiftDown([Front(queue) EXCEPT ![1] = Last(queue)])

\* remove: the others are pushed again.
Excluding(queue, id) ==
  LET rest[k \in 0..Len(queue)] ==
        IF k = 0 THEN <<>>
        ELSE IF queue[k].id = id THEN rest[k - 1] ELSE Inserted(rest[k - 1], queue[k])
  IN rest[Len(queue)]

\* Those of a device, one after the other in the order of the heap.
ExcludingDevice(queue, handle) ==
  LET rest[k \in 0..Len(queue)] ==
        IF k = 0 THEN queue
        ELSE IF queue[k].handle = handle THEN Excluding(rest[k - 1], queue[k].id)
        ELSE rest[k - 1]
  IN rest[Len(queue)]

EnqueueUrb(handle, level) ==
  LET id == Cardinality(ids \cup served \cup withdrawn) + 1
  IN /\ id <= MaxRequest
     /\ heap' = Inserted(heap, [id |-> id, handle |-> handle, level |-> level, at |-> clock])
     /\ ids' = ids \cup {id}
     /\ UNCHANGED <<clock, served, withdrawn>>

Dequeue ==
  /\ heap # <<>>
  /\ heap' = Popped(heap)
  /\ ids' = ids \ {heap[1].id}
  /\ served' = served \cup {heap[1].id}
  /\ UNCHANGED <<clock, withdrawn>>

Cancel(id) ==
  /\ id \in ids
  /\ heap' = Excluding(heap, id)
  /\ ids' = ids \ {id}
  /\ withdrawn' = withdrawn \cup {id}
  /\ UNCHANGED <<clock, served>>

CancelDevice(handle) ==
  LET gone == {heap[i].id : i \in {j \in DOMAIN heap : heap[j].handle = handle}}
  IN /\ gone # {}
     /\ heap' = ExcludingDevice(heap, handle)
     /\ ids' = ids \ gone
     /\ withdrawn' = withdrawn \cup gone
     /\ UNCHANGED <<clock, served>>

QosTick ==
  /\ clock < MaxClock
  /\ clock' = clock + 1
  /\ UNCHANGED <<heap, ids, served, withdrawn>>

QosNext ==
  \/ \E handle \in QosHandle, level \in Level : EnqueueUrb(handle, level)
  \/ Dequeue \/ QosTick
  \/ \E id \in 1..MaxRequest : Cancel(id)
  \/ \E handle \in QosHandle : CancelDevice(handle)

QosSpec == QosInit /\ [][QosNext]_qosVars

(***************************** properties **********************************)

\* Every variable has values of its type (PriorityQueue's fields).
QosTypeOK ==
  /\ heap \in Seq([id : 1..MaxRequest, handle : QosHandle, level : Level, at : 0..MaxClock])
  /\ ids \subseteq 1..MaxRequest
  /\ clock \in 0..MaxClock
  /\ served \subseteq 1..MaxRequest /\ withdrawn \subseteq 1..MaxRequest

\* No request is lost or doubled, in whatever order the clock and the heap's
\* rebuilding have put them: the table of ids has those of the heap, each once,
\* and nothing that was served or cancelled (PriorityQueue's push, pop, remove).
RequestsConserved ==
  /\ IdsOf(heap) = ids /\ Len(heap) = Cardinality(ids)
  /\ ids \cap (served \cup withdrawn) = {} /\ served \cap withdrawn = {}

=============================================================================
