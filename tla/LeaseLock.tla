------------------------------ MODULE LeaseLock ------------------------------
(***************************************************************************)
(* What the lock of a shared device promises, without queues or clocks: at *)
(* most one member holds it; the holder keeps it until it lets go, leaves  *)
(* or its lease is overdue; and serving the waiters never leaves the lock  *)
(* free while somebody waits, nor gives an overdue lease back to the same  *)
(* holder.  DeviceSharing implements this module.                          *)
(***************************************************************************)
CONSTANTS Client, None

VARIABLES
  members,  \* the attached clients
  holder,   \* the member that holds the lock, or None
  waiters,  \* the members in line for it
  overdue   \* whether the holder's lease has run out

vars == <<members, holder, waiters, overdue>>

Init ==
  /\ members = {}
  /\ holder = None
  /\ waiters = {}
  /\ overdue = FALSE

Join(c) ==
  /\ members' = members \cup {c}
  /\ UNCHANGED <<holder, waiters, overdue>>

Leave(c) ==
  /\ members' = members \ {c}
  /\ waiters' = waiters \ {c}
  /\ IF holder = c
     THEN holder' = None /\ overdue' = FALSE
     ELSE UNCHANGED <<holder, overdue>>

Take(c) ==
  /\ c \in members
  /\ holder = None
  /\ holder' = c
  /\ UNCHANGED <<members, waiters, overdue>>

Wait(c) ==
  /\ c \in members
  /\ holder \notin {None, c}
  /\ waiters' = waiters \cup {c}
  /\ UNCHANGED <<members, holder, overdue>>

Release(c) ==
  /\ holder = c
  /\ holder' = None
  /\ overdue' = FALSE
  /\ UNCHANGED <<members, waiters>>

\* Waiters whose request has timed out are dropped; the lock goes to one that
\* is left, and stays free only when none is.
Serve(dropped, next) ==
  /\ holder = None \/ overdue
  /\ dropped \subseteq waiters
  /\ IF next = None THEN dropped = waiters ELSE next \in waiters \ dropped
  /\ overdue => next # holder
  /\ holder' = next
  /\ overdue' = FALSE
  /\ waiters' = waiters \ (dropped \cup {next})
  /\ UNCHANGED members

RunOut ==
  /\ holder # None
  /\ overdue' = TRUE
  /\ UNCHANGED <<members, holder, waiters>>

Next ==
  \/ \E c \in Client : Join(c) \/ Leave(c) \/ Take(c) \/ Wait(c) \/ Release(c)
  \/ \E dropped \in SUBSET Client, next \in Client \cup {None} : Serve(dropped, next)
  \/ RunOut

Spec == Init /\ [][Next]_vars

=============================================================================
