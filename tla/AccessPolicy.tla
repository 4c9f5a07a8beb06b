----------------------------- MODULE AccessPolicy -----------------------------
(***************************************************************************)
(* The decisions of PolicyEngine (crates/server/src/policy.rs) without its  *)
(* table of sessions: which policy applies to a device, whether a client    *)
(* may attach it at a minute of the day, and how many minutes a session     *)
(* that begins in that minute has until its window ends.  The code drops    *)
(* the seconds of the time of day before it decides any of this.            *)
(*                                                                          *)
(* A device filter "vid:pid" is a record with the two halves; "vid:*" has   *)
(* pid AnyId, and "*" has both AnyId.  The exact match ignores case, the    *)
(* match of "vid:*" does not: "lower" says how the filter is written.       *)
(* A time window is a pair of minutes; a string that does not parse is      *)
(* BadWindow, which the code skips wherever it meets it.                    *)
(***************************************************************************)
EXTENDS Integers, Sequences

CONSTANTS
  Day,      \* minutes of a day (1440)
  AnyId,    \* the wildcard "*" in a filter
  Anyone    \* the wildcard "*" in a list of clients

ASSUME PolicyAssumption == Day \in Nat \ {0}

Minute == 0 .. (Day - 1)
BadWindow == [start |-> -1, end |-> -1]
Window == [start : Minute, end : Minute]
Unlimited == -1

-----------------------------------------------------------------------------
(* Which policy *)

\* The first of the policies that satisfies a predicate is meant by "find";
\* 0 stands for None.
First(S) == IF S = {} THEN 0 ELSE CHOOSE i \in S : \A j \in S : i <= j

ExactMatches(policies, dev) ==
  {i \in DOMAIN policies : /\ policies[i].filter.vid = dev.vid
                           /\ policies[i].filter.pid = dev.pid}

\* The wildcard is compared with a string formatted in lower case.
VendorMatches(policies, dev) ==
  {i \in DOMAIN policies : /\ policies[i].filter.vid = dev.vid
                           /\ policies[i].filter.pid = AnyId
                           /\ policies[i].filter.lower}

DefaultPolicies(policies) ==
  {i \in DOMAIN policies : /\ policies[i].filter.vid = AnyId
                           /\ policies[i].filter.pid = AnyId}

FindMatchingPolicy(policies, dev) ==
  IF ExactMatches(policies, dev) # {} THEN First(ExactMatches(policies, dev))
  ELSE First(VendorMatches(policies, dev))

\* find_matching_policy(..).or_else(find_default_policy)
PolicyFor(policies, dev) ==
  LET i == FindMatchingPolicy(policies, dev)
  IN IF i # 0 THEN i ELSE First(DefaultPolicies(policies))

-----------------------------------------------------------------------------
(* Time windows *)

\* A window whose end is not after its start runs over midnight; one whose
\* end is its start is empty.
TimeInRange(t, w) ==
  IF w.start <= w.end THEN w.start <= t /\ t < w.end
                      ELSE w.start <= t \/ t < w.end

\* The windows that hold the minute t.
WindowsAt(t, windows) ==
  {i \in DOMAIN windows : windows[i] # BadWindow /\ TimeInRange(t, windows[i])}

\* mins_until_end of calculate_window_expiry.
MinutesUntilEnd(t, w) ==
  IF w.end > t THEN w.end - t ELSE (Day - t) + w.end

\* calculate_window_expiry in minutes from now: only the first window counts.
WindowExpiry(t, windows) ==
  IF WindowsAt(t, windows) = {} THEN Unlimited
  ELSE MinutesUntilEnd(t, windows[First(WindowsAt(t, windows))])

-----------------------------------------------------------------------------
(* The decision *)

ClientAllowed(policy, client) ==
  Anyone \in policy.clients \/ client \in policy.clients

\* evaluate_policy
Allows(policy, client, dev, t) ==
  /\ ClientAllowed(policy, client)
  /\ dev.class \notin policy.restricted
  /\ policy.windows # <<>> => WindowsAt(t, policy.windows) # {}

\* check_access: no policy at all allows everything, none for this device
\* denies.
CheckAccess(policies, client, dev, t) ==
  LET i == PolicyFor(policies, dev)
  IN IF i = 0 THEN policies = <<>> ELSE Allows(policies[i], client, dev, t)

\* The two limits register_session computes for a session that begins now:
\* its longest duration and the minutes left in the window.
DurationLimit(policies, dev) ==
  LET i == PolicyFor(policies, dev)
  IN IF i = 0 THEN Unlimited ELSE policies[i].maxDuration

WindowLimit(policies, dev, t) ==
  LET i == PolicyFor(policies, dev)
  IN IF i = 0 THEN Unlimited ELSE WindowExpiry(t, policies[i].windows)
===============================================================================
