---------------------------- MODULE MCSessionExpiry ----------------------------
(* One client and one keyboard it may have for a tick: the smallest instance of *)
(* SessionExpiry in which a session comes to its end.                          *)
EXTENDS SessionExpiry

CONSTANTS vid1, pid1, keyboard

Keyboard == [vid |-> vid1, pid |-> pid1, class |-> keyboard]

MCThing == {Keyboard}
MCPolicies ==
  << [filter |-> [vid |-> AnyId, pid |-> AnyId, lower |-> TRUE], clients |-> {Anyone},
      restricted |-> {}, windows |-> <<>>, maxDuration |-> 1] >>
=============================================================================
