------------------------------ MODULE MCClientParts ------------------------------
(***************************************************************************)
(* One instance of each focus of the client whose safety is at stake: the     *)
(* ports of vhci_hcd, the bridge of a virtual device, its buffer of          *)
(* interrupt reports, and the attaching of a server's devices.  They share   *)
(* no state; "focus" says which one a behaviour is about.                     *)
(***************************************************************************)
EXTENDS TLC, VhciPorts, SocketBridge, ReceiveBuffer, AutoAttach

VARIABLE focus

\* A unit that nobody wants is there from the start, and stays (a bound); the wanted
\* one comes before the client asks for the list, or later, and may leave.
Init ==
  /\ focus \in {"ports", "bridge", "reports", "attaching"}
  /\ PortsInit /\ (focus # "ports" => bitmap = {})
  /\ BridgeInit /\ ReceiveInit
  /\ AutoInit /\ (focus # "attaching" => mainTask.mode = "auto")
  /\ plugged = IF focus = "attaching" THEN Unit \ Wanted ELSE {}

\* The variables of all parts but one.
ButPorts ==
  <<bridgeVars, receiveVars, autoVars>>
ButBridge ==
  <<portVars, receiveVars, autoVars>>
ButReceive ==
  <<portVars, bridgeVars, autoVars>>
ButAuto ==
  <<portVars, bridgeVars, receiveVars>>

Next ==
  \/ focus = "ports" /\ PortsNext /\ UNCHANGED <<focus, ButPorts>>
  \/ focus = "bridge" /\ BridgeNext /\ UNCHANGED <<focus, ButBridge>>
  \/ focus = "reports" /\ ReceiveNext /\ UNCHANGED <<focus, ButReceive>>
  \/ focus = "attaching" /\ AutoNext /\ gone' \subseteq Wanted /\ UNCHANGED <<focus, ButAuto>>

Spec == Init /\ [][Next]_<<focus, portVars, ButPorts>>

\* Every variable of the four parts has values of its type.
TypeOK == PortsTypeOK /\ BridgeTypeOK /\ ReceiveTypeOK /\ AutoTypeOK

Symmetric == Permutations(Plug) \cup Permutations(Grip)
===============================================================================
