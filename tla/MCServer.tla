------------------------------- MODULE MCServer -------------------------------
(***************************************************************************)
(* The server's core for TLC, one part at a time: the sharing record of one *)
(* device in every mode, the server of UsbServer in the mode it configures, *)
(* and the device manager in Shared mode, which the server never configures *)
(* but the manager is written for.  The record and the server are extended, *)
(* the manager in Shared mode is an instance.  They share no state; "focus" *)
(* says which of them a behaviour is about.                                 *)
(***************************************************************************)
EXTENDS DeviceSharing, UsbServer, TLC

CONSTANTS
  Given,      \* bound: the handles the server gives out
  Ports,      \* of the manager in Shared mode
  Handles     \* bound: the handles the manager in Shared mode gives out

VARIABLES
  focus,
  at, portOf, given, records, opened, oldIds, oldHandles

sharedVars == <<at, portOf, given, records, opened, oldIds, oldHandles>>

Manager == INSTANCE DeviceManager WITH
  Port <- Ports, DefaultMode <- "Shared", MaxClients <- 2,
  devices <- at, device_ids <- portOf, attached <- given, tracker <- records,
  open <- opened, used_ids <- oldIds, used_handles <- oldHandles

CoreInit ==
  /\ focus \in {"sharing", "manager", "server"}
  /\ SharingInit /\ Manager!ManagerInit /\ Init
  /\ focus # "sharing" => sharing.mode = "Exclusive"
  /\ focus # "server" => present = {}

CoreNext ==
  \/ /\ focus = "sharing" /\ SharingNext
     /\ UNCHANGED <<focus, sharedVars, vars>>
  \/ /\ focus = "manager" /\ Manager!ManagerNext /\ oldHandles' \subseteq Handles
     /\ UNCHANGED <<focus, sharing, vars>>
  \/ /\ focus = "server" /\ Next /\ used_handles' \subseteq Given
     /\ UNCHANGED <<focus, sharing, sharedVars>>

CoreSpec == CoreInit /\ [][CoreNext]_<<focus, sharing, sharedVars, vars>>

\* Ids, handles and clients of the server are alike; the others are left alone.
Symmetry ==
  Permutations(DeviceId) \cup Permutations(Client) \cup Permutations(Given)

-----------------------------------------------------------------------------

\* In Shared mode, where a device has several handles: registry, ids and records of
\* the manager agree, the manager and the tracker name the same handles of a device,
\* and a device is open until its last client has gone (add_device, remove_device,
\* attach_device, detach_device).
SharedManagerIsSound ==
  /\ Manager!ManagerTypeOK
  /\ Manager!RegistryConsistent /\ Manager!AttachmentsConsistent
  /\ Manager!OpenWhileAttached

===============================================================================
