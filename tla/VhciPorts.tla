------------------------------- MODULE VhciPorts -------------------------------
(***************************************************************************)
(* LinuxVirtualUsbManager (crates/client/src/virtual_usb/linux.rs): which   *)
(* port of vhci_hcd a remote device gets, and how it loses it by a detach,  *)
(* by a forced detach after a removal, by the kernel, or never.             *)
(*                                                                          *)
(* One class of ports stands for both (0-7 and 8-15): they share nothing.   *)
(* A port is looked for in the kernel's status, read before the bitmap is   *)
(* locked, and in the bitmap.  The map of attached devices is behind a lock *)
(* of its own; "writer" is the task that keeps the others from it: it holds *)
(* the lock over a whole detach, or it waits for itself.                    *)
(* Other processes use ports of the same controller.                        *)
(***************************************************************************)
EXTENDS Integers, FiniteSets

CONSTANTS
  PortCount,   \* ports of the class (8)
  Plug,        \* global device ids: a server and a handle, given out once
  Worker,      \* tasks that call the manager
  Remover,     \* those of them that may detach
  Nobody, Others, \* a free port of the kernel, one of another process
  NoPlug

ASSUME PortsAssumption ==
  /\ PortCount \in Nat \ {0}
  /\ Remover \subseteq Worker
  /\ {Nobody, Others, NoPlug} \cap Plug = {} /\ Nobody \notin Worker \cup {Others}

VARIABLES
  kernel,     \* port -> device of ours, Others or Nobody
  bitmap,     \* hs_ports: ports that count as allocated
  devices,    \* attached_devices: device -> its port
  bridges,    \* socket_bridges
  remote,     \* devices the server holds for us
  spent,      \* history: handles the server has given out
  writer,     \* who keeps the others from the lock on devices
  job,        \* worker -> what it is doing
  contested   \* history: ports that two tasks were giving back at once

portVars == <<kernel, bitmap, devices, bridges, remote, spent, writer, job, contested>>

Ports == 0 .. (PortCount - 1)
NoPort == -1
JobAt(pc, d, p) == [pc |-> pc, plug |-> d, port |-> p, seen |-> {}]
NoJob == JobAt("idle", NoPlug, NoPort)
Unlocked == writer = Nobody
Entered == DOMAIN devices

PortsInit ==
  /\ kernel \in [Ports -> {Nobody, Others}]
  /\ bitmap = {p \in Ports : kernel[p] # Nobody}
  /\ devices = <<>>
  /\ bridges = {} /\ remote = {} /\ spent = {}
  /\ writer = Nobody
  /\ job = [w \in Worker |-> NoJob]
  /\ contested = {}

Does(w, pc) == job' = [job EXCEPT ![w].pc = pc]
IsDone(w) == job' = [job EXCEPT ![w] = NoJob]
Removed(d) == [x \in Entered \ {d} |-> devices[x]]

-----------------------------------------------------------------------------
(* attach_device *)

\* The proxy has attached the device at the server.
AttachRemote(w, d) ==
  /\ job[w].pc = "idle"
  /\ d \notin spent
  /\ spent' = spent \cup {d}
  /\ remote' = remote \cup {d}
  /\ job' = [job EXCEPT ![w] = JobAt("status", d, NoPort)]
  /\ UNCHANGED <<kernel, bitmap, devices, bridges, writer, contested>>

\* read_kernel_port_status; when it fails no port counts as used.
ReadStatus(w) ==
  /\ job[w].pc = "status"
  /\ \E used \in {{}, {p \in Ports : kernel[p] # Nobody}} :
       job' = [job EXCEPT ![w].pc = "allocate", ![w].seen = used]
  /\ UNCHANGED <<kernel, bitmap, devices, bridges, remote, spent, writer, contested>>

\* Mutant: only the kernel's status decides.
AllocateByKernel(w) ==
  LET free == Ports \ job[w].seen IN
  /\ job[w].pc = "allocate"
  /\ IF free = {}
     THEN IsDone(w) /\ UNCHANGED bitmap
     ELSE LET p == CHOOSE p \in free : \A q \in free : p <= q
          IN /\ bitmap' = bitmap \cup {p}
             /\ job' = [job EXCEPT ![w].pc = "vhci", ![w].port = p, ![w].seen = {}]
  /\ UNCHANGED <<kernel, devices, bridges, remote, spent, writer, contested>>

\* allocate_port: the first port that neither of the two has in use.  Without
\* one the device stays attached at the server.
AllocatePort(w) ==
  LET merged == bitmap \cup job[w].seen
      free == Ports \ merged
  IN /\ job[w].pc = "allocate"
     /\ IF free = {}
        THEN bitmap' = merged /\ IsDone(w)
        ELSE LET p == CHOOSE p \in free : \A q \in free : p <= q
             IN /\ bitmap' = merged \cup {p}
                /\ job' = [job EXCEPT ![w].pc = "vhci", ![w].port = p, ![w].seen = {}]
     /\ UNCHANGED <<kernel, devices, bridges, remote, spent, writer, contested>>

\* The socket pair and the write to sysfs, which the kernel refuses for a port
\* in use; then neither the port nor the server's device is given back.
AttachToVhci(w) ==
  /\ job[w].pc = "vhci"
  /\ \/ /\ kernel[job[w].port] = Nobody
        /\ kernel' = [kernel EXCEPT ![job[w].port] = job[w].plug]
        /\ Does(w, "enter")
     \/ IsDone(w) /\ UNCHANGED kernel
  /\ UNCHANGED <<bitmap, devices, bridges, remote, spent, writer, contested>>

EnterDevice(w) ==
  /\ job[w].pc = "enter"
  /\ Unlocked
  /\ devices' = [x \in Entered \cup {job[w].plug} |->
                   IF x = job[w].plug THEN job[w].port ELSE devices[x]]
  /\ Does(w, "bridge")
  /\ UNCHANGED <<kernel, bitmap, bridges, remote, spent, writer, contested>>

EnterBridge(w) ==
  /\ job[w].pc = "bridge"
  /\ bridges' = bridges \cup {job[w].plug}
  /\ IsDone(w)
  /\ UNCHANGED <<kernel, bitmap, devices, remote, spent, writer, contested>>

-----------------------------------------------------------------------------
(* detach_device: the map is locked from here to the server's answer *)

Forcing == {"forceunvhci", "forcefree", "forceremove"}
Detaching == {"unvhci", "free"} \cup Forcing
Leaves(d, pcs) == \E w \in Worker : job[w].plug = d /\ job[w].pc \in pcs

DetachBegins(w, d) ==
  /\ w \in Remover /\ job[w].pc = "idle"
  /\ Unlocked
  /\ d \in Entered
  /\ writer' = w
  /\ bridges' = bridges \ {d}
  /\ job' = [job EXCEPT ![w] = JobAt("unvhci", d, devices[d])]
  /\ contested' = IF Leaves(d, Forcing) THEN contested \cup {devices[d]} ELSE contested
  /\ UNCHANGED <<kernel, bitmap, devices, remote, spent>>

\* The kernel refuses to detach a port that is not connected: the device stays
\* entered, without a bridge.
DetachFromVhci(w) ==
  /\ job[w].pc = "unvhci"
  /\ IF kernel[job[w].port] = Nobody
     THEN IsDone(w) /\ writer' = Nobody /\ UNCHANGED kernel
     ELSE /\ kernel' = [kernel EXCEPT ![job[w].port] = Nobody]
          /\ Does(w, "free")
          /\ UNCHANGED writer
  /\ UNCHANGED <<bitmap, devices, bridges, remote, spent, contested>>

\* free_port, and the entry goes.
FreePort(w) ==
  /\ job[w].pc = "free"
  /\ bitmap' = bitmap \ {job[w].port}
  /\ devices' = Removed(job[w].plug)
  /\ Does(w, "unremote")
  /\ UNCHANGED <<kernel, bridges, remote, spent, writer, contested>>

DetachRemote(w) ==
  /\ job[w].pc = "unremote"
  /\ remote' = remote \ {job[w].plug} \/ UNCHANGED remote
  /\ writer' = Nobody
  /\ IsDone(w)
  /\ UNCHANGED <<kernel, bitmap, devices, bridges, spent, contested>>

-----------------------------------------------------------------------------
(* force_detach, for every handle of a removed device or of a server *)

\* The port is read under a guard, which is dropped before the rest.  Without an
\* entry it is still held when the write lock is asked for: the task waits for
\* itself, and keeps everybody from the map.
ForceBegins(w, d) ==
  /\ w \in Remover /\ job[w].pc = "idle"
  /\ d \in spent
  /\ Unlocked
  /\ IF d \in Entered
     THEN /\ job' = [job EXCEPT ![w] = JobAt("forceunvhci", d, devices[d])]
          /\ contested' = IF Leaves(d, Forcing) THEN contested \cup {devices[d]} ELSE contested
          /\ UNCHANGED writer
     ELSE /\ job' = [job EXCEPT ![w] = JobAt("forceremove", d, NoPort)]
          /\ writer' = w
          /\ UNCHANGED contested
  /\ UNCHANGED <<kernel, bitmap, devices, bridges, remote, spent>>

\* The lock is not held any more; an error is ignored.
ForceDetachFromVhci(w) ==
  /\ job[w].pc = "forceunvhci"
  /\ bridges' = bridges \ {job[w].plug}
  /\ kernel' = [kernel EXCEPT ![job[w].port] = Nobody]
  /\ Does(w, "forcefree")
  /\ UNCHANGED <<bitmap, devices, remote, spent, writer, contested>>

ForceFreePort(w) ==
  /\ job[w].pc = "forcefree"
  /\ bitmap' = bitmap \ {job[w].port}
  /\ Does(w, "forceremove")
  /\ UNCHANGED <<kernel, devices, bridges, remote, spent, writer, contested>>

ForceRemove(w) ==
  /\ job[w].pc = "forceremove"
  /\ Unlocked
  /\ devices' = Removed(job[w].plug)
  /\ IsDone(w)
  /\ UNCHANGED <<kernel, bitmap, bridges, remote, spent, writer, contested>>

-----------------------------------------------------------------------------
(* The kernel and other processes *)

KernelDrops(p) ==
  /\ kernel[p] \in Plug
  /\ kernel' = [kernel EXCEPT ![p] = Nobody]
  /\ UNCHANGED <<bitmap, devices, bridges, remote, spent, writer, job, contested>>

OthersAttach(p) ==
  /\ kernel[p] = Nobody
  /\ kernel' = [kernel EXCEPT ![p] = Others]
  /\ UNCHANGED <<bitmap, devices, bridges, remote, spent, writer, job, contested>>

OthersDetach(p) ==
  /\ kernel[p] = Others
  /\ kernel' = [kernel EXCEPT ![p] = Nobody]
  /\ UNCHANGED <<bitmap, devices, bridges, remote, spent, writer, job, contested>>

WorkerStep(w) ==
  \/ ReadStatus(w) \/ AllocatePort(w) \/ AttachToVhci(w) \/ EnterDevice(w) \/ EnterBridge(w)
  \/ DetachFromVhci(w) \/ FreePort(w) \/ DetachRemote(w)
  \/ ForceDetachFromVhci(w) \/ ForceFreePort(w) \/ ForceRemove(w)

PortsNext ==
  \/ \E w \in Worker :
       \/ \E d \in Plug : AttachRemote(w, d) \/ DetachBegins(w, d) \/ ForceBegins(w, d)
       \/ WorkerStep(w)
  \/ \E p \in Ports : KernelDrops(p) \/ OthersAttach(p) \/ OthersDetach(p)

PortsSpec == PortsInit /\ [][PortsNext]_portVars

-----------------------------------------------------------------------------
(* Properties *)

PortJob == [pc : {"idle", "status", "allocate", "vhci", "enter", "bridge",
                  "unvhci", "free", "unremote", "forceunvhci", "forcefree", "forceremove"},
            plug : Plug \cup {NoPlug}, port : Ports \cup {NoPort}, seen : SUBSET Ports]

\* The type invariant.
PortsTypeOK ==
  /\ kernel \in [Ports -> Plug \cup {Nobody, Others}]
  /\ bitmap \subseteq Ports
  /\ Entered \subseteq spent /\ \A d \in Entered : devices[d] \in Ports
  /\ bridges \subseteq spent /\ remote \subseteq spent /\ spent \subseteq Plug
  /\ writer \in Remover \cup {Nobody}
  /\ job \in [Worker -> PortJob]
  /\ contested \subseteq Ports

\* A device that nobody is detaching has its port for itself: no other attached
\* device is entered with it, unless it is being detached, and the kernel has no
\* other device of ours there.  The kernel's status is read before the bitmap is
\* locked, other processes use the ports, and a forced detach frees the port
\* before the entry goes; only a port that two detaches of one device give back
\* at once, the second for its new owner, is shared (allocate_port, force_detach).
PortsNotShared ==
  \A d \in Entered : devices[d] \notin contested /\ ~Leaves(d, Detaching) =>
    /\ \A e \in Entered \ {d} : devices[e] = devices[d] => Leaves(e, Detaching)
    /\ kernel[devices[d]] \notin Plug \ {d}

===============================================================================
