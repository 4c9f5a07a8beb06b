------------------------- MODULE DeviceManagerProofs -------------------------
(***************************************************************************)
(* The registry, the attached map, the tracker and the open devices agree, *)
(* for any number of ports, devices, clients and handles.  The methods of  *)
(* the tracker's records are those of SharingStateProofs.                  *)
(***************************************************************************)
EXTENDS DeviceManager, SharingStateProofs

\* Ids and handles are in use at most once, so what is new is nowhere known.
Used ==
  /\ \A d \in DeviceId : Registered(d) => d \in used_ids
  /\ \A h \in Handle : IsAttached(h) => h \in used_handles

Records ==
  \A d \in DeviceId : Registered(d) =>
    SharingInv(tracker[d]) /\ tracker[d].mode = DefaultMode

Maps ==
  /\ \A p \in Port, d \in DeviceId : devices[p] = d <=> device_ids[d] = p
  /\ \A d \in DeviceId : tracker[d] # Unregistered <=> Registered(d)

ManagerInv ==
  /\ ManagerTypeOK
  /\ Maps
  /\ Records
  /\ AttachmentsConsistent
  /\ OpenWhileAttached
  /\ Used

-----------------------------------------------------------------------------
(* What the methods of a record do to its clients and its mode *)

Same(s, t) == t.attached = s.attached /\ t.mode = s.mode

LEMMA GrantSame ==
  ASSUME NEW s \in DeviceSharingState, NEW h
  PROVE  Same(s, Grant(s, h))
BY DEF Grant, DeviceSharingState, Same

LEMMA AcquireLockSame ==
  ASSUME NEW s \in DeviceSharingState, NEW h, NEW w
  PROVE  Same(s, AcquireLock(s, h, w))
<1>1. Same(s, AddToQueue(s, h, w))
  BY DEF AddToQueue, DeviceSharingState, Same
<1> QED
  BY <1>1, GrantSame DEF AcquireLock, Same

LEMMA ReleaseLockSame ==
  ASSUME NEW s \in DeviceSharingState, NEW h
  PROVE  Same(s, ReleaseLock(s, h))
BY DEF ReleaseLock, DeviceSharingState, Same

LEMMA ProcessQueueSame ==
  ASSUME NEW s, SharingInv(s)
  PROVE  Same(s, ProcessQueue(s))
<1> DEFINE q == s.access_queue
           k == ExpiredPrefix(q)
           rest == [s EXCEPT !.access_queue = SubSeq(q, k + 2, Len(q))]
<1>1. s \in DeviceSharingState
  BY DEF SharingInv
<1>2. Same(s, [s EXCEPT !.access_queue = <<>>])
  BY <1>1 DEF DeviceSharingState, Same
<1>3. Same(s, rest)
  BY <1>1 DEF DeviceSharingState, Same
<1>4. ASSUME NEW h
      PROVE  Same(s, Grant(rest, h))
  BY <1>1 DEF Grant, DeviceSharingState, Same
<1>5. Same(s, s)
  BY DEF Same
<1> HIDE DEF rest, k
<1> QED
  BY <1>2, <1>3, <1>4, <1>5 DEF ProcessQueue, rest, k

LEMMA ProcessAllSame ==
  ASSUME NEW s, SharingInv(s)
  PROVE  Same(s, ProcessAll(s))
<1>1. s \in DeviceSharingState
  BY DEF SharingInv
<1>2. CheckLockTimeout(s) \in Handle \cup {NoHandle}
  BY <1>1 DEF CheckLockTimeout, DeviceSharingState, MaybeHandle
<1>3. CASE CheckLockTimeout(s) = NoHandle
  BY <1>3, ProcessQueueSame DEF ProcessAll
<1>4. CASE CheckLockTimeout(s) # NoHandle
  <2> DEFINE t == ReleaseLock(s, CheckLockTimeout(s))
  <2>1. SharingInv(t) /\ Same(s, t)
    BY <1>1, <1>2, <1>4, ReleaseLockInv, ReleaseLockSame
  <2>2. ProcessAll(s) = ProcessQueue(t)
    BY <1>4 DEF ProcessAll
  <2> HIDE DEF t
  <2> QED
    BY <2>1, <2>2, ProcessQueueSame DEF Same
<1> QED
  BY <1>3, <1>4

LEMMA AgeSame ==
  ASSUME NEW s \in DeviceSharingState
  PROVE  Same(s, Age(s))
BY DEF Age, DeviceSharingState, Same

-----------------------------------------------------------------------------
(* The steps *)

\* A call that is passed on to the records and leaves their clients as they are.
LEMMA RecordsMove ==
  ASSUME ManagerInv,
         UNCHANGED <<devices, device_ids, attached, open, used_ids, used_handles>>,
         tracker' \in [DeviceId -> DeviceSharingState \cup {Unregistered}],
         \A d \in DeviceId :
           \/ tracker'[d] = tracker[d]
           \/ Registered(d) /\ SharingInv(tracker'[d]) /\ Same(tracker[d], tracker'[d])
  PROVE  ManagerInv'
<1>1. \A d \in DeviceId : HandlesOf(d)' = HandlesOf(d) /\ Registered(d)' = Registered(d)
  BY DEF HandlesOf, IsAttached, Registered
<1>2. ManagerTypeOK'
  BY DEF ManagerInv, ManagerTypeOK
<1>3. \A d \in DeviceId : tracker'[d] # Unregistered <=> tracker[d] # Unregistered
  BY ManagerAssumption DEF ManagerInv, Maps, SharingInv
<1>4. Maps'
  BY <1>1, <1>3 DEF ManagerInv, Maps
<1>5. Records'
  BY <1>1 DEF ManagerInv, Records, Same
<1>6. AttachmentsConsistent'
  BY <1>1, <1>3 DEF ManagerInv, AttachmentsConsistent, Same
<1>7. OpenWhileAttached'
  BY <1>1 DEF ManagerInv, OpenWhileAttached
<1>8. Used'
  BY <1>1 DEF ManagerInv, Used, IsAttached
<1> QED
  BY <1>2, <1>4, <1>5, <1>6, <1>7, <1>8 DEF ManagerInv

LEMMA OneRecordMoves ==
  ASSUME ManagerInv, NEW d \in DeviceId, Registered(d),
         UNCHANGED <<devices, device_ids, attached, open, used_ids, used_handles>>,
         NEW s, SharingInv(s), Same(tracker[d], s),
         tracker' = [tracker EXCEPT ![d] = s]
  PROVE  ManagerInv'
<1>1. tracker' \in [DeviceId -> DeviceSharingState \cup {Unregistered}]
  BY DEF ManagerInv, ManagerTypeOK, SharingInv
<1>2. tracker'[d] = s /\ \A x \in DeviceId \ {d} : tracker'[x] = tracker[x]
  BY DEF ManagerInv, ManagerTypeOK
<1> QED
  BY <1>1, <1>2, RecordsMove

LEMMA AddDeviceInv ==
  ASSUME ManagerInv, NEW p \in Port, NEW d \in DeviceId, AddDevice(p, d)
  PROVE  ManagerInv'
<1>1. ~Registered(d) /\ tracker[d] = Unregistered
  BY DEF AddDevice, ManagerInv, Used, Maps
<1>2. SharingInv(New(DefaultMode)) /\ New(DefaultMode).attached = {} /\ New(DefaultMode).mode = DefaultMode
  BY NewInv, ManagerAssumption DEF New
<1>3. /\ devices' = [devices EXCEPT ![p] = d] /\ device_ids' = [device_ids EXCEPT ![d] = p]
      /\ tracker' = [tracker EXCEPT ![d] = New(DefaultMode)] /\ used_ids' = used_ids \cup {d}
      /\ devices[p] = NoDevice /\ UNCHANGED <<attached, open, used_handles>>
  BY DEF AddDevice
<1>4. New(DefaultMode) \in DeviceSharingState /\ New(DefaultMode) # Unregistered
  BY <1>2, ManagerAssumption DEF SharingInv
<1> DEFINE new == New(DefaultMode)
<1> HIDE DEF new
<1>5. ManagerTypeOK'
  BY <1>3, <1>4 DEF ManagerInv, ManagerTypeOK
<1>6. /\ Registered(d)' /\ tracker'[d] = New(DefaultMode)
      /\ \A x \in DeviceId \ {d} : Registered(x)' = Registered(x) /\ tracker'[x] = tracker[x]
  BY <1>3, ManagerAssumption DEF ManagerInv, ManagerTypeOK, Registered
<1>7. \A x \in DeviceId : HandlesOf(x)' = HandlesOf(x)
  BY <1>3 DEF HandlesOf, IsAttached
<1>8. Maps'
  <2>1. \A q \in Port, x \in DeviceId : devices'[q] = x <=> device_ids'[x] = q
    BY <1>1, <1>3, ManagerAssumption DEF ManagerInv, ManagerTypeOK, Maps, Registered
  <2>2. \A x \in DeviceId : tracker'[x] # Unregistered <=> Registered(x)'
    BY <1>4, <1>6 DEF ManagerInv, Maps
  <2> QED
    BY <2>1, <2>2 DEF Maps
<1>9. Records'
  BY <1>2, <1>6 DEF ManagerInv, Records
<1>10. AttachmentsConsistent'
  BY <1>1, <1>2, <1>4, <1>6, <1>7 DEF ManagerInv, AttachmentsConsistent
<1>11. OpenWhileAttached'
  BY <1>3, <1>7 DEF ManagerInv, OpenWhileAttached
<1>12. Used'
  BY <1>3, <1>6 DEF ManagerInv, Used, IsAttached
<1> QED
  BY <1>5, <1>8, <1>9, <1>10, <1>11, <1>12 DEF ManagerInv

LEMMA RemoveDeviceInv ==
  ASSUME ManagerInv, NEW p \in Port, RemoveDevice(p)
  PROVE  ManagerInv'
<1>0. PICK d \in DeviceId : d = devices[p]
  BY DEF RemoveDevice, ManagerInv, ManagerTypeOK
<1>1. device_ids[d] = p /\ Registered(d)
  BY <1>0, ManagerAssumption DEF ManagerInv, Maps, Registered
<1>2. /\ devices' = [devices EXCEPT ![p] = NoDevice] /\ device_ids' = [device_ids EXCEPT ![d] = NoPort]
      /\ attached' = [h \in Handle |-> IF h \in HandlesOf(d) THEN NoAttachment ELSE attached[h]]
      /\ tracker' = [tracker EXCEPT ![d] = Unregistered] /\ open' = open \ {d}
      /\ UNCHANGED <<used_ids, used_handles>>
  BY <1>0 DEF RemoveDevice
<1>3. ManagerTypeOK'
  BY <1>1, <1>2 DEF ManagerInv, ManagerTypeOK
<1>4. /\ ~Registered(d)' /\ tracker'[d] = Unregistered
      /\ \A x \in DeviceId \ {d} : Registered(x)' = Registered(x) /\ tracker'[x] = tracker[x]
  BY <1>1, <1>2, ManagerAssumption DEF ManagerInv, ManagerTypeOK, Registered
<1>5. HandlesOf(d)' = {} /\ \A x \in DeviceId \ {d} : HandlesOf(x)' = HandlesOf(x)
  BY <1>1, <1>2 DEF HandlesOf, IsAttached
<1>6. Maps'
  <2>1. \A q \in Port, x \in DeviceId : devices'[q] = x <=> device_ids'[x] = q
    <3>1. /\ devices'[p] = NoDevice /\ device_ids'[d] = NoPort
          /\ \A q \in Port \ {p} : devices'[q] = devices[q]
          /\ \A x \in DeviceId \ {d} : device_ids'[x] = device_ids[x]
      BY <1>1, <1>2 DEF ManagerInv, ManagerTypeOK
    <3>2. \A q \in Port, x \in DeviceId : devices[q] = x <=> device_ids[x] = q
      BY DEF ManagerInv, Maps
    <3> QED
      BY <1>0, <1>1, <3>1, <3>2, ManagerAssumption
  <2>2. \A x \in DeviceId : tracker'[x] # Unregistered <=> Registered(x)'
    BY <1>4 DEF ManagerInv, Maps
  <2> QED
    BY <2>1, <2>2 DEF Maps
<1>7. Records'
  BY <1>4 DEF ManagerInv, Records
<1>8. AttachmentsConsistent'
  BY <1>4, <1>5 DEF ManagerInv, AttachmentsConsistent
<1>9. OpenWhileAttached'
  BY <1>2, <1>5 DEF ManagerInv, OpenWhileAttached
<1>10. Used'
  BY <1>2, <1>4 DEF ManagerInv, Used, IsAttached
<1> QED
  BY <1>3, <1>6, <1>7, <1>8, <1>9, <1>10 DEF ManagerInv

\* The new client's handle is known nowhere before.
LEMMA AttachDeviceInv ==
  ASSUME ManagerInv, NEW d \in DeviceId, NEW c \in Client, NEW h \in Handle,
         AttachDevice(d, c, h)
  PROVE  ManagerInv'
<1> DEFINE s == tracker[d]
           t == AttachClient(s, h)
           a == [device |-> d, client |-> c]
<1>1. Registered(d) /\ CanAttach(s) /\ h \notin used_handles
  BY DEF AttachDevice, MayAttach
<1>2. SharingInv(s) /\ s.mode = DefaultMode /\ s # Unregistered
  BY <1>1 DEF ManagerInv, Records, Maps
<1>3. ~IsAttached(h)
  BY <1>1 DEF ManagerInv, Used
<1>4. HandlesOf(d) = s.attached /\ h \notin s.attached
  BY <1>2, <1>3 DEF ManagerInv, AttachmentsConsistent, HandlesOf
<1>5. SharingInv(t)
  BY <1>1, <1>2, <1>4, AttachClientInv
<1>6. t.attached = s.attached \cup {h} /\ t.mode = s.mode
  BY <1>2 DEF AttachClient, SharingInv, DeviceSharingState
<1>7. t \in DeviceSharingState /\ t # Unregistered
  BY <1>5, ManagerAssumption DEF SharingInv
<1>8. a \in Attachment /\ a # NoAttachment /\ a.device = d
  BY ManagerAssumption DEF Attachment
<1>9. /\ open' = open \cup {d} /\ used_handles' = used_handles \cup {h}
      /\ tracker' = [tracker EXCEPT ![d] = t] /\ attached' = [attached EXCEPT ![h] = a]
      /\ UNCHANGED <<devices, device_ids, used_ids>>
  BY DEF AttachDevice, OpenDevice
<1>10. PICK u, b : u = t /\ b = a
  OBVIOUS
<1> HIDE DEF t, a
<1>11. /\ open' = open \cup {d} /\ used_handles' = used_handles \cup {h}
       /\ tracker' = [tracker EXCEPT ![d] = u] /\ attached' = [attached EXCEPT ![h] = b]
       /\ UNCHANGED <<devices, device_ids, used_ids>>
       /\ u \in DeviceSharingState /\ u # Unregistered
       /\ b \in Attachment /\ b # NoAttachment /\ b.device = d
       /\ u.attached = HandlesOf(d) \cup {h} /\ u.mode = DefaultMode /\ SharingInv(u)
  BY <1>2, <1>4, <1>5, <1>6, <1>7, <1>8, <1>9, <1>10
<1>12. ManagerTypeOK'
  BY <1>11 DEF ManagerInv, ManagerTypeOK
<1>13. /\ tracker'[d] = u /\ \A x \in DeviceId \ {d} : tracker'[x] = tracker[x]
       /\ attached'[h] = b /\ \A g \in Handle \ {h} : attached'[g] = attached[g]
  BY <1>11 DEF ManagerInv, ManagerTypeOK
<1>14. \A x \in DeviceId : Registered(x)' = Registered(x)
  BY <1>11 DEF Registered
<1>15. HandlesOf(d)' = HandlesOf(d) \cup {h} /\ \A x \in DeviceId \ {d} : HandlesOf(x)' = HandlesOf(x)
  BY <1>3, <1>11, <1>13 DEF HandlesOf, IsAttached
<1>16. Maps'
  BY <1>1, <1>11, <1>13, <1>14 DEF ManagerInv, Maps
<1>17. Records'
  BY <1>11, <1>13, <1>14 DEF ManagerInv, Records
<1>18. AttachmentsConsistent'
  BY <1>11, <1>13, <1>15 DEF ManagerInv, AttachmentsConsistent
<1>19. OpenWhileAttached'
  BY <1>11, <1>15 DEF ManagerInv, OpenWhileAttached
<1>20. Used'
  BY <1>11, <1>13, <1>14 DEF ManagerInv, Used, IsAttached
<1> QED
  BY <1>12, <1>16, <1>17, <1>18, <1>19, <1>20 DEF ManagerInv

LEMMA DetachDeviceInv ==
  ASSUME ManagerInv, NEW h \in Handle, DetachDevice(h)
  PROVE  ManagerInv'
<1>1. PICK d \in DeviceId : d = attached[h].device
  BY DEF DetachDevice, IsAttached, ManagerInv, ManagerTypeOK, Attachment
<1>2. h \in HandlesOf(d)
  BY <1>1 DEF DetachDevice, HandlesOf
<1>3. tracker[d] # Unregistered /\ HandlesOf(d) = tracker[d].attached
  BY <1>2 DEF ManagerInv, AttachmentsConsistent
<1>4. SharingInv(tracker[d]) /\ tracker[d].mode = DefaultMode /\ tracker[d] \in DeviceSharingState
  BY <1>3 DEF ManagerInv, Maps, Records, SharingInv
<1>5. PICK u : u = DetachClient(tracker[d], h)
  OBVIOUS
<1>6. SharingInv(u)
  BY <1>4, <1>5, DetachClientInv
<1>7. u.attached = HandlesOf(d) \ {h} /\ u.mode = DefaultMode
  BY <1>2, <1>3, <1>4, <1>5 DEF DetachClient, DeviceSharingState
<1>8. u \in DeviceSharingState /\ u # Unregistered
  BY <1>6, ManagerAssumption DEF SharingInv
<1>9. /\ open' = IF HandlesOf(d) = {h} THEN open \ {d} ELSE open
      /\ tracker' = [tracker EXCEPT ![d] = u] /\ attached' = [attached EXCEPT ![h] = NoAttachment]
      /\ UNCHANGED <<devices, device_ids, used_ids, used_handles>>
  BY <1>1, <1>5 DEF DetachDevice, CloseDevice
<1>10. ManagerTypeOK'
  BY <1>8, <1>9 DEF ManagerInv, ManagerTypeOK
<1>11. /\ tracker'[d] = u /\ \A x \in DeviceId \ {d} : tracker'[x] = tracker[x]
       /\ attached'[h] = NoAttachment /\ \A g \in Handle \ {h} : attached'[g] = attached[g]
  BY <1>9 DEF ManagerInv, ManagerTypeOK
<1>12. \A x \in DeviceId : Registered(x)' = Registered(x)
  BY <1>9 DEF Registered
<1>13. HandlesOf(d)' = HandlesOf(d) \ {h} /\ \A x \in DeviceId \ {d} : HandlesOf(x)' = HandlesOf(x)
  BY <1>1, <1>11 DEF HandlesOf, IsAttached
<1>14. Maps'
  BY <1>3, <1>8, <1>9, <1>11, <1>12 DEF ManagerInv, Maps
<1>15. Records'
  BY <1>6, <1>7, <1>11, <1>12 DEF ManagerInv, Records
<1>16. AttachmentsConsistent'
  BY <1>7, <1>8, <1>11, <1>13 DEF ManagerInv, AttachmentsConsistent
<1>17. OpenWhileAttached'
  BY <1>2, <1>9, <1>13 DEF ManagerInv, OpenWhileAttached
<1>18. Used'
  BY <1>9, <1>11, <1>12 DEF ManagerInv, Used, IsAttached
<1> QED
  BY <1>10, <1>14, <1>15, <1>16, <1>17, <1>18 DEF ManagerInv

\* Every call of the manager keeps the invariant.
LEMMA ManagerStep ==
  ASSUME ManagerInv, [ManagerNext]_managerVars
  PROVE  ManagerInv'
<1>r. \A d \in DeviceId : Registered(d) => SharingInv(tracker[d]) /\ tracker[d] \in DeviceSharingState
  BY DEF ManagerInv, Records, SharingInv
<1>h. \A h \in Handle : IsAttached(h) =>
        attached[h].device \in DeviceId /\ Registered(attached[h].device)
  <2> SUFFICES ASSUME NEW h \in Handle, IsAttached(h)
               PROVE  attached[h].device \in DeviceId /\ Registered(attached[h].device)
    OBVIOUS
  <2>1. attached[h].device \in DeviceId
    BY DEF IsAttached, ManagerInv, ManagerTypeOK, Attachment
  <2>2. h \in HandlesOf(attached[h].device)
    BY DEF HandlesOf
  <2> QED
    BY <2>1, <2>2 DEF ManagerInv, AttachmentsConsistent, Maps
<1>1. ASSUME NEW p \in Port, NEW d \in DeviceId, AddDevice(p, d)
      PROVE  ManagerInv'
  BY <1>1, AddDeviceInv
<1>2. ASSUME NEW p \in Port, RemoveDevice(p)
      PROVE  ManagerInv'
  BY <1>2, RemoveDeviceInv
<1>3. ASSUME NEW d \in DeviceId, NEW c \in Client, NEW h \in Handle, AttachDevice(d, c, h)
      PROVE  ManagerInv'
  BY <1>3, AttachDeviceInv
<1>4. ASSUME NEW h \in Handle, DetachDevice(h)
      PROVE  ManagerInv'
  BY <1>4, DetachDeviceInv
<1>5. ASSUME NEW h \in Handle, UnlockDevice(h)
      PROVE  ManagerInv'
  <2>1. PICK d \in DeviceId : d = attached[h].device /\ Registered(d)
    BY <1>5, <1>h DEF UnlockDevice
  <2>2. SharingInv(ReleaseLock(tracker[d], h)) /\ Same(tracker[d], ReleaseLock(tracker[d], h))
    BY <2>1, <1>r, ReleaseLockInv, ReleaseLockSame
  <2>3. tracker' = [tracker EXCEPT ![d] = ReleaseLock(tracker[d], h)]
    BY <1>5, <2>1 DEF UnlockDevice
  <2> QED
    BY <1>5, <2>1, <2>2, <2>3, OneRecordMoves DEF UnlockDevice
<1>6. ASSUME NEW h \in Handle, NEW w \in BOOLEAN, LockDevice(h, w)
      PROVE  ManagerInv'
  <2>1. PICK d \in DeviceId : d = attached[h].device /\ Registered(d)
    BY <1>6, <1>h DEF LockDevice
  <2>2. SharingInv(AcquireLock(tracker[d], h, w)) /\ Same(tracker[d], AcquireLock(tracker[d], h, w))
    BY <2>1, <1>r, AcquireLockInv, AcquireLockSame
  <2>3. tracker' = [tracker EXCEPT ![d] = AcquireLock(tracker[d], h, w)]
    BY <1>6, <2>1 DEF LockDevice
  <2> QED
    BY <1>6, <2>1, <2>2, <2>3, OneRecordMoves DEF LockDevice
<1>7. ASSUME NEW d \in DeviceId, ServeDevice(d)
      PROVE  ManagerInv'
  <2>1. Registered(d) /\ tracker' = [tracker EXCEPT ![d] = ProcessQueue(tracker[d])]
    BY <1>7 DEF ServeDevice
  <2>2. SharingInv(ProcessQueue(tracker[d])) /\ Same(tracker[d], ProcessQueue(tracker[d]))
    BY <2>1, <1>r, ProcessQueueInv, ProcessQueueSame
  <2> QED
    BY <1>7, <2>1, <2>2, OneRecordMoves DEF ServeDevice
<1>8. CASE ServeAllDevices
  <2>1. \A d \in DeviceId : Registered(d) =>
          SharingInv(ProcessAll(tracker[d])) /\ Same(tracker[d], ProcessAll(tracker[d]))
    BY <1>r, ProcessAllInv, ProcessAllSame
  <2>2. \A d \in DeviceId : tracker[d] # Unregistered <=> Registered(d)
    BY DEF ManagerInv, Maps
  <2>3. tracker' = [d \in DeviceId |-> IF tracker[d] = Unregistered THEN Unregistered
                                       ELSE ProcessAll(tracker[d])]
    BY <1>8 DEF ServeAllDevices
  <2>4. \A d \in DeviceId :
          \/ tracker'[d] = tracker[d]
          \/ Registered(d) /\ SharingInv(tracker'[d]) /\ Same(tracker[d], tracker'[d])
    BY <2>1, <2>2, <2>3
  <2>5. tracker' \in [DeviceId -> DeviceSharingState \cup {Unregistered}]
    BY <2>1, <2>2, <2>3 DEF SharingInv
  <2> QED
    BY <1>8, <2>4, <2>5, RecordsMove DEF ServeAllDevices
<1>9. CASE TimePasses
  <2>1. \A d \in DeviceId : Registered(d) =>
          SharingInv(Age(tracker[d])) /\ Same(tracker[d], Age(tracker[d]))
    BY <1>r, AgeInv, AgeSame
  <2>2. \A d \in DeviceId : tracker[d] # Unregistered <=> Registered(d)
    BY DEF ManagerInv, Maps
  <2>3. tracker' = [d \in DeviceId |-> IF tracker[d] = Unregistered THEN Unregistered
                                       ELSE Age(tracker[d])]
    BY <1>9 DEF TimePasses
  <2>4. \A d \in DeviceId :
          \/ tracker'[d] = tracker[d]
          \/ Registered(d) /\ SharingInv(tracker'[d]) /\ Same(tracker[d], tracker'[d])
    BY <2>1, <2>2, <2>3
  <2>5. tracker' \in [DeviceId -> DeviceSharingState \cup {Unregistered}]
    BY <2>1, <2>2, <2>3 DEF SharingInv
  <2> QED
    BY <1>9, <2>4, <2>5, RecordsMove DEF TimePasses
<1>10. CASE UNCHANGED managerVars
  <2>1. tracker' \in [DeviceId -> DeviceSharingState \cup {Unregistered}]
    BY <1>10 DEF managerVars, ManagerInv, ManagerTypeOK
  <2> QED
    BY <1>10, <2>1, RecordsMove DEF managerVars
<1> QED
  BY <1>1, <1>2, <1>3, <1>4, <1>5, <1>6, <1>7, <1>8, <1>9, <1>10 DEF ManagerNext

-----------------------------------------------------------------------------
(* The theorems *)

LEMMA ManagerInitially ==
  ASSUME ManagerInit
  PROVE  ManagerInv
<1>1. /\ \A d \in DeviceId : ~Registered(d) /\ HandlesOf(d) = {} /\ tracker[d] = Unregistered
      /\ \A h \in Handle : ~IsAttached(h)
  BY DEF ManagerInit, Registered, HandlesOf, IsAttached
<1>2. ManagerTypeOK
  BY DEF ManagerInit, ManagerTypeOK
<1>3. Maps
  BY <1>1, ManagerAssumption DEF ManagerInit, Maps, Registered
<1> QED
  BY <1>1, <1>2, <1>3
  DEF ManagerInit, ManagerInv, Records, AttachmentsConsistent, OpenWhileAttached, Used

\* The manager's four views of its devices agree after any sequence of calls.
THEOREM ManagerConsistent == ManagerSpec => []ManagerInv
<1>1. ManagerInit => ManagerInv
  BY ManagerInitially
<1>2. ManagerInv /\ [ManagerNext]_managerVars => ManagerInv'
  BY ManagerStep
<1> QED
  BY <1>1, <1>2, PTL DEF ManagerSpec

\* The maps always hold values of their declared types.
THEOREM ManagerTypes == ManagerSpec => []ManagerTypeOK
<1>1. ManagerInv => ManagerTypeOK
  BY DEF ManagerInv
<1> QED
  BY <1>1, ManagerConsistent, PTL

\* Every tracked device is registered, at one port, with a consistent record.
THEOREM RegistrySafety == ManagerSpec => []RegistryConsistent
<1>1. ManagerInv => RegistryConsistent
  BY DEF ManagerInv, Maps, Records, SharingInv, RegistryConsistent
<1> QED
  BY <1>1, ManagerConsistent, PTL

\* The manager and the tracker agree on who is attached to what.
THEOREM AttachmentSafety == ManagerSpec => []AttachmentsConsistent
<1>1. ManagerInv => AttachmentsConsistent
  BY DEF ManagerInv
<1> QED
  BY <1>1, ManagerConsistent, PTL

\* No device stays open without a client, and none is closed under one.
THEOREM OpenSafety == ManagerSpec => []OpenWhileAttached
<1>1. ManagerInv => OpenWhileAttached
  BY DEF ManagerInv
<1> QED
  BY <1>1, ManagerConsistent, PTL

\* A record in Exclusive mode has room for one handle.
LEMMA InvExclusive ==
  ASSUME ManagerInv
  PROVE  ExclusiveUse
<1> SUFFICES ASSUME DefaultMode = "Exclusive",
                    NEW g \in Handle, NEW h \in Handle, IsAttached(g), IsAttached(h),
                    attached[g].device = attached[h].device
             PROVE  g = h
  BY DEF ExclusiveUse
<1>1. PICK d \in DeviceId : d = attached[g].device
  BY DEF IsAttached, ManagerInv, ManagerTypeOK, Attachment
<1>2. g \in HandlesOf(d) /\ h \in HandlesOf(d)
  BY <1>1 DEF HandlesOf
<1>3. tracker[d] # Unregistered /\ g \in tracker[d].attached /\ h \in tracker[d].attached
  BY <1>2 DEF ManagerInv, AttachmentsConsistent
<1>4. WithinCapacity(tracker[d]) /\ tracker[d].mode = "Exclusive"
  BY <1>3 DEF ManagerInv, Maps, Records, SharingInv
<1> QED
  BY <1>3, <1>4 DEF WithinCapacity

\* In Exclusive mode no device ever has two clients.
THEOREM Exclusivity == ManagerSpec => []ExclusiveUse
<1>1. ManagerInv => ExclusiveUse
  BY InvExclusive
<1> QED
  BY <1>1, ManagerConsistent, PTL

===============================================================================
