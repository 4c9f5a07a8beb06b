SPECIFICATION CoreSpec
CONSTANTS
  NoHandle = NoHandle
  NoPort = NoPort
  NoDevice = NoDevice
  NoAttachment = NoAttachment
  Unregistered = Unregistered
  DefaultMode = "Exclusive"
  MaxClients = 3
  LockTimeout = 2
  Handle = {h1, h2, h3, h4}
  Given = {h1, h2}
  Port = {p1}
  DeviceId = {d1, d2, d3}
  Client = {c1, c2}
  Shareable = {p1}
  CmdCap = 1
  EventCap = 1
  MaxChanges = 2
  Ports = {p1, p2}
  Handles = {h1, h2, h3}
SYMMETRY Symmetry
INVARIANTS
  SharingTypeOK
  LockIsConsistent
  QueueIsConsistent
  CapacityKept
  SharedManagerIsSound
  TypeOK
  RegistryConsistent
  AttachmentsConsistent
  OpenWhileAttached
  NoOrphanedHandle
  HandlesLeadHome
PROPERTIES
  NeverMovesBack
  ServedInOrder
  ImplementsLease
CHECK_DEADLOCK FALSE
