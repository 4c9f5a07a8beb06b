SPECIFICATION Spec
CONSTANTS
  Port = {p1}
  DeviceId = {d1,d2,d3}
  Client = {c1}
  Handle = {h1}
  Shareable = {p1}
  NoPort = NoPort
  NoDevice = NoDevice
  NoAttachment = NoAttachment
  Unregistered = Unregistered
  NoHandle = NoHandle
  DefaultMode = "Exclusive"
  MaxClients = 4
  LockTimeout = 1
  CmdCap = 1
  EventCap = 1
  MaxChanges = 3
PROPERTY
  BlockingEnds
CHECK_DEADLOCK FALSE
