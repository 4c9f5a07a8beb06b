SPECIFICATION Spec
CONSTANTS
  Port = {p1}
  DeviceId = {d1,d2}
  Client = {c1,c2}
  Handle = {h1,h2}
  Shareable = {p1}
  NoPort = NoPort
  NoDevice = NoDevice
  NoAttachment = NoAttachment
  Unregistered = Unregistered
  NoHandle = NoHandle
  DefaultMode = "Exclusive"
  MaxClients = 4
  LockTimeout = 1
  CmdCap = 1
  EventCap = 2
  MaxChanges = 2
INVARIANT
  NoStaleHandle
CHECK_DEADLOCK FALSE
