SPECIFICATION SessionSpec
CONSTANTS
  Day = 3
  AnyId = AnyId
  Anyone = Anyone
  Peer = {c1}
  Session = {h1}
  NoPeer = NoPeer
  NoSession = NoSession
  NoThing = NoThing
  vid1 = vid1
  pid1 = pid1
  keyboard = keyboard
  Thing <- MCThing
  Policies <- MCPolicies
  MinuteTicks = 1
  TimerPeriod = 1
  IdleLimit = 1
  MaxNow = 3
PROPERTY
  ExpiredIsDetached
CHECK_DEADLOCK FALSE
