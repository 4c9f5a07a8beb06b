INIT Init
NEXT Next
CONSTANTS
  Day = 3
  AnyId = AnyId
  Anyone = Anyone
  Peer = {c1, c2}
  Session = {h1, h2}
  NoPeer = NoPeer
  NoSession = NoSession
  NoThing = NoThing
  Thing <- MCThing
  Policies <- MCPolicies
  MinuteTicks = 2
  TimerPeriod = 1
  IdleLimit = 1
  MaxNow = 4
  keyboard = keyboard
  storage = storage
  vid1 = vid1
  pid1 = pid1
  pid2 = pid2
  Sender = {sender1, sender2}
  Bucket = {device, client1, client2}
  sender1 = sender1
  sender2 = sender2
  device = device
  client1 = client1
  client2 = client2
  Path <- MCPath
  Burst <- MCBurst
  Rate <- MCRate
  Sizes = {1, 2}
  MaxTick = 1
  Gadget = {d1, d2, d3}
  AggWindow = 2
  MaxPending = 3
  MaxReport = 4
  Capacity = 2
  Thread = {u1, u2}
  MaxRequest = 3
  QosHandle = {g1, g2}
  Level = {0, 1, 2}
  Patience = 1
  MaxClock = 3
  Tenant = {t1, t2, t3}
  Quota = 1
  Amount = {1}
  MaxRow = 2
  MaxKey = 1
  EventRoom = 1
  AutoShare = TRUE
  MaxFiles = 3
  SizeLimit = 3
  EntryLimit = 2
  MaxEntries = 6
  MaxMessages = 1
INVARIANT
  ResetsSelected
CHECK_DEADLOCK FALSE
