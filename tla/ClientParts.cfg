SPECIFICATION Spec
CONSTANTS
  PortCount = 2
  Plug = {p1, p2, p3}
  Worker = {w1, w2}
  Remover = {w1, w2}
  Nobody = Nobody
  Others = Others
  NoPlug = NoPlug
  MaxUrb = 2
  Serialized = {1, 2}
  MaxTries = 2
  MaxUnlinked = 1
  Taker = {r1, r2}
  MaxSeq = 3
  MaxSize = 2
  MaxMissing = 2
  MaxStarts = 2
  Unit = {a1, a2}
  Grip = {k1, k2}
  NoUnit = NoUnit
  NoGrip = NoGrip
  Wanted = {a1}
  Plural = {a1}
  FeedCap = 1
SYMMETRY Symmetric
INVARIANTS
  TypeOK
  PortsNotShared
  BridgeIsSound
  ReceiverIsSound
  StaleIsExplained
PROPERTY
  NothingTakenInVain
CHECK_DEADLOCK FALSE
