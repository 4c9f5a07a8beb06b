SPECIFICATION Spec
CONSTANTS
  MaxFaults = 2
  Host = {s1}
  Caller = {k1, k2}
  Monitor = Monitor
  NoHost = NoHost
  AllowedHosts = {}
  MaxAttempts = 2
  Configured <- MCConfigured
  Typed = {a1}
  Gear = {d1}
  MaxHandle = 1
  MaxJobs = 2
  MaxNotices = 1
INVARIANTS
  StateIsConsistent
PROPERTIES
  LinkComesBack
  TargetsAreServed
  CloseIsFinal
  AttachingEnds
CHECK_DEADLOCK FALSE
