SPECIFICATION PoolSpec
CONSTANTS
  Host = {s1}
  Caller = {k1, k2}
  Monitor = Monitor
  NoHost = NoHost
  AllowedHosts = {}
  MaxAttempts = 2
INVARIANT
  StaysDisconnected
CHECK_DEADLOCK FALSE
