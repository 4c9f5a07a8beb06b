SPECIFICATION BridgeSpec
CONSTANTS
  MaxUrb = 2
  Serialized = {1}
  MaxTries = 2
  MaxUnlinked = 1
PROPERTY
  NoReplyIsLate
CHECK_DEADLOCK FALSE
