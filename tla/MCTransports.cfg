SPECIFICATION TransportsSpec
CONSTANTS
  Named = {"tcp", "redis"}
  Unknown = {"grpc"}
CHECK_DEADLOCK FALSE
INVARIANTS
  MessageReachesItsTransport
