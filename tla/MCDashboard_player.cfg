SPECIFICATION Spec
CONSTANTS
  SessionIds = {"s1", "s2", "s3"}
  Identifiers = {"ana"}
  Owner <- MCOwner
  SdkToken <- MCSdkToken
  Urls <- MCUrls
  LIMIT = 2
  MaxPage = 2
  MaxRetry = 1
  MaxTokens = 3
  MaxEvents = 2
  MaxLogins = 1
  MaxActs = 0
INVARIANT ReplayShown
CHECK_DEADLOCK FALSE
