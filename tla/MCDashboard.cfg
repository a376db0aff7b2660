SPECIFICATION FairSpec
CONSTANTS
  SessionIds = {"s1", "s2", "s3"}
  Identifiers = {"ana"}
  Owner <- MCOwner
  SdkToken <- MCSdkToken
  Urls <- MCUrls
  LIMIT = 2
  MaxPage = 2
  MaxRetry = 1
  MaxTokens = 3
  MaxEvents = 2
  MaxLogins = 2
  MaxActs = 2
INVARIANTS TypeOK PlayerIsCurrent ReadYourWrites  CopiedLinkOpens
PROPERTIES TabCatchesUp
CHECK_DEADLOCK FALSE
