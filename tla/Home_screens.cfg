SPECIFICATION Spec
CONSTANTS
  None = None
  Error = Error
  Lists <- PostLists
  MaxRequests = 2
  MaxRoutes = 3
  City = {"Rome"}
  MaxPages = 4
  Text = {"a", "b"}
  MaxCalls = 4
  Account = {A, B}
  Chain = {1, 2, 3}
  MaxDepth = 8
  MaxDoc = 2
  MaxDeletes = 2
INVARIANTS TypeOK ListIsFresh SettledIsWritten AssertFailsOnlyOvertaken PhotoIsOfUser PhotoIsSignedIn
  SnapshotsSettle
PROPERTIES RequestsStop ComesToRest EveryDocumentIsListed
CHECK_DEADLOCK FALSE
