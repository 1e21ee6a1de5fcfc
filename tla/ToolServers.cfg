SPECIFICATION FairSpec
CONSTANTS
  Names = {"a", "b"}
  Tools = {"both"}
  Offers <- MCOffers
  Testers = {"t1", "t2"}
  MaxStarts = 2
INVARIANTS
  TypeOK
  SessionsAreOpen
  LostOnlyByTimeout
  CloseStopsServers
PROPERTIES
  OnlySavedAreMounted
  UiReturns
CHECK_DEADLOCK FALSE
