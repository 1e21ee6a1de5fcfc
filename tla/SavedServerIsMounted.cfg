SPECIFICATION Spec
CONSTANTS
  Names = {"a", "b"}
  Tools = {"both"}
  Offers <- MCOffers
  Testers = {"t1", "t2"}
  MaxStarts = 2
INVARIANT SavedServerIsMounted
CHECK_DEADLOCK FALSE
