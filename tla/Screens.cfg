SPECIFICATION Spec
CHECK_DEADLOCK FALSE
CONSTANTS
  Catalog <- AllScreens
  States <- RowStates
  MaxPress = 2
  MaxFaults = 2
  Refusable <- KnownRefusable
  Doubling <- None
  Silent <- KnownSilent
  Stale <- KnownStale
  Undoing <- KnownUndoing
  Stuck <- KnownStuck
  Racing <- KnownRacing
INVARIANTS
  OfferedIsTaken
  TwoRowsNeedALostAnswer
  FailureIsSaid
  
  
  LoadingEnds
