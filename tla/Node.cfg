SPECIFICATION FairSpec
CONSTANTS
  Keys = {"us", "other"}
  Docs <- ThreeDocs
  Validators <- MCValidators
  Us = "us"
  Configs <- MCConfigs
  Synced <- OthersToo
  MaxHeight = 3
  MaxExits = 3
INVARIANTS
  OneAtATime
  PanicsOnlyAfterLostCommit
  MempoolFollowsState
PROPERTIES
  StoresNeverGoBack
  TakesPart
CHECK_DEADLOCK FALSE
