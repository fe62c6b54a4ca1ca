SPECIFICATION FairSpec
CONSTANTS
  Calls <- AllCalls
  Faults = {"start", "live", "daemon"}
  MaxCmds = 1
  MaxStale = 0
INVARIANTS
  AnswersAwaited
  StateMatchesChannels
  NoSilentLoss
PROPERTIES
  
  NotifierReturns
CHECK_DEADLOCK FALSE
