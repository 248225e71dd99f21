CONSTANTS
  Place <- MCPlace
  Transition <- MCTransition
  Rank <- MCRank
  Kind <- MCKind
  InputPlaces <- MCInputPlaces
  OutputPlaces <- MCOutputPlaces
  ErrorPlace <- MCErrorPlace
  NoPlace = NoPlace
  Color <- MCColor
  Space <- MCSpace
  Val <- MCVal
  ErrorVal = "x"
  Guard <- MCGuard
  Outcome <- MCOutcome
  Faulty = {"t_review"}
  MaxAttempts <- MCMaxAttempts
  RevisionLoop = {"t_review"}
  MaxRevisions = 1
  ChildOutcome <- MCChildOutcome
  InitialMode = "mas"
  Seeds <- MCSeeds
  HITLCap = 1
  Child = {}
  BusCapacity = 0
  MaxEvents = 0
  MaxRuns = 1
  MaxResponses = 3
SPECIFICATION FairSpec
INVARIANTS CoTrigger BlockedIsWaiting
PROPERTIES CancelEndsRun
CHECK_DEADLOCK FALSE
