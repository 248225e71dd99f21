CONSTANTS
  Place <- MCPlace
  Transition <- MCTransition
  Rank <- MCRank
  Kind <- MCKind
  InputPlaces <- MCInputPlaces
  OutputPlaces <- MCOutputPlaces
  ErrorPlace <- MCErrorPlace
  NoPlace = NoPlace
  Color <- MCColor
  Space <- MCSpace
  Val <- MCVal
  ErrorVal = "x"
  Guard <- MCGuard
  Outcome <- MCOutcome
  Faulty <- MCFaulty
  MaxAttempts <- MCMaxAttempts
  RevisionLoop = {}
  MaxRevisions = 0
  ChildOutcome <- MCChildOutcome
  InitialMode = "mas"
  Seeds <- MCSeeds
  HITLCap = 1
  Child = {}
  BusCapacity = 0
  MaxEvents = 0
  MaxRuns = 2
  MaxResponses = 0
SPECIFICATION FairSpec
INVARIANTS FailuresRouted FiringExact DeadlockVerdict
PROPERTIES RunTerminates
CHECK_DEADLOCK FALSE
