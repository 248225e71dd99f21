CONSTANTS
  Place <- MCPlace
  Transition <- MCTransition
  Rank <- MCRank
  Kind <- MCKind
  InputPlaces <- MCInputPlaces
  OutputPlaces <- MCOutputPlaces
  ErrorPlace <- MCErrorPlace
  NoPlace = NoPlace
  Color <- MCColor
  Space <- MCSpace
  Val <- MCVal
  ErrorVal = "x"
  Guard <- MCGuard
  Outcome <- MCOutcome
  Faulty = {"t_subA", "t_subB"}
  MaxAttempts <- MCMaxAttempts
  RevisionLoop = {}
  MaxRevisions = 0
  ChildOutcome <- MCChildOutcome
  InitialMode = "mas"
  Seeds <- MCSeeds
  HITLCap = 1
  Child = {k1, k2}
  BusCapacity = 1
  MaxEvents = 1
  MaxRuns = 1
  MaxResponses = 0
SPECIFICATION FairSpec
PROPERTIES RunTerminates PlaysTokenGame
CHECK_DEADLOCK FALSE
