CONSTANTS
  Nets = {"default", "hitl", "unified", "forge", "manage", "discovery", "awakens", "fanout"}
  MaxRounds = 3
  Probes <- ProbesDef
  Plan <- PlanDef
  Mandatory <- MandatoryDef
  MaxProbes = 5
  MaxTurns = 2
SPECIFICATION Spec
INVARIANTS
  OneSafe
  ProperCompletion
  DeadlockKnown
  QuestionsBounded
PROPERTY RunEnds
