CONSTANTS
  agent = agent
  ask = ask
  Configs <- MCConfigs
  Name = {"bash", "note", "gone", "other", "calc"}
  Missing = {"gone"}
  HostGated = {"bash"}
  RequiresHITL = {"bash", "note"}
  MaxToolCallIterations = 2
  MaxCalls = 2
  MaxAnswers = 2
SPECIFICATION Spec
INVARIANTS ApprovalsCover CallsAnswered BilledOnce
PROPERTY FiringEnds
