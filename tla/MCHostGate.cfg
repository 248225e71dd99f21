SPECIFICATION FairSpec
CONSTANTS
  rm = rm
  mv = mv
  curl = curl
  sh = sh
  kill = kill
  bin = bin
  none = none
  Caller = {f1, f2}
  Wired = {f1}
  Cmd <- const_Cmd
  Kill = {kill}
  AwakeDenied = {rm}
  NoSandbox = {sh}
  Inner <- const_Inner
  Covers <- const_Covers
  Binary = {bin}
  BinaryOf <- const_BinaryOf
  NoBinary = none
  InitPolicy <- const_InitPolicy
  Policies <- const_Policies
  MaxPatterns = 1
  QueueSize = 1
  Workers = 1
  MaxCalls = 2
  MaxAnswers = 2
  MaxEvents = 1
INVARIANTS DangerAsked BlacklistHolds RememberSticks UnaskedIsKnown
PROPERTIES CancelEndsCall
CHECK_DEADLOCK FALSE
