CONSTANTS
  Firing = {f1, f2, f3}
  FailureThreshold = 2
  OpenDuration = 1
  MaxAttempts = 2
  MaxTime = 4
  MaxFailures = 4
SPECIFICATION Spec
PROPERTIES QuietPeriod
