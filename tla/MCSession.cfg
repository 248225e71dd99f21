CONSTANTS
  Proc = {p1, p2}
  Loads <- AnyLoad
  MaxObj = 3
  MaxRun = 2
  MaxRestarts = 1
SPECIFICATION Spec
SYMMETRY ProcSymmetry
INVARIANTS OneRun HandedOver Durable RemovedIsCancelled
PROPERTIES RehydratedComplete
CHECK_DEADLOCK FALSE
