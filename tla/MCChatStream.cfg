SPECIFICATION FairSpec
CONSTANTS
  t1 = t1
  Tab = {t1}
  ClientBuffer = 3
  StreamBuffer = 2
  MaxActs = 2
  MaxSaid = 2
  MaxChunks = 2
INVARIANTS CardsIntact ShowsWhatWasSaid
PROPERTIES SpinnerStops
CHECK_DEADLOCK FALSE
