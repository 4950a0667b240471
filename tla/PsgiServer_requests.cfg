SPECIFICATION FairSpec
CONSTANTS
  N = 2
  Requests = {r1, r2, r3}
  NoRequest = none
  NoWorker = none
  Endless = {r1}
CHECK_DEADLOCK FALSE
INVARIANTS TypeOK OneRequestPerWorker 
PROPERTIES ImplementsPool RequestsEnd
