SPECIFICATION FairSpec
CONSTANTS
  Maps <- MCMaps
  Clients = {c1, c2}
  Tasks = {t1}
  Free = Free
  Requests <- MCRequests
  BusMax = 1
  NaN = NaN
  AuthOn = TRUE
INVARIANTS TypeOK NobodyLost
PROPERTIES AtomicSpec ServedInTurn TaskIsAlone FirstAddedServes EveryoneServed ListNeverWaits
