SPECIFICATION FairSpec
CONSTANTS
  Requests = {r1, r2}
  Others = {m1}
  Nobody = Nobody
  Objects <- MCObjects
  Values <- MCValues
  Catalogs <- MCCatalogs
  NoPlan = NoPlan
  Servers <- MCServers
  MaxEdits = 1
INVARIANTS ServerInv OneAtATime
PROPERTIES CommitsWhole ConvergedAttests RequestAnswered OnlyExecutable
\* Every request may have been answered.
CHECK_DEADLOCK FALSE
