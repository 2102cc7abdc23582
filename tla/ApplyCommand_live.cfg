\* A run that has exited takes no step.
CHECK_DEADLOCK FALSE
CONSTANTS
  Runs = {r1, r2}
  NoRun = NoRun
  Objects <- MCObjects
  Values <- MCValues
  Catalogs <- LiveCatalogs
  Consents <- LiveConsents
  CrossChecks = FALSE
  NoPlan = NoPlan
  NoCatalog = NoCatalog
  MaxEdits = 1
  Servers <- LiveServers
SPECIFICATION FairSpec
PROPERTIES LeaseIsReturned ConfirmedEnds
