\* A run that has exited takes no step.
CHECK_DEADLOCK FALSE
CONSTANTS
  Runs = {r1, r2}
  NoRun = NoRun
  Objects <- MCObjects
  Values <- MCValues
  Catalogs <- MCCatalogs
  Consents <- MCConsents
  CrossChecks = TRUE
  NoPlan = NoPlan
  NoCatalog = NoCatalog
  MaxEdits = 1
  Servers <- MCServers
SPECIFICATION Spec
INVARIANTS ApplyInv OkLeavesNothing
PROPERTIES FitsReview ReceiptAttests ConsentedDrops PinHonoured
SYMMETRY RunSymmetry
