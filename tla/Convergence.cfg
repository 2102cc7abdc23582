CONSTANTS
    Names <- MCNames
    OutOfScope = {"audit"}
    SchemasGiven = FALSE
    Cases <- MCCases
    MaxApplies = 2
    MaxLosses = 1
    Families = {"columns", "referring", "enums", "tables", "views", "routines", "spaces"}
SPECIFICATION Spec
INVARIANTS EmptyPlanMeansEqual Converges ClampStrandsNothing CompatibleCommute
PROPERTIES GatedKeeps AtomicButLabels OutOfScopeKept
CHECK_DEADLOCK FALSE
