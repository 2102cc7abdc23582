CONSTANTS
    Names <- MCNames
    OutOfScope = {"audit"}
    SchemasGiven = FALSE
    Cases <- MCCases
    MaxApplies = 2
    MaxLosses = 0
    Families = {"columns"}
SPECIFICATION Spec
INVARIANT RediffIsEmpty
CHECK_DEADLOCK FALSE
