CONSTANTS
    Names <- MCNames
    OutOfScope = {"audit"}
    SchemasGiven = TRUE
    Cases <- MCCases
    MaxApplies = 2
    MaxLosses = 0
    Families = {"tables"}
SPECIFICATION Spec
INVARIANT PartitionsAreLeftAlone
CHECK_DEADLOCK FALSE
