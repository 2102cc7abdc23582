CONSTANTS
    m1 = m1
    m2 = m2
    o1 = o1
    o2 = o2
    Migrations = {m1, m2}
    Owners = {o1, o2}
    NoOwner = NoOwner
    Changes <- MCChanges
    PlansOf <- MCPlansOf
    MaxEpoch = 2
SPECIFICATION Spec
SYMMETRY Alike
INVARIANTS CertificateInv OneTenure
PROPERTY ImplementsModel
CHECK_DEADLOCK FALSE
