SPECIFICATION Spec
CONSTANTS
    Keys = {k1, k2}
    Unmanaged = {ns}
    PageSize = 1
    MaxEdits = 3
INVARIANTS
    TypeOK
    ReportHonest
PROPERTIES
    WantedKept
    Converges
