SPECIFICATION Spec
CONSTANTS
    Providers = {1, 2}
    Zones = {1}
    Kind <- KindOf
    Configured <- BothKinds
    Desires <- Renumbering
    Foreign <- Strays
    MaxEdits = 2
INVARIANTS
    TypeOK
    ReportHonest
    TwoRunsSuffice
    FurtherRunsAreNoOps
PROPERTIES
    NoOutage
    UnmanagedKept
