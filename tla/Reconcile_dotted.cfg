SPECIFICATION Spec
CONSTANTS
    Providers = {1}
    Zones = {1}
    Kind <- KindOf
    Configured <- BothKinds
    Desires <- Dotted
    Foreign = {}
    MaxEdits = 0
INVARIANTS
    FurtherRunsAreNoOps
