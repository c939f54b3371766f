SPECIFICATION Spec
CONSTANTS
    CIDRs = {1, 2, 3, 4}
    Octets = 2
    Family <- Families
    Network <- Networks
    HostBits <- Free
    Typed <- Entered
    Reservable <- Rows
    SeedSubnets <- OneSubnet
    SeedReserved <- OneRow
    MaxEdits = 2
    MaxRestarts = 1
INVARIANTS
    TypeOK
    InStep
    ShortFormsFit
PROPERTIES
    Follows
