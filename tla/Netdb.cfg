SPECIFICATION System
CONSTANTS
    Handlers = {h1, h2}
    Labels = {"web"}
    Addrs = {"a1"}
    Family <- V4
    Zones = {1}
    Covers <- ReverseOnly
    Subnets = {1}
    Contains <- Nested
    ManualKeys <- AddressByHand
    Seed <- OneZone
    Tools = TRUE
    MaxEdits = 1
    Faults = TRUE
INVARIANTS
    SystemTypeOK
    NothingForgotten
PROPERTIES
    ProviderFollows
    Converges
