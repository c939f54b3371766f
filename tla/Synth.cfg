SPECIFICATION Spec
CONSTANTS
    Handlers = {h1, h2}
    Labels = {"web", "db"}
    Addrs = {"a1", "a2"}
    Family <- V4
    Zones = {1, 2}
    Covers <- ReverseOnly
    Subnets = {1, 2}
    Contains <- Nested
    ManualKeys <- ByHand
    Seed <- OneHost
    Tools = TRUE
    MaxEdits = 2
INVARIANTS
    TypeOK
    RunsAreExact
SYMMETRY Symmetric
