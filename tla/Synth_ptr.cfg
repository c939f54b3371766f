SPECIFICATION Spec
CONSTANTS
    Handlers = {h1}
    Labels = {"web"}
    Addrs = {"a1", "a2"}
    Family <- V4
    Zones = {1, 2}
    Covers <- ReverseOnly
    Subnets = {1}
    Contains <- Nested
    ManualKeys <- ByHand
    Seed <- OneHost
    Tools = TRUE
    MaxEdits = 2
INVARIANT
    PTRsNameHosts
