SPECIFICATION Spec
CONSTANTS
    Providers = {1, 2}
    Zones = {1}
    Kind <- SkippedFirst
    Configured <- TechnitiumOnly
    Desires <- Excluding
    Foreign = {}
    MaxEdits = 2
PROPERTIES
    Converges
