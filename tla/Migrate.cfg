SPECIFICATION Spec
CHECK_DEADLOCK FALSE
CONSTANTS
    new = new
    other = other
    old = old
    Nobody = Nobody
    Procs = {new, other, old}
    Known <- Builds
    Latest = 3
    Statements = 2
    MaxFaults = 2
INVARIANTS
    TypeOK
    WholeMigrations
    ServesMigrated
PROPERTIES
    EventuallyServes
