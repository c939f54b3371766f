SPECIFICATION Spec
CONSTANTS
    Handlers = {h1, h2}
    MaxVersion = 3
    MaxRestarts = 1
INVARIANTS
    TypeOK
    StatusHonest
PROPERTIES
    MirrorIsSafe
    MirrorCatchesUp
    ShutsDown
