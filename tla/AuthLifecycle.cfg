SPECIFICATION Spec
CONSTANTS
    Tasks = {t1, t2, t3}
    N = 2
    NoSigner = NoSigner
SYMMETRY Symmetry
CHECK_DEADLOCK FALSE
INVARIANTS
    TypeOK
    StartedIsUsable
    NothingOutOfReach
