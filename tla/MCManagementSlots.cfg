SPECIFICATION Spec
CONSTANTS
    Clients = {c1}
    Ids = {i1}
    Passphrases = {p1, p2}
    Targets = {}
    MAX_SALTS = 1
    Faults = FALSE
    None = None
SYMMETRY Symm
INVARIANTS SlotsFollowDaemon
