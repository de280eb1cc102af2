SPECIFICATION Spec
CONSTANTS
    Credentials = {c1}
    Pcrs = {1, 7}
    Measurements = {m1, m2}
    Selections <- TwoSelections
    DEFAULT_PCRS <- Pcr7
    Auths = {h1, h2}
    MAX_OBJECTS = 3
    MAX_SESSIONS = 3
    None = None
SYMMETRY Symm
INVARIANTS TypeOK HandlesOpen 
PROPERTIES HandlesReleased  
