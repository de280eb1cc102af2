SPECIFICATION Spec
CONSTANTS
    Channels = {c1, c2}
    Pins = {p1, p2}
    RpIds = {r1}
    Permissions = {ga, cm}
    GET_ASSERTION = ga
    PIN_RETRIES = 3
    LoadMayFail = FALSE
    None = None
SYMMETRY Symm
PROPERTIES RightPinNotRefused
