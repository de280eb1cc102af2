SPECIFICATION Spec
CONSTANTS
    Channels = {c1, c2}
    Pins = {p1, p2}
    RpIds = {r1}
    Permissions = {ga, cm}
    GET_ASSERTION = ga
    PIN_RETRIES = 3
    LoadMayFail = TRUE
    None = None
SYMMETRY Symm
INVARIANTS TypeOK GuessBound RestartKeepsPin PinTokenNeedsPin
PROPERTIES BlockedUntilReset SetPinOnlyWhenUnset
