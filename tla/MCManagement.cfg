SPECIFICATION FairSpec
CONSTANTS
    Clients = {c1, c2}
    Ids = {i1}
    Passphrases = {p1}
    Targets = {{i1}}
    MAX_SALTS = 1
    Faults = TRUE
    None = None
INVARIANTS TypeOK SlotsOpen RepliesMatch
PROPERTIES GoneStaysGone ResultsTrue RequestsAnswered
