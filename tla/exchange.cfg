\* Two sites of any role, three places, two contents, two writes.
SPECIFICATION Spec
CONSTANTS
    a = a
    b = b
    c1 = c1
    c2 = c2
    Site = {a, b}
    Content = {c1, c2}
    Name <- Names
    Extension = {"tmp", "none"}
    Up = ".."
    Fold <- FoldNames
    ExtOf <- ExtOfNames
    Pieces <- PieceNames
    Peer <- PeerOf
    Bases <- BasesOf
    Rules <- RulesOf
    Places <- PlacesOf
    MaxWrites = 2
    Skipping = {a}
    MaxCopies = 1
    MaxFailures = 1
    MaxId = 7
INVARIANTS
    TypeOK
    Mirrored
    ClaimIsKept
PROPERTIES
    ReceivedStays
    ComesToRest
CHECK_DEADLOCK FALSE
