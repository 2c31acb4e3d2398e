SPECIFICATION MCSpec
CONSTANTS
    WordBits = 24
    HalfBits = 12
    Handlers = {h1, h2}
    Requests = {r1, r2}
    NoRequest = NoRequest
    Sent <- MCSent
    Bodies <- MCBodies
    NameLabel <- MCName
    MaxStrLen = 30
    MaxArrays = 6
    MaxInflight = 2
SYMMETRY Symmetry
INVARIANTS
    DecodedAsSent
    DataStayAsSent
    WireRoundTrip
