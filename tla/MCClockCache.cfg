SPECIFICATION Spec
CONSTANTS
    k1 = k1
    k2 = k2
    k3 = k3
    v1 = v1
    v2 = v2
    Keys <- MCKeys
    Values <- MCValues
    Absent = Absent
    NoWriter = NoWriter
    Writers = {w1, w2}
    Readers = {r1, r2}
    MaxCap = 2
    InsertBatches <- MCInsertBatches
    GetBatches <- MCGetBatches
INVARIANTS
    CacheTypeOK
    OneSlotPerKey
    ValuesLineUp
    CallerGetsCanonicalValue
    GivesUpOnlyWhenStarved
PROPERTIES
    ImplementsForgetfulMap
    InsertLockIsReleased
