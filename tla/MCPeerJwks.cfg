SPECIFICATION Spec
CONSTANTS
    east = east
    west = west
    third = third
    table = table
    NoSite = NoSite
    Sites = {east, west, third}
    PeersOf <- Mesh
    Caches = {table}
    CacheOf <- OneTable
    Remote = {table}
    Requests = {r1, r2}
    Followed = {east, west}
    Offset <- SameClocks
    Drift = 0
    CacheTtl = 1
    StaleTtl = 2
    RetryAfter = 1
    MaxVersion = 2
    MaxTime = 3
SYMMETRY Alike
INVARIANTS KeysWithinGrace DirectTrust LateAnswerBounded NobodyStranded
PROPERTIES OutageSurvived
