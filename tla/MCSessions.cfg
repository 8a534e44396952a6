SPECIFICATION Spec
CONSTANTS
    i1 = i1
    i2 = i2
    own = own
    other = other
    ownName = ownName
    NoCookie = NoCookie
    NoClient = NoClient
    NoInstance = NoInstance
    Shared = Shared
    Sids = {s1, s2}
    Names = {Shared, ownName}
    Clients = {own, other}
    CookieName <- TwoCookies
    InstanceShared = TRUE
    ConfirmMode <- AskAuto
    Requests = {r1, r2}
    Instances = {i1, i2}
    Offset <- ApartClocks
    IdleTtl = 1
    MaxLifetime = 2
    ClockSkew = 1
    ConfirmTtl = 1
    MaxTime = 2
    MaxSealed = 2
    MaxLeaving = 1
    Backends = {"record", "alarm"}
INVARIANTS CapIsFixed ClientSignOutIsNarrow
PROPERTIES SignedOutForGood
SYMMETRY Alike
