SPECIFICATION Spec
CONSTANTS
    BackupCodes = {b1}
    Tokens = {tok1}
    NoToken = NoToken
    NoCode = NoCode
    Requests = {r1, r2, r3}
    Skew = 1
    MaxStep = 2
    MaxCrashes = 1
INVARIANTS FactorSpentOnce AcceptedIsDurable
PROPERTIES NoLostUpdate LockIsServed
CHECK_DEADLOCK FALSE
