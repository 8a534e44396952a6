SPECIFICATION Spec
CONSTANTS
    i1 = i1
    i2 = i2
    a1 = a1
    Codes = {c1}
    LocalCodes = {c1}
    Assertions = {a1}
    NoAssertion = NoAssertion
    AssertionExp <- ShortAssertion
    Requests = {r1, r2}
    Instances = {i1, i2}
    Offset <- ApartClocks
    Backend = "record"
    TicksPerSecond = 2
    CodeTtl = 1
    Grace = 1
    ClockSkew = 1
    MinTtl = 1
    MaxDelay = 2
    MaxTime = 10
INVARIANTS CodeSpentOnce VersionChangeWins
PROPERTIES OnlyEntitledSpend GoodAssertionSpentOnce
