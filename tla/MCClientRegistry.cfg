SPECIFICATION Spec
CONSTANTS
    opaque = opaque
    document = document
    steady = steady
    fixed = fixed
    Absent = Absent
    Broken = Broken
    NoKey = NoKey
    Keys = {opaque, document, steady, fixed}
    Static = {fixed}
    StaticClient <- Environment
    Histories <- TheHistories
    Deployments <- TheDeployments
    Forms <- TheForms
    RedirectSchemes = {"*"}
    DefaultRequired = {"otp"}
    Requests = {r1, r2}
    Ttl = 2
    MissTtl = 1
    LoadTime = 1
    MaxTime = 3
SYMMETRY Alike
INVARIANTS Bounded ServedFresh AnswersAreRegistered
PROPERTIES LiveKept
