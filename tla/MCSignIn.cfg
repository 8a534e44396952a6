SPECIFICATION Spec
CONSTANTS
    mail = mail
    decoy = decoy
    staff = staff
    chief = chief
    guest = guest
    corp = corp
    hq = hq
    goog = goog
    NoEmail = NoEmail
    TxIds = {t1, t2}
    Asks <- UpstreamAsks
    Floor = {}
    DefaultAcr = {}
    Emails = {mail, staff}
    OtpEnabled = TRUE
    OtpEmails = {mail}
    LocalEmails = {staff}
    MfaEmails = {}
    Upstreams = {goog}
    Serves <- CommonForAll
    Common = {goog}
    Within <- NoneWithin
    ExplainUnknown = FALSE
    MaxAttempts = 1
    MaxResends = 1
    MaxPages = 4
    MaxCodes = 2
    MaxIssued = 2
    MaxVersion = 1
SYMMETRY AlikeRequests
INVARIANTS PagesAreSound IssuedMeetsRequest AddressIsProved
PROPERTIES StaleAccountIssuesNothing
