SPECIFICATION Spec
CONSTANTS
    mail = mail
    decoy = decoy
    staff = staff
    chief = chief
    guest = guest
    corp = corp
    hq = hq
    goog = goog
    NoEmail = NoEmail
    TxIds = {t1}
    Asks <- LocalAsks
    Floor = {}
    DefaultAcr = {}
    Emails = {staff, chief, guest}
    OtpEnabled = TRUE
    OtpEmails = {staff, chief}
    LocalEmails = {staff, chief}
    MfaEmails = {staff, chief}
    Upstreams = {corp, hq}
    Serves <- OwnForGuest
    Common = {}
    Within <- GuestWithin
    ExplainUnknown = FALSE
    MaxAttempts = 1
    MaxResends = 1
    MaxPages = 5
    MaxCodes = 0
    MaxIssued = 2
    MaxVersion = 2
SYMMETRY AlikeProviders
INVARIANTS IssuedMeetsRequest AddressIsProved
PROPERTIES StaleAccountIssuesNothing
