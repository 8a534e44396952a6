SPECIFICATION Spec
CONSTANTS
    mailA = mailA
    mailATagged = mailATagged
    mailB = mailB
    net1 = net1
    NoNetwork = NoNetwork
    Requests = {r1, r2, r3}
    Forms <- SomeForms
    Mailbox <- SomeMailbox
    SendWindow = 2
    SendBurst = 1
    SendDailyLimit = 2
    Day = 3
    AttemptWindow = 2
    MaxAttempts = 1
    NetworkMaxAttempts = 1
    StoreFails = TRUE
    InMemory = TRUE
    MaxEvictions = 1
    MaxDelay = 1
    MaxTime = 3
SYMMETRY Alike
INVARIANTS WithinLimits NetworkBoundsAddressKeys
CHECK_DEADLOCK FALSE
