-------------------------------- MODULE Limits --------------------------------
(***************************************************************************)
(* The rate limits of src/store/limits.js: how often a code is mailed to a *)
(* mailbox, and how often a local credential is tried against one.         *)
(*                                                                         *)
(* A check reads the clock once, derives its counter keys (an await on the  *)
(* HMAC), and then increments one counter after the other, an await each.   *)
(* Checks of different requests interleave at every await.  The counters   *)
(* are the store's: an increment is atomic, a counter lives for its ttl     *)
(* from its first increment (ClaimStore), and any call may fail.  A full    *)
(* in-memory store gives up live counters that are not protected.          *)
(***************************************************************************)
EXTENDS Naturals, Sequences, FiniteSets

CONSTANTS
    Requests,           \* requests in flight; each makes one check
    Forms,              \* what a request may be: which check it makes ("otp" or
                        \* "local"), about which address, from which network
    Mailbox,            \* Mailbox[a]: stripPlusTag of the lower-cased address
    NoNetwork,          \* the network of a request without x-sag-client-ip
    SendWindow,         \* OTP_SEND_WINDOW, 0 turns it off
    SendBurst,          \* OTP_SEND_BURST
    SendDailyLimit,     \* OTP_SEND_DAILY_LIMIT, 0 turns it off
    Day,                \* DAY
    AttemptWindow,      \* LOCAL_AUTH_ATTEMPT_WINDOW
    MaxAttempts,        \* LOCAL_AUTH_MAX_ATTEMPTS
    NetworkMaxAttempts, \* LOCAL_AUTH_NETWORK_MAX_ATTEMPTS, 0 turns it off
    StoreFails,         \* whether a store call may fail
    InMemory,           \* whether the store is the in-memory one, which evicts
    MaxEvictions,       \* bound: how often a counter is evicted
    MaxDelay,           \* bound: seconds between reading the clock and a call
    MaxTime             \* bound: the clock stops here

ASSUME LimitsAssumption ==
    /\ IsFiniteSet(Requests)
    /\ \A f \in Forms : f.kind \in {"otp", "local"}
    /\ {SendWindow, SendBurst, SendDailyLimit, NetworkMaxAttempts, MaxDelay, MaxTime} \subseteq Nat
    /\ MaxEvictions \in Nat
    /\ {Day, AttemptWindow, MaxAttempts} \subseteq Nat \ {0}

VARIABLES
    form,       \* form[r]: what r is; never changes
    hasStore,   \* whether a state store is configured; never changes
    now,        \* nowSeconds()
    counters,   \* the store: a function from the keys it holds a counter of
    evictions,  \* evictions[key]: how often the store gave up a live counter of
                \* key (history: the code keeps no such count)
    plan,       \* plan[r]: the increments r has still to make
    readAt,     \* readAt[r]: the clock r read
    outcome     \* outcome[r]: the answer the caller acts on

vars == <<form, hasStore, now, counters, evictions, plan, readAt, outcome>>

Outcomes == {"none", "checking", "allowed", "unenforced", "degraded", "refused", "denied"}

\* The caller mails a code, or verifies a credential.
Permitted(r) == outcome[r] \in {"allowed", "unenforced", "degraded"}

Init ==
    /\ form \in [Requests -> Forms]
    /\ hasStore \in BOOLEAN
    /\ now = 0
    /\ counters = <<>>
    /\ evictions = <<>>
    /\ plan = [r \in Requests |-> <<>>]
    /\ readAt = [r \in Requests |-> 0]
    /\ outcome = [r \in Requests |-> "none"]

--------------------------------------------------------------------------------
(* The counters a check increments, in order *)

\* Mutant of AddressKey: counts each spelling of a mailbox by itself.
TaggedAddressKey(r) == form[r].address

\* addressKey: one counter for every spelling of a mailbox.
AddressKey(r) == Mailbox[form[r].address]

Limit(key, ttl, max, failClosed) ==
    [key |-> key, ttl |-> ttl, max |-> max, failClosed |-> failClosed]

Windowed == SendWindow > 0 /\ SendBurst > 0

SendPlan(r) ==
    (IF Windowed
     THEN <<Limit(<<"otp-send", AddressKey(r), now \div SendWindow>>, SendWindow, SendBurst, FALSE)>>
     ELSE <<>>)
    \o
    (IF SendDailyLimit > 0
     THEN <<Limit(<<"otp-day", AddressKey(r), now \div Day>>, Day, SendDailyLimit, FALSE)>>
     ELSE <<>>)

\* Mutant of AttemptPlan: the address counter is not protected.
AddressUnprotected(r) ==
    LET bucket == now \div AttemptWindow
    IN  (IF form[r].network # NoNetwork /\ NetworkMaxAttempts > 0
         THEN <<Limit(<<"local-network", form[r].network, bucket>>, AttemptWindow, NetworkMaxAttempts, TRUE)>>
         ELSE <<>>)
        \o <<Limit(<<"local-address", AddressKey(r), bucket>>, AttemptWindow, MaxAttempts, FALSE)>>

\* Mutant of AttemptPlan: the address before the network.
AddressFirst(r) ==
    LET bucket == now \div AttemptWindow
    IN  <<Limit(<<"local-address", AddressKey(r), bucket>>, AttemptWindow, MaxAttempts, TRUE)>>
        \o (IF form[r].network # NoNetwork /\ NetworkMaxAttempts > 0
            THEN <<Limit(<<"local-network", form[r].network, bucket>>, AttemptWindow, NetworkMaxAttempts, TRUE)>>
            ELSE <<>>)

AttemptPlan(r) ==
    LET bucket == now \div AttemptWindow
    IN  (IF form[r].network # NoNetwork /\ NetworkMaxAttempts > 0
         THEN <<Limit(<<"local-network", form[r].network, bucket>>, AttemptWindow, NetworkMaxAttempts, TRUE)>>
         ELSE <<>>)
        \o <<Limit(<<"local-address", AddressKey(r), bucket>>, AttemptWindow, MaxAttempts, TRUE)>>

PlanFor(r) == IF form[r].kind = "otp" THEN SendPlan(r) ELSE AttemptPlan(r)

\* What the check answers when it makes no call at all.
WithoutStore(r) == IF form[r].kind = "otp" THEN "unenforced" ELSE "denied"

\* Mutant of OnFailure: credentials fail open as mail does.
FailOpen(r) == "degraded"

\* What the check answers when a call fails: mail fails open, accounts closed.
OnFailure(r) == IF form[r].kind = "otp" THEN "degraded" ELSE "denied"

Begin(r) ==
    /\ outcome[r] = "none"
    /\ readAt' = [readAt EXCEPT ![r] = now]
    /\ IF hasStore /\ PlanFor(r) # <<>>
       THEN /\ plan' = [plan EXCEPT ![r] = PlanFor(r)]
            /\ outcome' = [outcome EXCEPT ![r] = "checking"]
       ELSE /\ outcome' = [outcome EXCEPT ![r] = WithoutStore(r)]
            /\ UNCHANGED plan
    /\ UNCHANGED <<form, hasStore, now, counters, evictions>>

--------------------------------------------------------------------------------
(* The store's side *)

Live(key) == key \in DOMAIN counters /\ counters[key].expiresAt >= now

\* increment: the first one sets the deadline, later ones leave it alone; a
\* counter that was protected once stays so.
Counted(limit) ==
    IF Live(limit.key)
    THEN LET held == counters[limit.key]
         IN  [expiresAt |-> held.expiresAt, count |-> held.count + 1,
              failClosed |-> held.failClosed \/ limit.failClosed]
    ELSE [expiresAt |-> now + limit.ttl, count |-> 1, failClosed |-> limit.failClosed]

Put(key, entry) ==
    [k \in DOMAIN counters \cup {key} |-> IF k = key THEN entry ELSE counters[k]]

Increment(r) ==
    /\ outcome[r] = "checking"
    /\ LET limit == Head(plan[r])
           used == Counted(limit).count
       IN  /\ counters' = Put(limit.key, Counted(limit))
           /\ plan' = [plan EXCEPT ![r] = IF used > limit.max THEN <<>> ELSE Tail(@)]
           /\ outcome' = [outcome EXCEPT ![r] =
                 IF used > limit.max THEN "refused"
                 ELSE IF Len(plan[r]) = 1 THEN "allowed" ELSE "checking"]
    /\ UNCHANGED <<form, hasStore, now, evictions, readAt>>

\* The call fails.  The store may have counted before the answer was lost.
Fail(r) ==
    /\ StoreFails
    /\ outcome[r] = "checking"
    /\ \/ UNCHANGED counters
       \/ counters' = Put(Head(plan[r]).key, Counted(Head(plan[r])))
    /\ plan' = [plan EXCEPT ![r] = <<>>]
    /\ outcome' = [outcome EXCEPT ![r] = OnFailure(r)]
    /\ UNCHANGED <<form, hasStore, now, evictions, readAt>>

Evictions(key) == IF key \in DOMAIN evictions THEN evictions[key] ELSE 0

\* An increment of some other key finds the in-memory store full of live counters
\* and drops this one, which is not protected.  The keys of the other requests
\* that fill the store are not modelled, so any such counter may be the oldest.
Evict(key) ==
    /\ InMemory
    /\ Live(key) /\ ~counters[key].failClosed
    /\ Evictions(key) < MaxEvictions
    /\ counters' = [k \in DOMAIN counters \ {key} |-> counters[k]]
    /\ evictions' = [k \in DOMAIN evictions \cup {key} |->
                        Evictions(k) + (IF k = key THEN 1 ELSE 0)]
    /\ UNCHANGED <<form, hasStore, now, plan, readAt, outcome>>

\* Time passes, but no check is left waiting longer than MaxDelay.
Tick ==
    /\ now < MaxTime
    /\ \A r \in Requests : outcome[r] = "checking" => now - readAt[r] < MaxDelay
    /\ now' = now + 1
    /\ UNCHANGED <<form, hasStore, counters, evictions, plan, readAt, outcome>>

Next ==
    \/ \E r \in Requests : Begin(r) \/ Increment(r) \/ Fail(r)
    \/ \E key \in DOMAIN counters : Evict(key)
    \/ Tick

Spec == Init /\ [][Next]_vars

--------------------------------------------------------------------------------
(* Properties *)

\* A check has increments to make exactly while it is being decided, every
\* counter is a positive count, and every answer is one the callers know.
TypeOK ==
    /\ form \in [Requests -> Forms]
    /\ hasStore \in BOOLEAN
    /\ now \in 0..MaxTime
    /\ \A key \in DOMAIN counters : counters[key].count > 0
    /\ readAt \in [Requests -> 0..MaxTime]
    /\ outcome \in [Requests -> Outcomes]
    /\ \A r \in Requests : plan[r] # <<>> <=> outcome[r] = "checking"

AllowedWithin(kind, mailbox, from, to) ==
    {r \in Requests : /\ outcome[r] = "allowed"
                      /\ form[r].kind = kind
                      /\ Mailbox[form[r].address] = mailbox
                      /\ readAt[r] \in from..to}

Mailboxes == {Mailbox[form[r].address] : r \in Requests}

Buckets(width) == {b * width : b \in 0..(MaxTime \div width)}

\* How many counters one after the other a bucket's key can have: a check that
\* read the clock in the last second of the bucket counts up to MaxDelay later,
\* and a counter lives for width + 1 seconds.  One, while a call takes no longer
\* than a second.
Lives(width) == 1 + (width + MaxDelay - 1) \div (width + 1)

\* OTP_SEND_BURST: however the checks interleave and whichever spelling of the
\* address they use, no bucket of the window lets more than the burst through
\* while the store answers, and no day more than the daily limit; a store that
\* evicts the counter buys one burst more each time it does, and nothing else
\* (src/store/index.js:98-107, docs/state-and-limits.md:31).
SendsPerBucket ==
    \A m \in Mailboxes :
        /\ Windowed => \A b \in Buckets(SendWindow) :
              Cardinality(AllowedWithin("otp", m, b, b + SendWindow - 1))
                 <= SendBurst * (Lives(SendWindow)
                                   + Evictions(<<"otp-send", m, b \div SendWindow>>))
        /\ SendDailyLimit > 0 => \A b \in Buckets(Day) :
              Cardinality(AllowedWithin("otp", m, b, b + Day - 1))
                 <= SendDailyLimit * (Lives(Day) + Evictions(<<"otp-day", m, b \div Day>>))

\* LOCAL_AUTH_MAX_ATTEMPTS: no mailbox has more credential attempts verified in
\* a bucket than the limit, store failures and evictions included: a failed or a
\* full store never buys a guess (src/store/limits.js:100-104).
AttemptsPerBucket ==
    \A m \in Mailboxes, b \in Buckets(AttemptWindow) :
        Cardinality({r \in Requests : /\ Permitted(r)
                                      /\ form[r].kind = "local"
                                      /\ Mailbox[form[r].address] = m
                                      /\ readAt[r] \in b..(b + AttemptWindow - 1)})
            <= MaxAttempts * Lives(AttemptWindow)

\* No bucket lets more through than its limit, once for each life of its counter:
\* credential attempts whatever the store does, mails while it answers and once
\* more for each time it gave their counter up (src/store/limits.js:57-104).
WithinLimits == TypeOK /\ SendsPerBucket /\ AttemptsPerBucket

\* The network bucket is checked first, so the sources that make attempts can
\* make the store keep no more address counters in a bucket than their own limits
\* allow them attempts (src/store/limits.js:111-115).
NetworkBoundsAddressKeys ==
    LET sources == {form[r].network : r \in {q \in Requests : form[q].kind = "local"}}
    IN  NetworkMaxAttempts > 0 /\ NoNetwork \notin sources =>
            \A b \in 0..(MaxTime \div AttemptWindow) :
                Cardinality({key \in DOMAIN counters : key[1] = "local-address" /\ key[3] = b})
                    <= NetworkMaxAttempts * Lives(AttemptWindow) * Cardinality(sources)
================================================================================
