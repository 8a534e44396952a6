----------------------------- MODULE TokenEndpoint -----------------------------
(***************************************************************************)
(* POST /token (src/endpoints/token.js): a client authenticates, redeems an *)
(* authorisation code, and is given tokens.  Several instances serve it,    *)
(* each with its own clock; the state store is shared.  A request stops at  *)
(* every await: the claim of its client assertion, the claim of its code,   *)
(* and the re-reading of a local identity.                                 *)
(*                                                                         *)
(* Time passes in ticks, TicksPerSecond of them to a second, because one    *)
(* backend keeps a claim to the millisecond and the others to the second:   *)
(*   "record"  an expiry in seconds, by the clock of the instance that      *)
(*             calls (createMemoryStore, createDynamoStore)                 *)
(*   "alarm"   a Durable Object, whose alarm empties it by its own clock    *)
(***************************************************************************)
EXTENDS Naturals, FiniteSets

CONSTANTS
    Codes,          \* authorisation codes, by jti
    LocalCodes,     \* those minted for a local identity
    Assertions,     \* client assertions, by client id and jti
    NoAssertion,    \* a client that authenticates without one
    AssertionExp,   \* AssertionExp[a]: the exp claim of the assertion
    Requests,       \* token requests
    Instances,      \* gateway instances
    Offset,         \* Offset[i]: how far i's clock is ahead, in ticks
    Backend,        \* "record" or "alarm"
    TicksPerSecond,
    CodeTtl,        \* authorizationCodeTtlSeconds
    Grace,          \* the 60 seconds a code's claim outlives the code
    ClockSkew,      \* clockSkewSeconds, allowed to an assertion's exp
    MinTtl,         \* the least lifetime the backend gives a claim
    MaxDelay,       \* the longest a request waits between a check and the claim
                    \* that follows it, in ticks
    MaxTime         \* bound: ticks

ASSUME TokenAssumption ==
    /\ LocalCodes \subseteq Codes
    /\ Codes \cap Assertions = {}
    /\ NoAssertion \notin Assertions
    /\ AssertionExp \in [Assertions -> Nat]
    /\ Instances # {}
    /\ Offset \in [Instances -> Nat]
    /\ Backend \in {"record", "alarm"}
    /\ TicksPerSecond \in Nat \ {0}
    /\ {CodeTtl, Grace, ClockSkew, MinTtl, MaxDelay, MaxTime} \subseteq Nat

\* The margin a code's claim is given covers how long a request waits between
\* opening the code and claiming it and, where the store keeps its own time, how
\* far apart the instances' clocks are and the second a clock rounds away.
ASSUME MarginCovers ==
    IF Backend = "record"
    THEN MaxDelay <= Grace * TicksPerSecond
    ELSE \A i, j \in Instances :
            Offset[i] + MaxDelay + TicksPerSecond <= Offset[j] + Grace * TicksPerSecond

VARIABLES
    time,       \* real time, in ticks
    codeExp,    \* codeExp[c]: the exp sealed into code c, 0 before it is minted
    version,    \* security_version of the local identity
    active,     \* whether the local identity is enabled
    minted,     \* minted[c]: the security_version sealed into code c
    held,       \* held[id]: until when the store holds the claim on id, 0 if unclaimed
    form,       \* form[r]: what r presents, and where; never changes
    step,       \* step[r]: how far r has come
    since,      \* since[r]: when r began to wait for a claim, in ticks
    spentUnder  \* history: the security_version in force when r's claim was granted

vars == <<time, codeExp, version, active, minted, held, form, step, since, spentUnder>>

Claimable == Codes \cup Assertions

\* bound says whether the client, the redirect_uri and the code_verifier are the
\* ones the code was minted for.
Forms == [at : Instances, code : Codes, assertion : Assertions \cup {NoAssertion}, bound : BOOLEAN]

Steps == {"idle", "assertion", "redeem", "code", "recheck", "sign", "tokens", "refused"}

Clock(i) == (time + Offset[i]) \div TicksPerSecond

\* Largest of the two, and a - b without going below zero.
Most(a, b) == IF a > b THEN a ELSE b
Less(a, b) == IF a > b THEN a - b ELSE 0

Init ==
    /\ time = TicksPerSecond
    /\ codeExp = [c \in Codes |-> 0]
    /\ version = 1
    /\ active = TRUE
    /\ minted = [c \in Codes |-> 0]
    /\ held = [id \in Claimable |-> 0]
    /\ form \in [Requests -> Forms]
    /\ step = [r \in Requests |-> "idle"]
    /\ since = [r \in Requests |-> 0]
    /\ spentUnder = [r \in Requests |-> 0]

--------------------------------------------------------------------------------
(* The store, as the endpoint uses it *)

\* Is a claim live when instance i asks?
Live(id, i) ==
    IF Backend = "record" THEN held[id] >= Clock(i) ELSE held[id] > time

Deadline(i, ttl) ==
    IF Backend = "record"
    THEN Clock(i) + Most(MinTtl, ttl)
    ELSE time + Most(MinTtl, ttl) * TicksPerSecond

\* claim: granted once, refused while it is live.
Claim(id, i, ttl) ==
    held' = IF Live(id, i) THEN held ELSE [held EXCEPT ![id] = Deadline(i, ttl)]

--------------------------------------------------------------------------------
(* The endpoint *)

\* A step that awaits a claim relies on a check made when it began to wait.
Claiming == {"assertion", "code"}

Goto(r, next) ==
    /\ step' = [step EXCEPT ![r] = next]
    /\ since' = [since EXCEPT ![r] = IF next \in Claiming THEN time ELSE 0]

\* issueCode, for a person who has just authenticated.
IssueCode(i, c) ==
    /\ codeExp[c] = 0
    /\ c \in LocalCodes => active
    /\ codeExp' = [codeExp EXCEPT ![c] = Clock(i) + CodeTtl]
    /\ minted' = [minted EXCEPT ![c] = version]
    /\ UNCHANGED <<time, version, active, held, form, step, since, spentUnder>>

AssertionValid(a, i) == AssertionExp[a] + ClockSkew >= Clock(i)

\* readCredentials, resolveClient and all that authenticateClient does before
\* its claim.
Present(r) ==
    LET f == form[r]
    IN  /\ step[r] = "idle"
        /\ codeExp[f.code] # 0
        /\ Goto(r, IF f.assertion = NoAssertion THEN "redeem"
                   ELSE IF AssertionValid(f.assertion, f.at) THEN "assertion"
                   ELSE "refused")
        /\ UNCHANGED <<time, codeExp, version, active, minted, held, form, spentUnder>>

\* Mutant of AssertionTtl: forgets the skew the assertion's exp is allowed.
AssertionTtlWithoutSkew(r) == Less(AssertionExp[form[r].assertion], Clock(form[r].at))

AssertionTtl(r) == Less(AssertionExp[form[r].assertion] + ClockSkew, Clock(form[r].at))

\* The end of verifyPrivateKeyJwt.
ClaimAssertion(r) ==
    LET f == form[r]
    IN  /\ step[r] = "assertion"
        /\ Claim(f.assertion, f.at, AssertionTtl(r))
        /\ Goto(r, IF Live(f.assertion, f.at) THEN "refused" ELSE "redeem")
        /\ UNCHANGED <<time, codeExp, version, active, minted, form, spentUnder>>

\* Mutant of Redeem: leaves the bindings to be checked after the claim.
RedeemUnbound(r) ==
    LET f == form[r]
    IN  /\ step[r] = "redeem"
        /\ Goto(r, IF codeExp[f.code] >= Clock(f.at) THEN "code" ELSE "refused")
        /\ UNCHANGED <<time, codeExp, version, active, minted, held, form, spentUnder>>

\* redeemCode up to its claim: unseal, then the three bindings.
Redeem(r) ==
    LET f == form[r]
    IN  /\ step[r] = "redeem"
        /\ Goto(r, IF codeExp[f.code] >= Clock(f.at) /\ f.bound THEN "code" ELSE "refused")
        /\ UNCHANGED <<time, codeExp, version, active, minted, held, form, spentUnder>>

\* Mutant of CodeClaimTtl: the claim ends with the code.
CodeClaimTtlWithoutGrace(r) == Less(codeExp[form[r].code], Clock(form[r].at))

CodeClaimTtl(r) == Less(codeExp[form[r].code] + Grace, Clock(form[r].at))

ClaimCode(r) ==
    LET f == form[r]
    IN  /\ step[r] = "code"
        /\ Claim(f.code, f.at, CodeClaimTtl(r))
        /\ Goto(r, IF Live(f.code, f.at) THEN "refused"
                   ELSE IF f.code \in LocalCodes THEN "recheck" ELSE "sign")
        /\ spentUnder' = [spentUnder EXCEPT ![r] = version]
        /\ UNCHANGED <<time, codeExp, version, active, minted, form>>

\* The store fails a claim, perhaps after it recorded it: the exchange ends.
ClaimFails(r) ==
    /\ \/ /\ step[r] = "assertion"
          /\ UNCHANGED held \/ Claim(form[r].assertion, form[r].at, AssertionTtl(r))
       \/ /\ step[r] = "code"
          /\ UNCHANGED held \/ Claim(form[r].code, form[r].at, CodeClaimTtl(r))
    /\ Goto(r, "refused")
    /\ UNCHANGED <<time, codeExp, version, active, minted, form, spentUnder>>

\* Mutant of Recheck: looks at the account but not at its security_version.
RecheckActive(r) ==
    /\ step[r] = "recheck"
    /\ Goto(r, IF active THEN "sign" ELSE "refused")
    /\ UNCHANGED <<time, codeExp, version, active, minted, held, form, spentUnder>>

\* validateSession of the local identity store, after the redemption.
Recheck(r) ==
    /\ step[r] = "recheck"
    /\ Goto(r, IF active /\ minted[form[r].code] = version THEN "sign" ELSE "refused")
    /\ UNCHANGED <<time, codeExp, version, active, minted, held, form, spentUnder>>

\* issueAccessToken and signIdToken; the signer may be unavailable.
Sign(r) ==
    /\ step[r] = "sign"
    /\ Goto(r, "tokens") \/ Goto(r, "refused")
    /\ UNCHANGED <<time, codeExp, version, active, minted, held, form, spentUnder>>

\* An operator disables or enables the record, or raises security_version.
Administer ==
    /\ \/ active' = ~active /\ UNCHANGED version
       \/ version = 1 /\ version' = 2 /\ UNCHANGED active
    /\ UNCHANGED <<time, codeExp, minted, held, form, step, since, spentUnder>>

Tick ==
    /\ time < MaxTime
    /\ \A r \in Requests : step[r] \in Claiming => time < since[r] + MaxDelay
    /\ time' = time + 1
    /\ UNCHANGED <<codeExp, version, active, minted, held, form, step, since, spentUnder>>

Next ==
    \/ \E i \in Instances, c \in Codes : IssueCode(i, c)
    \/ \E r \in Requests :
          \/ Present(r) \/ ClaimAssertion(r) \/ Redeem(r) \/ ClaimCode(r)
          \/ ClaimFails(r) \/ Recheck(r) \/ Sign(r)
    \/ Administer
    \/ Tick

Spec == Init /\ [][Next]_vars
--------------------------------------------------------------------------------
(* Properties *)

\* Every variable has its shape, and a code that was minted carries a version.
TypeOK ==
    /\ time \in Nat
    /\ codeExp \in [Codes -> Nat]
    /\ version \in Nat
    /\ active \in BOOLEAN
    /\ minted \in [Codes -> Nat]
    /\ \A c \in Codes : minted[c] # 0 <=> codeExp[c] # 0
    /\ held \in [Claimable -> Nat]
    /\ form \in [Requests -> Forms]
    /\ step \in [Requests -> Steps]
    /\ since \in [Requests -> Nat]
    /\ spentUnder \in [Requests -> Nat]

\* The requests whose claim on code c was granted and that may answer with tokens.
Redeemers(c) == {r \in Requests : form[r].code = c /\ step[r] \in {"recheck", "sign", "tokens"}}

\* A code is spent at most once, whichever instances it is presented to, however
\* their requests interleave and whether or not the store answers
\* (src/oauth/code.js:107-111).
CodeSpentOnce ==
    \A c \in Codes, r, s \in Requests : r \in Redeemers(c) /\ s \in Redeemers(c) => r = s

\* A request that is not entitled to a code - wrong client, redirect_uri or
\* code_verifier - is refused before the claim, so it cannot use the code up.
OnlyEntitledSpend ==
    [][\A c \in Codes : held'[c] # held[c] =>
          \E r \in Requests : form[r].code = c /\ form[r].bound /\ step[r] = "code"]_vars

\* The record of a local identity is read after the redemption, so a change of
\* security_version made before the code is redeemed always wins over the code
\* (src/endpoints/token.js:39-41).
VersionChangeWins ==
    \A r \in Requests :
        step[r] = "tokens" /\ form[r].code \in LocalCodes => spentUnder[r] = minted[form[r].code]

\* The requests an assertion has authenticated.
AuthenticatedBy(a) ==
    {r \in Requests : form[r].assertion = a /\ step[r] \in {"redeem", "code", "recheck", "sign", "tokens"}}

\* An assertion that is still good when the claim is made authenticates nobody
\* if it has authenticated somebody before: the claim lives exactly as long as
\* the assertion (src/oauth/clientauth.js:180-184).
GoodAssertionSpentOnce ==
    [][\A r \in Requests :
          LET a == form[r].assertion
          IN  step[r] = "assertion" /\ step'[r] = "redeem" /\ AssertionValid(a, form[r].at)
                => AuthenticatedBy(a) = {}]_vars
================================================================================
