--------------------------------- MODULE SignIn ---------------------------------
(***************************************************************************)
(* Interactive sign-in: src/endpoints/authorize.js with                    *)
(* src/oauth/transaction.js, src/otp.js and src/acr.js.                    *)
(*                                                                         *)
(* The gateway keeps nothing between two requests.  Where a sign-in stands  *)
(* is sealed into every page (a transaction) or into the state sent to an   *)
(* upstream provider, and the browser hands it back.  So every transaction  *)
(* ever rendered may be posted again, to any of the endpoints and in any    *)
(* order: pages and states are sets that only grow.                        *)
(*                                                                         *)
(* A handler is one step, at the moment it reads the record of a local      *)
(* identity, if it does.  One that signs somebody in has a second step:     *)
(* between the two it hashes a password, asks the store and seals the code, *)
(* and the record may change.  Ages (of a transaction, a code, a session)   *)
(* are not counted: what may be too old may be refused at any time.         *)
(***************************************************************************)
EXTENDS Naturals, FiniteSets

CONSTANTS
    TxIds,          \* authorisation requests, by transaction id
    Asks,           \* what they may ask for: records of acr_values and prompt
    Floor,          \* the client's registered acr_values, added to what it asks
    DefaultAcr,     \* acr.defaultRequired, for a client that asks for nothing
    Emails,         \* addresses
    NoEmail,
    OtpEnabled,     \* otp.enabled
    OtpEmails,      \* addresses an email code is allowed for
    LocalEmails,    \* addresses of local identities
    MfaEmails,      \* those with a second factor
    Upstreams,      \* upstream providers
    Serves,         \* Serves[e]: upstreamsFor(e)
    Common,         \* upstreams of no particular domain
    Within,         \* Within[u]: the addresses of u's domain and of those below it
    ExplainUnknown, \* SIGNIN_UNKNOWN_ADDRESS is "explain"
    MaxAttempts,    \* otp.maxAttempts
    MaxResends,     \* otp.maxResends
    MaxPages,       \* bound: pages and upstream states that are kept
    MaxCodes,       \* bound: email codes that are generated
    MaxIssued,      \* bound: authorisation codes that are issued
    MaxVersion      \* bound: security_version

Acrs == {"otp", "local", "localMfa", "fed", "fedMfa", "mfa"}

ASSUME SignInAssumption ==
    /\ Asks \subseteq [acr : SUBSET Acrs, prompt : {"none", "login", "consent"}]
    /\ Floor \subseteq Acrs
    /\ DefaultAcr \subseteq Acrs
    /\ NoEmail \notin Emails
    /\ OtpEnabled \in BOOLEAN
    /\ ExplainUnknown \in BOOLEAN
    /\ MfaEmails \subseteq LocalEmails
    /\ LocalEmails \cup OtpEmails \subseteq Emails
    /\ OtpEmails # {} => OtpEnabled
    /\ Serves \in [Emails -> SUBSET Upstreams]
    /\ Common \subseteq Upstreams
    /\ Within \in [Upstreams -> SUBSET Emails]
    /\ \A e \in Emails : Serves[e] \subseteq Common \/ Serves[e] \cap Common = {}
    /\ {MaxAttempts, MaxResends, MaxPages, MaxCodes, MaxIssued} \subseteq Nat
    /\ MaxVersion \in Nat \ {0}

VARIABLES
    pages,      \* transactions handed to a browser
    states,     \* upstream states handed to a browser
    generated,  \* how many email codes were generated; a code is its number
    mailed,     \* which code was mailed where
    sessions,   \* session cookies that were set
    completing, \* authorisation codes decided upon, but not sealed and sent yet
    issued,     \* authorisation codes, and what each was issued on
    account,    \* account[e]: the record of the local identity e
    passed      \* history: passwords verified, by transaction, address and version

vars == <<pages, states, generated, mailed, sessions, completing, issued, account, passed>>

NoOtp == [digest |-> <<>>, attempts |-> 0, resends |-> 0, present |-> FALSE]

NoLocal == [id |-> NoEmail, version |-> 0]

NoUpstream == "none"

Init ==
    /\ pages = {}
    /\ states = {}
    /\ generated = 0
    /\ mailed = {}
    /\ sessions = {}
    /\ completing = {}
    /\ issued = {}
    /\ account = [e \in LocalEmails |-> [version |-> 1, enabled |-> TRUE]]
    /\ passed = {}

--------------------------------------------------------------------------------
(* acr.js *)

Strength(acr) ==
    CASE acr = "otp" -> 1 [] acr = "fed" -> 2 [] acr = "fedMfa" -> 3 [] OTHER -> 0

IsLocal(acr) == acr \in {"local", "localMfa"}

Meets(held, want) ==
    IF want = "mfa" THEN held \in {"localMfa", "fedMfa"}
    ELSE \/ want = held
         \/ IF IsLocal(held) \/ IsLocal(want)
            THEN held = "localMfa" /\ want = "local"
            ELSE Strength(want) > 0 /\ Strength(held) >= Strength(want)

Satisfies(held, requested) == requested = {} \/ \E want \in requested : Meets(held, want)

\* minimumStrengthRequired(requested) > 1; with no known value it is infinite.
RequiresFederation(requested) ==
    requested # {} /\ \A want \in requested : Strength(want) # 1

--------------------------------------------------------------------------------
(* Answers *)

OtpAllowed(e) == e \in OtpEmails

LocalIdentityAllowed(e) == e \in LocalEmails

OtpPossible(tx) == OtpAllowed(tx.email) /\ ~RequiresFederation(tx.acr)

Render(tx) ==
    /\ Cardinality(pages \cup {tx}) + Cardinality(states) <= MaxPages
    /\ pages' = pages \cup {tx}

\* A page that shows tx and nothing else.
Show(tx) == Render(tx) /\ UNCHANGED <<states, generated, mailed, sessions, completing, issued, account, passed>>

At(tx, stage) == [tx EXCEPT !.stage = stage]

RenderEmail(tx) == Show(At(tx, "email"))

\* An error, back to the relying party or on a page of its own.
Refuse == UNCHANGED vars

\* What complete is called with: the session in hand, for this transaction.  proof is
\* what a history of the sign-in keeps of it: the email code entered, or the address
\* vouched for.
Complete(tx, session, by, proof) ==
    LET code == [id |-> tx.id, asked |-> tx.acr, prompt |-> tx.prompt, by |-> by, proof |-> proof,
                 email |-> session.email, acr |-> session.acr, local |-> session.local]
    IN  /\ Cardinality(completing \cup issued \cup {code}) <= MaxIssued
        /\ completing' = completing \cup {code}
        /\ UNCHANGED <<pages, states, generated, mailed, sessions, issued, account>>

\* The session a code is issued on.
SessionOf(code) == [email |-> code.email, acr |-> code.acr, local |-> code.local]

\* Mutant of Issue: the code carries the security_version of the moment it is sealed.
IssueAfresh(code) ==
    LET now == IF code.local = NoLocal THEN code
               ELSE [code EXCEPT !.local.version = account[code.local.id].version]
    IN  /\ completing' = completing \ {code}
        /\ issued' = issued \cup {now}
        /\ sessions' = sessions \cup {SessionOf(now)}
        /\ UNCHANGED <<pages, states, generated, mailed, account, passed>>

\* complete: seal the code and set the session cookie, in one answer.
Issue(code) ==
    /\ completing' = completing \ {code}
    /\ issued' = issued \cup {code}
    /\ sessions' = sessions \cup {SessionOf(code)}
    /\ UNCHANGED <<pages, states, generated, mailed, account, passed>>

--------------------------------------------------------------------------------
(* sendOtp *)

WithOtp(tx, digest, resends) ==
    [tx EXCEPT !.stage = "otp",
               !.otp = [digest |-> digest, attempts |-> 0, resends |-> resends, present |-> TRUE]]

\* Mutant of DigestCode: a digest of the transaction and the code alone.
DigestWithoutAddress(id, email, code) == <<id, NoEmail, code>>

DigestCode(id, email, code) == <<id, email, code>>

\* Over the limit the screen is the same; a code that was sent before stays good.
OtpLimited(tx, resends) ==
    Show(IF tx.otp.present THEN tx ELSE WithOtp(tx, <<>>, resends))

\* A new code.  It is mailed unless the address is a decoy, and even then the
\* provider may fail before or after it accepts the message.
OtpSent(tx, resends) ==
    LET code == generated + 1
    IN  /\ code <= MaxCodes
        /\ Render(WithOtp(tx, DigestCode(tx.id, tx.email, code), resends))
        /\ generated' = code
        /\ \/ OtpAllowed(tx.email) /\ mailed' = mailed \cup {[to |-> tx.email, code |-> code]}
           \/ UNCHANGED mailed
        /\ UNCHANGED <<states, sessions, completing, issued, account, passed>>

SendOtp(tx, resend) ==
    LET resends == IF resend THEN tx.otp.resends + 1 ELSE 0
    IN  IF resends > MaxResends THEN Show(tx)
        ELSE OtpLimited(tx, resends) \/ OtpSent(tx, resends)

--------------------------------------------------------------------------------
(* Upstream providers *)

UpstreamsFor(e) == Serves[e]

\* The whole transaction is sealed into the state, with the leg it is for.
BeginUpstream(tx, u) ==
    LET state == [tx EXCEPT !.upstream = u]
    IN  /\ Cardinality(pages) + Cardinality(states \cup {state}) <= MaxPages
        /\ states' = states \cup {state}
        /\ UNCHANGED <<pages, generated, mailed, sessions, completing, issued, account, passed>>

\* If the provider cannot be reached, an email code is the way out.
StartUpstream(tx, u) ==
    \/ BeginUpstream(tx, u)
    \/ IF OtpPossible(tx) THEN SendOtp(tx, FALSE) ELSE Refuse

RenderLocalPassword(tx) == Show(At(tx, "local-password"))

RenderChooser(tx) == Show(At(tx, "choose"))

\* route: where an address goes.  What the domain's mail records suggest decides
\* between the ways a common upstream is offered.
Route(tx) ==
    LET candidates == UpstreamsFor(tx.email)
    IN  IF LocalIdentityAllowed(tx.email) THEN RenderLocalPassword(tx)
        ELSE IF candidates # {} /\ candidates \cap Common = {}
        THEN IF Cardinality(candidates) = 1
             THEN \E u \in candidates : StartUpstream(tx, u)
             ELSE RenderChooser(tx)
        ELSE IF candidates # {}
        THEN \/ \E u \in candidates : StartUpstream(tx, u)
             \/ OtpPossible(tx) /\ SendOtp(tx, FALSE)
             \/ RenderChooser(tx)
        ELSE IF OtpPossible(tx) THEN SendOtp(tx, FALSE)
        ELSE IF OtpAllowed(tx.email) THEN Refuse
        ELSE IF ExplainUnknown \/ ~OtpEnabled THEN RenderEmail(tx)
        ELSE SendOtp(tx, FALSE)

WithoutOtp(tx) ==
    [tx EXCEPT !.stage = "email", !.email = NoEmail, !.otp = NoOtp, !.local = NoLocal,
               !.upstream = NoUpstream]

\* Mutant of WithoutAttempt: the upstream leg stays in the transaction.
WithoutAttemptButLeg(tx) == [tx EXCEPT !.otp = NoOtp, !.local = NoLocal]

WithoutAttempt(tx) == [tx EXCEPT !.otp = NoOtp, !.local = NoLocal, !.upstream = NoUpstream]

OfferFallback(tx) ==
    IF LocalIdentityAllowed(tx.email) THEN RenderLocalPassword(WithoutAttempt(tx))
    ELSE IF Cardinality(UpstreamsFor(tx.email)) > 1 THEN RenderChooser(WithoutAttempt(tx))
    ELSE IF OtpPossible(tx) THEN RenderEmail(WithoutOtp(tx))
    ELSE Refuse

--------------------------------------------------------------------------------
(* GET /authorize *)

\* parseAuthorizationRequest: the floor is added to what the client asks for.
Required(asked) == (IF asked # {} THEN asked ELSE DefaultAcr) \cup Floor

NewTransaction(id, ask) ==
    [id |-> id, acr |-> Required(ask.acr), prompt |-> ask.prompt, stage |-> "email",
     email |-> NoEmail, otp |-> NoOtp, local |-> NoLocal, upstream |-> NoUpstream]

Used == {tx.id : tx \in pages \cup states} \cup {code.id : code \in completing \cup issued}

\* Mutant of ValidSession: a session is taken at its word.
AnySession(session) == TRUE

\* validSession
ValidSession(session) ==
    session.local # NoLocal =>
        /\ account[session.local.id].enabled
        /\ account[session.local.id].version = session.local.version

\* A session that answers the request, if it is not too old.
Answers(session, tx) == ValidSession(session) /\ Satisfies(session.acr, tx.acr)

FromSession(tx, session) ==
    /\ Complete(tx, session, "session", 0)
    /\ UNCHANGED passed

\* Mutant of Authorize: prompt=none is looked at only when there is a session.
AuthorizeLoudly(id, ask) ==
    LET tx == NewTransaction(id, ask)
    IN  /\ id \notin Used
        /\ \/ /\ ask.prompt = "none"
              /\ \E session \in sessions : Answers(session, tx) /\ FromSession(tx, session)
           \/ /\ ask.prompt = "consent"
              /\ \E session \in sessions : Answers(session, tx)
              /\ Show(At(tx, "continue"))
           \/ /\ ask.prompt = "none" => sessions = {}
              /\ RenderEmail(tx)

\* decide, with the session the browser presents or without one.
Authorize(id, ask) ==
    LET tx == NewTransaction(id, ask)
    IN  /\ id \notin Used
        /\ \/ /\ ask.prompt = "none"
              /\ \E session \in sessions : Answers(session, tx) /\ FromSession(tx, session)
           \/ /\ ask.prompt = "consent"
              /\ \E session \in sessions : Answers(session, tx)
              /\ Show(At(tx, "continue"))
           \/ /\ ask.prompt # "none"
              /\ RenderEmail(tx)

--------------------------------------------------------------------------------
(* POST handlers: each opens the transaction it is handed *)

\* Mutant of EmailSubmit: whoever asks for an email code is sent one.
EmailSubmitUnchecked(tx, email, otpChosen) ==
    LET ready == [tx EXCEPT !.email = email]
    IN  IF otpChosen /\ OtpEnabled THEN SendOtp(ready, FALSE) ELSE Route(ready)

EmailSubmit(tx, email, otpChosen) ==
    LET ready == [tx EXCEPT !.email = email]
    IN  IF otpChosen /\ OtpEnabled /\ ~RequiresFederation(tx.acr)
        THEN SendOtp(ready, FALSE)
        ELSE Route(ready)

\* An address that is not one.
EmailRejected(tx) == RenderEmail(tx)

OtpRequest(tx) ==
    /\ tx.email # NoEmail
    /\ OtpPossible(tx)
    /\ SendOtp(tx, FALSE)

Resend(tx) ==
    /\ tx.email # NoEmail
    /\ tx.stage = "otp"
    /\ SendOtp(tx, TRUE)

\* verifyCode; an age is not counted.
CodeMatches(tx, code) ==
    /\ tx.otp.digest # <<>>
    /\ tx.otp.digest = DigestCode(tx.id, tx.email, code)
    /\ tx.otp.attempts < MaxAttempts

\* Attempts are counted up to MaxAttempts: past it nothing changes any more.
WithOtpAttempt(tx) ==
    [tx EXCEPT !.otp.attempts = IF @ < MaxAttempts THEN @ + 1 ELSE @]

OtpWrong(tx) ==
    /\ tx.stage = "otp" /\ tx.otp.present
    /\ Show(WithOtpAttempt(tx))

\* The person enters a code that was mailed to some mailbox they can read.
OtpSubmit(tx, code) ==
    /\ tx.stage = "otp" /\ tx.otp.present
    /\ CodeMatches(tx, code)
    /\ Complete(tx, [email |-> tx.email, acr |-> "otp", local |-> NoLocal], "otp", code)
    /\ UNCHANGED passed

LocalOf(e) == [id |-> e, version |-> account[e].version]

AcrForLocal(secondFactor) == IF secondFactor THEN "localMfa" ELSE "local"

\* Mutant of LocalPassword: does not ask whether the record can satisfy the request.
LocalPasswordUnchecked(tx) ==
    LET e == tx.email
    IN  /\ tx.stage = "local-password"
        /\ e \in MfaEmails
        /\ account[e].enabled
        /\ passed' = passed \cup {<<tx.id, e, account[e].version>>}
        /\ Render(At([tx EXCEPT !.local = LocalOf(e)], "local-mfa"))
        /\ UNCHANGED <<states, generated, mailed, sessions, completing, issued, account>>

\* handleLocalPassword reads the record; the password it then verifies is right, the
\* limit is not reached and the record can satisfy the request.
LocalPassword(tx) ==
    LET e == tx.email
    IN  /\ tx.stage = "local-password"
        /\ e \in LocalEmails
        /\ account[e].enabled
        /\ Satisfies(AcrForLocal(e \in MfaEmails), tx.acr)
        /\ passed' = passed \cup {<<tx.id, e, account[e].version>>}
        /\ IF e \in MfaEmails
           THEN /\ Render(At([tx EXCEPT !.local = LocalOf(e)], "local-mfa"))
                /\ UNCHANGED <<states, generated, mailed, sessions, completing, issued, account>>
           ELSE Complete(tx, [email |-> e, acr |-> "local", local |-> LocalOf(e)], "local", 0)

\* Mutant of LocalMfa: compares the version but not whose record it is.
LocalMfaOfAnybody(tx) ==
    LET e == tx.email
    IN  /\ tx.stage = "local-mfa"
        /\ e \in MfaEmails
        /\ tx.local # NoLocal
        /\ account[e].enabled
        /\ tx.local.version = account[e].version
        /\ Complete(tx, [email |-> e, acr |-> "localMfa", local |-> LocalOf(e)], "local", 0)
        /\ UNCHANGED passed

\* handleLocalMfa at the moment it has compared and replaced the record, the factor
\* being right.  The record is the one of the address the transaction names by now,
\* and must be the one the password was for.
LocalMfa(tx) ==
    LET e == tx.email
    IN  /\ tx.stage = "local-mfa"
        /\ e \in MfaEmails
        /\ tx.local # NoLocal
        /\ account[e].enabled
        /\ tx.local.id = e
        /\ tx.local.version = account[e].version
        /\ Complete(tx, [email |-> e, acr |-> "localMfa", local |-> LocalOf(e)], "local", 0)
        /\ UNCHANGED passed

Restart(tx) == RenderEmail(WithoutOtp(tx))

\* handleContinue, with the session the browser presents or without one.
ContinueWith(tx, session) ==
    /\ Answers(session, tx)
    /\ FromSession(tx, session)

ContinueWithout(tx) == RenderEmail(tx)

ChooseUpstream(tx, u) ==
    /\ tx.email # NoEmail
    /\ u \in UpstreamsFor(tx.email)
    /\ StartUpstream(tx, u)

--------------------------------------------------------------------------------
(* GET /callback *)

\* completeUpstream: the provider authenticated the owner of some address, one
\* of its own domain or of one below unless it is a common provider.
Vouches(u, email) == u \in Common \/ email \in Within[u]

\* Mutant of Linked: the address the provider vouched for is not compared.
LinkedWhatever(state, email, link) ==
    /\ link
    /\ state.email \in LocalEmails
    /\ account[state.email].enabled

\* Mutant of Linked: a disabled record is linked all the same.
LinkedThoughDisabled(state, email, link) ==
    link /\ email = state.email /\ state.email \in LocalEmails

\* Is the upstream account linked to the record of the address that was asked for?
Linked(state, email, link) ==
    /\ link
    /\ email = state.email
    /\ state.email \in LocalEmails
    /\ account[state.email].enabled

\* With a link, the session is for the local identity and the address asked for.
UpstreamSession(state, email, acr, link) ==
    IF Linked(state, email, link)
    THEN [email |-> state.email, acr |-> acr, local |-> LocalOf(state.email)]
    ELSE [email |-> email, acr |-> acr, local |-> NoLocal]

Callback(state, email, acr, link) ==
    /\ Vouches(state.upstream, email)
    /\ Satisfies(acr, state.acr)
    /\ Complete([state EXCEPT !.upstream = NoUpstream],
                UpstreamSession(state, email, acr, link), "upstream", email)
    /\ UNCHANGED passed

\* The provider reports an error, or the exchange fails.
CallbackFails(state) == OfferFallback(state)

--------------------------------------------------------------------------------

\* An operator changes the record of a local identity.
Administer(e) ==
    /\ \/ account' = [account EXCEPT ![e].enabled = ~@]
       \/ /\ account[e].version < MaxVersion
          /\ account' = [account EXCEPT ![e].version = @ + 1]
    /\ UNCHANGED <<pages, states, generated, mailed, sessions, completing, issued, passed>>

Post(tx) ==
    \/ \E email \in Emails, otpChosen \in BOOLEAN : EmailSubmit(tx, email, otpChosen)
    \/ EmailRejected(tx)
    \/ OtpRequest(tx)
    \/ Resend(tx)
    \/ OtpWrong(tx)
    \/ \E mail \in mailed : OtpSubmit(tx, mail.code)
    \/ LocalPassword(tx)
    \/ LocalMfa(tx)
    \/ Restart(tx)
    \/ \E session \in sessions : ContinueWith(tx, session)
    \/ ContinueWithout(tx)
    \/ \E u \in Upstreams : ChooseUpstream(tx, u)

Next ==
    \/ \E id \in TxIds, ask \in Asks : Authorize(id, ask)
    \/ \E tx \in pages : Post(tx)
    \/ \E state \in states :
          \/ \E email \in Emails, acr \in {"fed", "fedMfa"}, link \in BOOLEAN :
                Callback(state, email, acr, link)
          \/ CallbackFails(state)
    \/ \E code \in completing : Issue(code)
    \/ \E e \in LocalEmails : Administer(e)

Spec == Init /\ [][Next]_vars

--------------------------------------------------------------------------------
(* Properties *)

Stages == {"email", "choose", "otp", "local-password", "local-mfa", "continue"}

Digests == {<<>>} \cup (TxIds \X Emails \X (1..MaxCodes))

Transactions ==
    [id : TxIds, acr : SUBSET Acrs, prompt : {"none", "login", "consent"}, stage : Stages,
     email : Emails \cup {NoEmail},
     otp : [digest : Digests, attempts : 0..MaxAttempts, resends : 0..MaxResends, present : BOOLEAN],
     local : [id : LocalEmails \cup {NoEmail}, version : 0..MaxVersion],
     upstream : Upstreams \cup {NoUpstream}]

\* Every page is a transaction without an upstream leg, every state one with it.
TypeOK ==
    /\ pages \subseteq {tx \in Transactions : tx.upstream = NoUpstream}
    /\ states \subseteq {tx \in Transactions : tx.upstream \in Upstreams}
    /\ generated \in 0..MaxCodes
    /\ mailed \subseteq [to : OtpEmails, code : 1..MaxCodes]
    /\ account \in [LocalEmails -> [version : 1..MaxVersion, enabled : BOOLEAN]]

\* However pages are replayed, a code is only ever issued on an authentication
\* that meets the acr_values of its request.  The handler that accepts an email
\* code does not look at them: it relies on no such code being mailed in a
\* transaction it could not complete (src/endpoints/authorize.js:355, 372, 527).
IssuedMeetsRequest == \A code \in issued : Satisfies(code.acr, code.asked)

\* A sign-in by email code is for an address to which the very code entered was
\* mailed.  A page can be carried to another address with the code state of the
\* first (a send that is over the limit keeps it), and a decoy address has a
\* digest too; the digest is bound to the address (src/otp.js:62-70).
OtpProvesMailbox ==
    \A code \in issued :
        code.by = "otp" => [to |-> code.email, code |-> code.proof] \in mailed

\* A local sign-in rests on the password of the same record at the same
\* security_version, verified in the same transaction, even where the page with
\* the second factor was carried to another address in between
\* (src/endpoints/authorize.js:694-698).
PasswordBeforeFactor ==
    \A code \in issued :
        code.by = "local" => <<code.id, code.email, code.local.version>> \in passed

\* The record of a code's local identity is enabled and has the code's version.
Stands(code) ==
    code.local # NoLocal =>
        /\ account[code.local.id].enabled
        /\ account[code.local.id].version = code.local.version

\* A record that was disabled, or moved to a new security_version, before a request
\* reads it signs nobody in, whether the request rests on a session, a factor or an
\* upstream link; and the code carries the version of that reading, not of a later
\* one.  So what an operator changes while the request waits for the hash, the store
\* or the seal cannot stop the code, and /token, which reads the record again,
\* refuses it (src/endpoints/authorize.js:628-671, 921-946, 1065-1070;
\* src/endpoints/token.js:42-52).
StaleAccountIssuesNothing ==
    [][/\ \A code \in completing' \ completing : Stands(code)
       /\ issued' \ issued \subseteq completing]_vars

\* A sign-in by an upstream provider is for the address the provider vouched for
\* in that very callback, although a linked account takes the address, and the
\* stable subject, of the local identity the transaction named
\* (src/endpoints/authorize.js:906-939).
UpstreamVouches ==
    \A code \in issued : code.by = "upstream" => code.email = code.proof

\* Whichever way a sign-in was made, the address of the code issued was proved that
\* way: by the code mailed to it, by its password and factor, or by the provider
\* (src/endpoints/authorize.js:527, 694, 906).
AddressIsProved == OtpProvesMailbox /\ PasswordBeforeFactor /\ UpstreamVouches

\* prompt=none never puts a page on screen, nor starts anything that would
\* (src/endpoints/authorize.js:109-111).
SilentNeverRenders == \A tx \in pages \cup states : tx.prompt # "none"

\* The sealed values handed out are ones their readers expect: a page holds no
\* upstream leg, also when it is offered in place of one that failed, a state holds
\* one, and a silent request has left neither (src/endpoints/authorize.js:109, 974).
PagesAreSound == TypeOK /\ SilentNeverRenders
================================================================================
