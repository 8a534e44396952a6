----------------------------- MODULE SignInProofs -----------------------------
(***************************************************************************)
(* Proofs about SignIn, for any addresses, requests, pages and providers.   *)
(***************************************************************************)
EXTENDS SignIn, TLAPS

Otps == [digest : Digests, attempts : 0..MaxAttempts, resends : 0..MaxResends, present : BOOLEAN]
Locals == [id : LocalEmails \cup {NoEmail}, version : 0..MaxVersion]

\* What every sealed transaction keeps, page or state: who passed a password on
\* it, what it may still be completed with, and whose code its digest is of.
Sound(tx) ==
    /\ tx \in Transactions
    /\ tx.prompt # "none"
    /\ tx.local # NoLocal => <<tx.id, tx.local.id, tx.local.version>> \in passed
    /\ tx.stage = "local-mfa" => Satisfies("localMfa", tx.acr)
    /\ tx.otp.digest # <<>> =>
          /\ tx.otp.digest[3] <= generated
          /\ \A mail \in mailed : mail.code = tx.otp.digest[3] => mail.to = tx.otp.digest[2]

\* A page that asks for an email code can be completed with one.
Page(tx) ==
    /\ Sound(tx)
    /\ tx.upstream = NoUpstream
    /\ tx.stage = "otp" /\ tx.email \in OtpEmails => ~RequiresFederation(tx.acr)

\* A code meets its request, and its address was proved the way it is issued.
Proved(code) ==
    /\ Satisfies(code.acr, code.asked)
    /\ code.by = "otp" => [to |-> code.email, code |-> code.proof] \in mailed
    /\ code.by = "local" => <<code.id, code.email, code.local.version>> \in passed
    /\ code.by = "upstream" => code.email = code.proof

\* That is so from the moment it is decided upon.
CodesProved == \A code \in completing \cup issued : Proved(code)

SInv ==
    /\ TypeOK
    /\ \A tx \in pages : Page(tx)
    /\ \A tx \in states : Sound(tx)
    /\ \A mail \in mailed : mail.code <= generated
    /\ CodesProved

\* The fields of a transaction.
LEMMA Fields ==
    ASSUME NEW tx \in Transactions
    PROVE  /\ tx.id \in TxIds /\ tx.acr \in SUBSET Acrs /\ tx.stage \in Stages
           /\ tx.prompt \in {"none", "login", "consent"} /\ tx.email \in Emails \cup {NoEmail}
           /\ tx.otp \in Otps /\ tx.local \in Locals /\ tx.upstream \in Upstreams \cup {NoUpstream}
  BY DEF Transactions, Otps, Locals

\* The fields of the state of an email code.
LEMMA OtpFields ==
    ASSUME NEW otp \in Otps
    PROVE  /\ otp.digest \in Digests /\ otp.attempts \in 0..MaxAttempts
           /\ otp.resends \in 0..MaxResends /\ otp.present \in BOOLEAN
  BY DEF Otps

\* Bounds are numbers.
LEMMA BoundsAreNumbers ==
    /\ MaxAttempts \in Nat /\ MaxResends \in Nat /\ MaxPages \in Nat
    /\ MaxCodes \in Nat /\ MaxIssued \in Nat /\ MaxVersion \in Nat
  BY SignInAssumption

\* Nothing yet is of the right type.
LEMMA Blank == NoOtp \in Otps /\ NoOtp.digest = <<>> /\ NoLocal \in Locals
  <1>1. <<>> \in Digests
    BY DEF Digests
  <1> QED
    BY <1>1, BoundsAreNumbers DEF NoOtp, NoLocal, Otps, Locals

\* A digest is of a transaction, an address and a code.
LEMMA DigestParts ==
    ASSUME NEW id \in TxIds, NEW email \in Emails, NEW code \in 1..MaxCodes
    PROVE  /\ DigestCode(id, email, code) \in Digests /\ DigestCode(id, email, code) # <<>>
           /\ DigestCode(id, email, code)[1] = id /\ DigestCode(id, email, code)[2] = email
           /\ DigestCode(id, email, code)[3] = code
  BY DEF DigestCode, Digests

-------------------------------------------------------------------------------
\* A transaction at another stage.
LEMMA SoundAt ==
    ASSUME NEW tx, Sound(tx), NEW stage \in Stages,
           stage = "local-mfa" => Satisfies("localMfa", tx.acr)
    PROVE  /\ Sound(At(tx, stage)) /\ At(tx, stage).upstream = tx.upstream
           /\ At(tx, stage).stage = stage /\ At(tx, stage).acr = tx.acr
  <1>1. tx \in Transactions
    BY DEF Sound
  <1>2. /\ At(tx, stage) \in Transactions /\ At(tx, stage).stage = stage
        /\ At(tx, stage).id = tx.id /\ At(tx, stage).acr = tx.acr /\ At(tx, stage).prompt = tx.prompt
        /\ At(tx, stage).otp = tx.otp /\ At(tx, stage).local = tx.local
        /\ At(tx, stage).upstream = tx.upstream
    BY <1>1 DEF At, Transactions
  <1> QED
    BY <1>2 DEF Sound

\* A transaction for another address.
LEMMA SoundFor ==
    ASSUME NEW tx, Sound(tx), NEW email \in Emails
    PROVE  LET ready == [tx EXCEPT !.email = email]
           IN  /\ Sound(ready) /\ ready.upstream = tx.upstream /\ ready.email = email
               /\ ready.acr = tx.acr /\ ready.stage = tx.stage
  <1> DEFINE ready == [tx EXCEPT !.email = email]
  <1>1. tx \in Transactions
    BY DEF Sound
  <1>2. /\ ready \in Transactions /\ ready.stage = tx.stage /\ ready.email = email
        /\ ready.id = tx.id /\ ready.acr = tx.acr /\ ready.prompt = tx.prompt
        /\ ready.otp = tx.otp /\ ready.local = tx.local /\ ready.upstream = tx.upstream
    BY <1>1 DEF Transactions
  <1> HIDE DEF ready
  <1>3. Sound(ready)
    BY <1>2 DEF Sound
  <1> QED
    BY <1>2, <1>3 DEF ready

\* A transaction with a leg, or without.
LEMMA SoundLeg ==
    ASSUME NEW tx, Sound(tx), NEW u \in Upstreams \cup {NoUpstream}
    PROVE  LET leg == [tx EXCEPT !.upstream = u]
           IN  Sound(leg) /\ leg.upstream = u /\ leg.acr = tx.acr /\ leg.id = tx.id
  <1> DEFINE leg == [tx EXCEPT !.upstream = u]
  <1>1. tx \in Transactions
    BY DEF Sound
  <1>2. /\ leg \in Transactions /\ leg.stage = tx.stage /\ leg.email = tx.email
        /\ leg.id = tx.id /\ leg.acr = tx.acr /\ leg.prompt = tx.prompt
        /\ leg.otp = tx.otp /\ leg.local = tx.local /\ leg.upstream = u
    BY <1>1 DEF Transactions
  <1> HIDE DEF leg
  <1>3. Sound(leg)
    BY <1>2 DEF Sound
  <1> QED
    BY <1>2, <1>3 DEF leg

\* A transaction that starts over.
LEMMA SoundWithout ==
    ASSUME NEW tx, Sound(tx)
    PROVE  /\ Sound(WithoutOtp(tx)) /\ WithoutOtp(tx).upstream = NoUpstream
           /\ Sound(WithoutAttempt(tx)) /\ WithoutAttempt(tx).upstream = NoUpstream
  <1>1. tx \in Transactions
    BY DEF Sound
  <1>2. /\ WithoutOtp(tx) \in Transactions /\ WithoutOtp(tx).upstream = NoUpstream
        /\ WithoutOtp(tx).stage = "email" /\ WithoutOtp(tx).otp = NoOtp
        /\ WithoutOtp(tx).local = NoLocal /\ WithoutOtp(tx).prompt = tx.prompt
    BY <1>1, Blank DEF WithoutOtp, Transactions, Otps, Locals, Stages
  <1>3. /\ WithoutAttempt(tx) \in Transactions /\ WithoutAttempt(tx).upstream = NoUpstream
        /\ WithoutAttempt(tx).stage = tx.stage /\ WithoutAttempt(tx).otp = NoOtp
        /\ WithoutAttempt(tx).local = NoLocal /\ WithoutAttempt(tx).prompt = tx.prompt
        /\ WithoutAttempt(tx).acr = tx.acr
    BY <1>1, Blank DEF WithoutAttempt, Transactions, Otps, Locals
  <1> QED
    BY <1>2, <1>3, Blank DEF Sound

\* One attempt more.
LEMMA PageAttempt ==
    ASSUME NEW tx, Page(tx)
    PROVE  Page(WithOtpAttempt(tx))
  <1> DEFINE n == IF tx.otp.attempts < MaxAttempts THEN tx.otp.attempts + 1 ELSE tx.otp.attempts
             otp == [tx.otp EXCEPT !.attempts = n]
  <1>1. tx \in Transactions /\ tx.otp \in Otps
    BY Fields DEF Page, Sound
  <1>2. n \in 0..MaxAttempts
    BY <1>1, OtpFields, BoundsAreNumbers
  <1>3. otp \in Otps /\ otp.digest = tx.otp.digest
    BY <1>1, <1>2 DEF Otps
  <1>4. WithOtpAttempt(tx) = [tx EXCEPT !.otp = otp]
    BY <1>1 DEF WithOtpAttempt, Transactions
  <1> HIDE DEF otp
  <1>5. /\ WithOtpAttempt(tx) \in Transactions /\ WithOtpAttempt(tx).otp = otp
        /\ WithOtpAttempt(tx).id = tx.id /\ WithOtpAttempt(tx).acr = tx.acr
        /\ WithOtpAttempt(tx).prompt = tx.prompt /\ WithOtpAttempt(tx).local = tx.local
        /\ WithOtpAttempt(tx).upstream = tx.upstream /\ WithOtpAttempt(tx).stage = tx.stage
        /\ WithOtpAttempt(tx).email = tx.email
    BY <1>1, <1>3, <1>4 DEF Transactions, Otps
  <1> QED
    BY <1>3, <1>5 DEF Page, Sound

\* The fields of a transaction for which a code was made.
LEMMA WithOtpFields ==
    ASSUME NEW tx \in Transactions, NEW digest \in Digests, NEW resends \in 0..MaxResends
    PROVE  LET new == WithOtp(tx, digest, resends)
           IN  /\ new \in Transactions /\ new.otp.digest = digest /\ new.stage = "otp"
               /\ new.id = tx.id /\ new.acr = tx.acr /\ new.prompt = tx.prompt
               /\ new.local = tx.local /\ new.upstream = tx.upstream /\ new.email = tx.email
  <1> DEFINE otp == [digest |-> digest, attempts |-> 0, resends |-> resends, present |-> TRUE]
  <1>1. otp \in Otps /\ otp.digest = digest
    BY BoundsAreNumbers DEF Otps
  <1>2. WithOtp(tx, digest, resends) = [tx EXCEPT !.stage = "otp", !.otp = otp]
    BY DEF WithOtp
  <1> HIDE DEF otp
  <1> QED
    BY <1>1, <1>2 DEF Transactions, Otps, Stages

-------------------------------------------------------------------------------
\* A sealed transaction stays sound: what it relies on is never taken back.
LEMMA SoundStays ==
    ASSUME NEW tx, Sound(tx), UNCHANGED <<generated, mailed>>, passed \subseteq passed'
    PROVE  Sound(tx)'
  BY DEF Sound

\* And a page a page.
LEMMA PageStays ==
    ASSUME NEW tx, Page(tx), UNCHANGED <<generated, mailed>>, passed \subseteq passed'
    PROVE  Page(tx)'
  BY SoundStays DEF Page

\* A code keeps its proof.
LEMMA IssuedStays ==
    ASSUME SInv, completing' \cup issued' \subseteq completing \cup issued,
           mailed \subseteq mailed', passed \subseteq passed'
    PROVE  CodesProved'
  BY DEF SInv, CodesProved, Proved

\* A page is shown.
LEMMA Showing ==
    ASSUME SInv, NEW tx, Page(tx), Show(tx)
    PROVE  SInv'
  <1>1. /\ pages' = pages \cup {tx}
        /\ UNCHANGED <<states, generated, mailed, sessions, completing, issued, account, passed>>
    BY DEF Show, Render
  <1>2. TypeOK'
    BY <1>1 DEF SInv, TypeOK, Page, Sound
  <1>3. \A t \in pages' : Page(t)'
    BY <1>1, PageStays DEF SInv
  <1>4. \A t \in states' : Sound(t)'
    BY <1>1, SoundStays DEF SInv
  <1>5. CodesProved'
    BY <1>1, IssuedStays
  <1>6. \A mail \in mailed' : mail.code <= generated'
    BY <1>1 DEF SInv
  <1> QED
    BY <1>2, <1>3, <1>4, <1>5, <1>6 DEF SInv

\* A page at a stage that asks for no email code.
LEMMA ShowingAt ==
    ASSUME SInv, NEW tx, Sound(tx), tx.upstream = NoUpstream,
           NEW stage \in Stages \ {"otp", "local-mfa"}, Show(At(tx, stage))
    PROVE  SInv'
  <1>1. Page(At(tx, stage))
    BY SoundAt DEF Page
  <1> QED
    BY <1>1, Showing

\* A code is made, and mailed or not.
LEMMA Sending ==
    ASSUME SInv, NEW tx, Sound(tx), tx.upstream = NoUpstream, tx.email \in Emails,
           tx.email \in OtpEmails => ~RequiresFederation(tx.acr),
           NEW resends \in 0..MaxResends, OtpSent(tx, resends)
    PROVE  SInv'
  <1>0. PICK code : code = generated + 1
    OBVIOUS
  <1>1. tx \in Transactions /\ tx.id \in TxIds /\ code \in 1..MaxCodes
    BY <1>0, BoundsAreNumbers, Fields DEF Sound, OtpSent, SInv, TypeOK
  <1> DEFINE digest == DigestCode(tx.id, tx.email, code)
             new == WithOtp(tx, digest, resends)
  <1>2. /\ digest \in Digests /\ digest # <<>> /\ digest[2] = tx.email /\ digest[3] = code
    BY <1>1, DigestParts
  <1>3. /\ new \in Transactions /\ new.otp.digest = digest /\ new.stage = "otp"
        /\ new.id = tx.id /\ new.acr = tx.acr /\ new.prompt = tx.prompt
        /\ new.local = tx.local /\ new.upstream = tx.upstream /\ new.email = tx.email
    <2> HIDE DEF digest
    <2> QED
      BY <1>1, <1>2, WithOtpFields
  <1>4. /\ pages' = pages \cup {new} /\ generated' = code
        /\ \/ OtpAllowed(tx.email) /\ mailed' = mailed \cup {[to |-> tx.email, code |-> code]}
           \/ UNCHANGED mailed
        /\ UNCHANGED <<states, sessions, completing, issued, account, passed>>
    BY <1>0 DEF OtpSent, Render
  <1> HIDE DEF digest, new
  <1>5. generated \in Nat /\ code \in Nat /\ generated < code /\ \A mail \in mailed : mail.code \in Nat
    BY <1>0 DEF SInv, TypeOK
  <1>6. \A mail \in mailed' : mail \in mailed \/ (mail.code = code /\ mail.to = tx.email)
    BY <1>4
  <1>7. ASSUME NEW t, Sound(t)
        PROVE  Sound(t)'
    <2>1. t \in Transactions /\ t.otp.digest \in Digests
      BY <1>7, Fields, OtpFields DEF Sound
    <2>2. CASE t.otp.digest = <<>>
      BY <1>4, <1>7, <2>2 DEF Sound
    <2>3. CASE t.otp.digest # <<>>
      <3>1. t.otp.digest[3] \in Nat /\ t.otp.digest[3] <= generated
        BY <1>7, <2>1, <2>3 DEF Sound, Digests
      <3>2. t.otp.digest[3] <= code /\ t.otp.digest[3] # code
        BY <1>5, <3>1
      <3> QED
        BY <1>4, <1>6, <1>7, <3>2 DEF Sound
    <2> QED
      BY <2>2, <2>3
  <1>8. Page(new)'
    <2>1. \A mail \in mailed' : mail.code = code => mail.to = tx.email
      BY <1>5, <1>6 DEF SInv
    <2>2. code <= generated'
      BY <1>4, <1>5
    <2> QED
      BY <1>2, <1>3, <1>4, <2>1, <2>2 DEF Page, Sound
  <1>9. \A t \in pages' : Page(t)'
    BY <1>4, <1>7, <1>8 DEF SInv, Page
  <1>10. \A t \in states' : Sound(t)'
    BY <1>4, <1>7 DEF SInv
  <1>11. \A mail \in mailed' : mail.code <= generated'
    BY <1>4, <1>5, <1>6 DEF SInv
  <1>12. TypeOK'
    <2>1. mailed' \subseteq [to : OtpEmails, code : 1..MaxCodes]
      BY <1>1, <1>4 DEF OtpAllowed, SInv, TypeOK
    <2>2. generated' \in 0..MaxCodes
      BY <1>1, <1>4
    <2>3. new \in Transactions /\ new.upstream = NoUpstream
      BY <1>3
    <2> QED
      BY <1>4, <2>1, <2>2, <2>3 DEF SInv, TypeOK
  <1>13. CodesProved'
    BY <1>4, IssuedStays
  <1> QED
    BY <1>9, <1>10, <1>11, <1>12, <1>13 DEF SInv

\* sendOtp, for an address that a code is right for if it may have one at all.
LEMMA SendingOtp ==
    ASSUME SInv, NEW tx, Sound(tx), tx.upstream = NoUpstream, tx.email \in Emails,
           tx.email \in OtpEmails => ~RequiresFederation(tx.acr),
           NEW resend \in BOOLEAN, SendOtp(tx, resend)
    PROVE  SInv'
  <1> DEFINE resends == IF resend THEN tx.otp.resends + 1 ELSE 0
  <1>1. Page(tx)
    BY DEF Page
  <1>2. tx \in Transactions /\ tx.otp \in Otps
    BY Fields DEF Sound
  <1>3. resends \in Nat
    BY <1>2, OtpFields, BoundsAreNumbers
  <1>4. CASE resends > MaxResends
    BY <1>1, <1>4, Showing DEF SendOtp
  <1>5. CASE ~(resends > MaxResends)
    <2>1. resends \in 0..MaxResends /\ (OtpLimited(tx, resends) \/ OtpSent(tx, resends))
      BY <1>3, <1>5, BoundsAreNumbers DEF SendOtp
    <2> HIDE DEF resends
    <2>2. CASE OtpSent(tx, resends)
      BY <2>1, <2>2, Sending
    <2>3. CASE OtpLimited(tx, resends)
      <3>1. CASE tx.otp.present
        BY <1>1, <2>3, <3>1, Showing DEF OtpLimited
      <3>2. CASE ~tx.otp.present
        <4> DEFINE new == WithOtp(tx, <<>>, resends)
        <4>1. <<>> \in Digests
          BY DEF Digests
        <4>2. /\ new \in Transactions /\ new.otp.digest = <<>> /\ new.stage = "otp"
              /\ new.id = tx.id /\ new.acr = tx.acr /\ new.prompt = tx.prompt
              /\ new.local = tx.local /\ new.upstream = tx.upstream /\ new.email = tx.email
          BY <1>2, <2>1, <4>1, WithOtpFields
        <4>3. Show(new)
          BY <2>3, <3>2 DEF OtpLimited
        <4> HIDE DEF new
        <4>4. Page(new)
          BY <4>2 DEF Page, Sound
        <4> QED
          BY <4>3, <4>4, Showing
      <3> QED
        BY <3>1, <3>2
    <2> QED
      BY <2>1, <2>2, <2>3
  <1> QED
    BY <1>4, <1>5

\* Nothing happens.
LEMMA Stuttering ==
    ASSUME SInv, UNCHANGED vars
    PROVE  SInv'
  <1>1. \A t \in pages' : Page(t)'
    BY PageStays DEF SInv, vars
  <1>2. \A t \in states' : Sound(t)'
    BY SoundStays DEF SInv, vars
  <1>3. CodesProved'
    BY IssuedStays DEF vars
  <1> QED
    BY <1>1, <1>2, <1>3 DEF SInv, TypeOK, vars

\* A leg begins, or an email code takes its place.
LEMMA Starting ==
    ASSUME SInv, NEW tx, Sound(tx), tx.upstream = NoUpstream, tx.email \in Emails,
           NEW u \in Upstreams, StartUpstream(tx, u)
    PROVE  SInv'
  <1>1. CASE BeginUpstream(tx, u)
    <2> DEFINE state == [tx EXCEPT !.upstream = u]
    <2>1. Sound(state) /\ state.upstream = u
      BY SoundLeg
    <2>2. /\ states' = states \cup {state}
          /\ UNCHANGED <<pages, generated, mailed, sessions, completing, issued, account, passed>>
      BY <1>1 DEF BeginUpstream
    <2> HIDE DEF state
    <2>3. TypeOK'
      BY <2>1, <2>2 DEF SInv, TypeOK, Sound
    <2>4. \A t \in pages' : Page(t)'
      BY <2>2, PageStays DEF SInv
    <2>5. \A t \in states' : Sound(t)'
      BY <2>1, <2>2, SoundStays DEF SInv
    <2>6. CodesProved'
      BY <2>2, IssuedStays
    <2> QED
      BY <2>2, <2>3, <2>4, <2>5, <2>6 DEF SInv
  <1>2. CASE OtpPossible(tx) /\ SendOtp(tx, FALSE)
    BY <1>2, SendingOtp DEF OtpPossible
  <1>3. CASE Refuse
    BY <1>3, Stuttering DEF Refuse
  <1> QED
    BY <1>1, <1>2, <1>3 DEF StartUpstream

\* route, for a transaction with an address.
LEMMA Routing ==
    ASSUME SInv, NEW tx, Sound(tx), tx.upstream = NoUpstream, tx.email \in Emails, Route(tx)
    PROVE  SInv'
  <1> UpstreamsFor(tx.email) \subseteq Upstreams
    BY SignInAssumption DEF UpstreamsFor
  <1>1. CASE RenderLocalPassword(tx) \/ RenderChooser(tx) \/ RenderEmail(tx)
    BY <1>1, ShowingAt DEF RenderLocalPassword, RenderChooser, RenderEmail, Stages
  <1>2. CASE \E u \in UpstreamsFor(tx.email) : StartUpstream(tx, u)
    BY <1>2, Starting
  <1>3. CASE OtpPossible(tx) /\ SendOtp(tx, FALSE)
    BY <1>3, SendingOtp DEF OtpPossible
  <1>4. CASE ~OtpAllowed(tx.email) /\ SendOtp(tx, FALSE)
    BY <1>4, SendingOtp DEF OtpAllowed
  <1>5. CASE Refuse
    BY <1>5, Stuttering DEF Refuse
  <1> QED
    BY <1>1, <1>2, <1>3, <1>4, <1>5 DEF Route

\* A leg failed: nothing of it is left in what is offered instead.
LEMMA Offering ==
    ASSUME SInv, NEW tx, Sound(tx), OfferFallback(tx)
    PROVE  SInv'
  <1>1. CASE \/ RenderLocalPassword(WithoutAttempt(tx)) \/ RenderChooser(WithoutAttempt(tx))
             \/ RenderEmail(WithoutOtp(tx))
    BY <1>1, SoundWithout, ShowingAt DEF RenderLocalPassword, RenderChooser, RenderEmail, Stages
  <1>2. CASE Refuse
    BY <1>2, Stuttering DEF Refuse
  <1> QED
    BY <1>1, <1>2 DEF OfferFallback

\* A code is decided upon, for a session that meets the request, with its proof.
LEMMA Completing ==
    ASSUME SInv, NEW tx, NEW session, NEW by, NEW proof,
           Complete(tx, session, by, proof), passed \subseteq passed',
           Satisfies(session.acr, tx.acr),
           by = "otp" => [to |-> session.email, code |-> proof] \in mailed,
           by = "local" => <<tx.id, session.email, session.local.version>> \in passed',
           by = "upstream" => session.email = proof
    PROVE  SInv'
  <1> DEFINE code == [id |-> tx.id, asked |-> tx.acr, prompt |-> tx.prompt, by |-> by,
                      proof |-> proof, email |-> session.email, acr |-> session.acr,
                      local |-> session.local]
  <1>1. /\ completing' = completing \cup {code}
        /\ UNCHANGED <<pages, states, generated, mailed, issued, account>>
    BY DEF Complete
  <1>2. /\ code.id = tx.id /\ code.asked = tx.acr /\ code.by = by /\ code.proof = proof
        /\ code.email = session.email /\ code.acr = session.acr /\ code.local = session.local
    OBVIOUS
  <1> HIDE DEF code
  <1>3. Proved(code)'
    BY <1>1, <1>2 DEF Proved
  <1>4. CodesProved'
    BY <1>1, <1>3 DEF SInv, CodesProved, Proved
  <1>5. \A t \in pages' : Page(t)'
    BY <1>1, PageStays DEF SInv
  <1>6. \A t \in states' : Sound(t)'
    BY <1>1, SoundStays DEF SInv
  <1>7. TypeOK' /\ \A mail \in mailed' : mail.code <= generated'
    BY <1>1 DEF SInv, TypeOK
  <1> QED
    BY <1>3, <1>4, <1>5, <1>6, <1>7 DEF SInv

\* A code is sealed and sent.
LEMMA Issuing ==
    ASSUME SInv, NEW code \in completing, Issue(code)
    PROVE  SInv'
  <1>1. /\ completing' \cup issued' \subseteq completing \cup issued
        /\ UNCHANGED <<pages, states, generated, mailed, account, passed>>
    BY DEF Issue
  <1>2. \A t \in pages' : Page(t)'
    BY <1>1, PageStays DEF SInv
  <1>3. \A t \in states' : Sound(t)'
    BY <1>1, SoundStays DEF SInv
  <1>4. CodesProved'
    BY <1>1, IssuedStays
  <1> QED
    BY <1>1, <1>2, <1>3, <1>4 DEF SInv, TypeOK

\* An email code satisfies whatever does not ask for a provider.
LEMMA OtpSatisfies ==
    ASSUME NEW requested, ~RequiresFederation(requested)
    PROVE  Satisfies("otp", requested)
  BY DEF RequiresFederation, Satisfies, Meets, Strength, IsLocal

-------------------------------------------------------------------------------
\* A request begins.
LEMMA Authorizing ==
    ASSUME SInv, NEW id \in TxIds, NEW ask \in Asks, Authorize(id, ask)
    PROVE  SInv'
  <1> DEFINE tx == NewTransaction(id, ask)
  <1>1. /\ ask.acr \in SUBSET Acrs /\ ask.prompt \in {"none", "login", "consent"}
        /\ Required(ask.acr) \in SUBSET Acrs
    BY SignInAssumption DEF Required
  <1>2. /\ tx \in Transactions /\ tx.prompt = ask.prompt /\ tx.stage = "email"
        /\ tx.upstream = NoUpstream /\ tx.local = NoLocal /\ tx.otp = NoOtp
    BY <1>1, Blank DEF NewTransaction, Transactions, Otps, Locals, Stages
  <1>3. \/ \E session \in sessions : Answers(session, tx) /\ FromSession(tx, session)
        \/ ask.prompt # "none" /\ (Show(At(tx, "continue")) \/ Show(At(tx, "email")))
    BY DEF Authorize, RenderEmail
  <1> HIDE DEF tx
  <1>4. CASE \E session \in sessions : Answers(session, tx) /\ FromSession(tx, session)
    BY <1>4, Completing DEF Answers, FromSession
  <1>5. CASE ask.prompt # "none" /\ (Show(At(tx, "continue")) \/ Show(At(tx, "email")))
    <2>1. Sound(tx)
      BY <1>2, <1>5, Blank DEF Sound
    <2> QED
      BY <1>2, <1>5, <2>1, ShowingAt DEF Stages
  <1> QED
    BY <1>3, <1>4, <1>5

\* The right password.
LEMMA Passing ==
    ASSUME SInv, NEW tx \in pages, LocalPassword(tx)
    PROVE  SInv'
  <1>1. Page(tx) /\ Sound(tx) /\ tx \in Transactions /\ tx.upstream = NoUpstream
    BY DEF SInv, Page, Sound
  <1>2. PICK e, version : e = tx.email /\ version = account[e].version
    OBVIOUS
  <1>3. /\ e \in LocalEmails /\ e # NoEmail /\ version \in 1..MaxVersion
        /\ passed' = passed \cup {<<tx.id, e, version>>}
    BY <1>2, SignInAssumption DEF LocalPassword, SInv, TypeOK
  <1> DEFINE local == [id |-> e, version |-> version]
  <1>4. LocalOf(e) = local /\ local \in Locals /\ local.id = e /\ local.version = version
    BY <1>2, <1>3, BoundsAreNumbers DEF LocalOf, Locals
  <1>5. CASE e \in MfaEmails
    <2> DEFINE next == At([tx EXCEPT !.local = local], "local-mfa")
    <2>1. /\ pages' = pages \cup {next} /\ Satisfies("localMfa", tx.acr)
          /\ UNCHANGED <<states, generated, mailed, sessions, completing, issued, account>>
      BY <1>2, <1>4, <1>5 DEF LocalPassword, Render, AcrForLocal
    <2> HIDE DEF local
    <2>2. /\ next \in Transactions /\ next.local = local /\ next.stage = "local-mfa"
          /\ next.id = tx.id /\ next.acr = tx.acr /\ next.prompt = tx.prompt
          /\ next.otp = tx.otp /\ next.upstream = tx.upstream /\ next.email = tx.email
      BY <1>1, <1>4 DEF At, Transactions, Locals, Stages
    <2> HIDE DEF next
    <2>3. Page(next)'
      <3>1. /\ next.prompt # "none" /\ next.upstream = NoUpstream
            /\ next.otp.digest # <<>> =>
                  /\ next.otp.digest[3] <= generated
                  /\ \A mail \in mailed : mail.code = next.otp.digest[3] => mail.to = next.otp.digest[2]
        BY <1>1, <2>2 DEF Page, Sound
      <3>2. <<next.id, next.local.id, next.local.version>> \in passed'
        BY <1>3, <1>4, <2>2
      <3> QED
        BY <2>1, <2>2, <3>1, <3>2 DEF Page, Sound
    <2>4. \A t \in pages' : Page(t)'
      BY <1>3, <2>1, <2>3, PageStays DEF SInv
    <2>5. \A t \in states' : Sound(t)'
      BY <1>3, <2>1, SoundStays DEF SInv
    <2>6. CodesProved'
      BY <1>3, <2>1, IssuedStays
    <2>7. TypeOK'
      <3>1. next \in Transactions /\ next.upstream = NoUpstream
        BY <1>1, <2>2
      <3> QED
        BY <2>1, <3>1 DEF SInv, TypeOK
    <2> QED
      BY <2>1, <2>4, <2>5, <2>6, <2>7 DEF SInv
  <1>6. CASE e \notin MfaEmails
    <2> DEFINE session == [email |-> e, acr |-> "local", local |-> local]
    <2>1. Complete(tx, session, "local", 0) /\ Satisfies("local", tx.acr)
      BY <1>2, <1>4, <1>6 DEF LocalPassword, AcrForLocal
    <2>2. session.email = e /\ session.acr = "local" /\ session.local = local
      OBVIOUS
    <2> HIDE DEF session, local
    <2>3. <<tx.id, session.email, session.local.version>> \in passed'
      BY <1>3, <1>4, <2>2
    <2> QED
      BY <1>3, <2>1, <2>2, <2>3, Completing
  <1> QED
    BY <1>5, <1>6

\* The right second factor.
LEMMA Factoring ==
    ASSUME SInv, NEW tx \in pages, LocalMfa(tx)
    PROVE  SInv'
  <1>1. Sound(tx)
    BY DEF SInv, Page
  <1>2. PICK e, local : e = tx.email /\ local = LocalOf(e)
    OBVIOUS
  <1> DEFINE session == [email |-> e, acr |-> "localMfa", local |-> local]
  <1>3. session.email = e /\ session.acr = "localMfa" /\ session.local = local
    OBVIOUS
  <1>4. Complete(tx, session, "local", 0) /\ UNCHANGED passed
    BY <1>2 DEF LocalMfa
  <1>5. Satisfies("localMfa", tx.acr)
    BY <1>1 DEF LocalMfa, Sound
  <1>6. <<tx.id, tx.local.id, tx.local.version>> \in passed
    BY <1>1 DEF LocalMfa, Sound
  <1>7. tx.local.id = e /\ tx.local.version = local.version
    BY <1>2 DEF LocalMfa, LocalOf
  <1> HIDE DEF session
  <1> QED
    BY <1>3, <1>4, <1>5, <1>6, <1>7, Completing

\* The code that was mailed is entered.
LEMMA Entering ==
    ASSUME SInv, NEW tx \in pages, NEW mail \in mailed, OtpSubmit(tx, mail.code)
    PROVE  SInv'
  <1>1. /\ Page(tx) /\ Sound(tx) /\ tx.stage = "otp" /\ tx \in Transactions
        /\ tx.otp.digest # <<>> /\ tx.otp.digest = <<tx.id, tx.email, mail.code>>
    BY DEF SInv, Page, Sound, OtpSubmit, CodeMatches, DigestCode
  <1>2. tx.otp.digest[3] = mail.code /\ tx.otp.digest[2] = tx.email
    BY <1>1
  <1>3. mail.to = tx.email /\ mail.to \in OtpEmails /\ mail = [to |-> mail.to, code |-> mail.code]
    BY <1>1, <1>2 DEF Sound, SInv, TypeOK
  <1>4. Satisfies("otp", tx.acr)
    BY <1>1, <1>3, OtpSatisfies DEF Page
  <1> DEFINE session == [email |-> tx.email, acr |-> "otp", local |-> NoLocal]
  <1>5. session.email = tx.email /\ session.acr = "otp"
    OBVIOUS
  <1>6. Complete(tx, session, "otp", mail.code) /\ UNCHANGED passed
    BY DEF OtpSubmit
  <1> HIDE DEF session
  <1> QED
    BY <1>3, <1>4, <1>5, <1>6, Completing

\* A provider answers.
LEMMA Vouching ==
    ASSUME SInv, NEW state \in states, NEW email \in Emails, NEW acr \in {"fed", "fedMfa"},
           NEW link \in BOOLEAN, Callback(state, email, acr, link)
    PROVE  SInv'
  <1>1. PICK session : session = UpstreamSession(state, email, acr, link)
    OBVIOUS
  <1>2. session.email = email /\ session.acr = acr
    BY <1>1 DEF UpstreamSession, Linked
  <1> DEFINE tx == [state EXCEPT !.upstream = NoUpstream]
  <1>3. tx.acr = state.acr
    BY SoundLeg DEF SInv
  <1>4. Complete(tx, session, "upstream", email) /\ UNCHANGED passed /\ Satisfies(acr, state.acr)
    BY <1>1 DEF Callback
  <1> HIDE DEF tx
  <1> QED
    BY <1>2, <1>3, <1>4, Completing

\* Whatever is posted, and wherever.
LEMMA Posting ==
    ASSUME SInv, NEW tx \in pages, Post(tx)
    PROVE  SInv'
  <1>0. /\ Page(tx) /\ Sound(tx) /\ tx.upstream = NoUpstream /\ tx \in Transactions
        /\ tx.email \in Emails \cup {NoEmail}
    BY Fields DEF SInv, Page, Sound
  <1>1. ASSUME NEW email \in Emails, NEW otpChosen \in BOOLEAN, EmailSubmit(tx, email, otpChosen)
        PROVE  SInv'
    <2> DEFINE ready == [tx EXCEPT !.email = email]
    <2>1. /\ Sound(ready) /\ ready.upstream = NoUpstream /\ ready.email = email /\ ready.acr = tx.acr
      BY <1>0, SoundFor
    <2>2. (~RequiresFederation(tx.acr) /\ SendOtp(ready, FALSE)) \/ Route(ready)
      BY <1>1 DEF EmailSubmit
    <2> HIDE DEF ready
    <2>3. CASE ~RequiresFederation(tx.acr) /\ SendOtp(ready, FALSE)
      BY <2>1, <2>3, SendingOtp
    <2>4. CASE Route(ready)
      BY <2>1, <2>4, Routing
    <2> QED
      BY <2>2, <2>3, <2>4
  <1>2. CASE EmailRejected(tx) \/ ContinueWithout(tx)
    BY <1>0, <1>2, ShowingAt DEF EmailRejected, ContinueWithout, RenderEmail, Stages
  <1>3. CASE OtpRequest(tx)
    BY <1>0, <1>3, SendingOtp DEF OtpRequest, OtpPossible
  <1>4. CASE Resend(tx)
    BY <1>0, <1>4, SendingOtp DEF Resend, Page
  <1>5. CASE OtpWrong(tx)
    BY <1>0, <1>5, PageAttempt, Showing DEF OtpWrong
  <1>6. CASE \E mail \in mailed : OtpSubmit(tx, mail.code)
    BY <1>6, Entering
  <1>7. CASE LocalPassword(tx)
    BY <1>7, Passing
  <1>8. CASE LocalMfa(tx)
    BY <1>8, Factoring
  <1>9. CASE Restart(tx)
    BY <1>0, <1>9, SoundWithout, ShowingAt DEF Restart, RenderEmail, Stages
  <1>10. CASE \E session \in sessions : ContinueWith(tx, session)
    BY <1>10, Completing DEF ContinueWith, Answers, FromSession
  <1>11. CASE \E u \in Upstreams : ChooseUpstream(tx, u)
    BY <1>0, <1>11, Starting DEF ChooseUpstream
  <1> QED
    BY <1>1, <1>2, <1>3, <1>4, <1>5, <1>6, <1>7, <1>8, <1>9, <1>10, <1>11 DEF Post

\* An operator changes a record: nothing that was issued or sealed depends on it.
LEMMA Administering ==
    ASSUME SInv, NEW e \in LocalEmails, Administer(e)
    PROVE  SInv'
  <1>1. UNCHANGED <<pages, states, generated, mailed, sessions, completing, issued, passed>>
    BY DEF Administer
  <1>2. account' \in [LocalEmails -> [version : 1..MaxVersion, enabled : BOOLEAN]]
    <2> DEFINE Records == [version : 1..MaxVersion, enabled : BOOLEAN]
    <2>1. account \in [LocalEmails -> Records] /\ account[e] \in Records
      BY DEF SInv, TypeOK
    <2>2. CASE account' = [account EXCEPT ![e].enabled = ~@]
      <3>1. [account[e] EXCEPT !.enabled = ~@] \in Records
        BY <2>1
      <3>2. account' = [account EXCEPT ![e] = [account[e] EXCEPT !.enabled = ~@]]
        BY <2>1, <2>2
      <3> QED
        BY <2>1, <3>1, <3>2
    <2>3. CASE account[e].version < MaxVersion /\ account' = [account EXCEPT ![e].version = @ + 1]
      <3>1. [account[e] EXCEPT !.version = @ + 1] \in Records
        BY <2>1, <2>3, BoundsAreNumbers
      <3>2. account' = [account EXCEPT ![e] = [account[e] EXCEPT !.version = @ + 1]]
        BY <2>1, <2>3
      <3> QED
        BY <2>1, <3>1, <3>2
    <2> QED
      BY <2>2, <2>3 DEF Administer
  <1>3. \A t \in pages' : Page(t)'
    BY <1>1, PageStays DEF SInv
  <1>4. \A t \in states' : Sound(t)'
    BY <1>1, SoundStays DEF SInv
  <1>5. CodesProved'
    BY <1>1, IssuedStays
  <1> QED
    BY <1>1, <1>2, <1>3, <1>4, <1>5 DEF SInv, TypeOK

-------------------------------------------------------------------------------
\* Nothing is sealed, mailed or issued at first.
LEMMA InitInv == Init => SInv
  <1> SUFFICES ASSUME Init PROVE SInv
    OBVIOUS
  <1>1. TypeOK
    <2>1. 1 \in 1..MaxVersion /\ 0 \in 0..MaxCodes
      BY BoundsAreNumbers, SignInAssumption
    <2> QED
      BY <2>1 DEF Init, TypeOK
  <1> QED
    BY <1>1 DEF Init, SInv, CodesProved

\* Every step keeps the invariant.
LEMMA StepInv == SInv /\ [Next]_vars => SInv'
  <1> SUFFICES ASSUME SInv, [Next]_vars PROVE SInv'
    OBVIOUS
  <1>1. CASE UNCHANGED vars
    BY <1>1, Stuttering
  <1>2. CASE \E id \in TxIds, ask \in Asks : Authorize(id, ask)
    BY <1>2, Authorizing
  <1>3. CASE \E tx \in pages : Post(tx)
    BY <1>3, Posting
  <1>4. CASE \E state \in states, email \in Emails, acr \in {"fed", "fedMfa"}, link \in BOOLEAN :
                Callback(state, email, acr, link)
    BY <1>4, Vouching
  <1>5. CASE \E state \in states : CallbackFails(state)
    BY <1>5, Offering DEF CallbackFails, SInv
  <1>6. CASE \E e \in LocalEmails : Administer(e)
    BY <1>6, Administering
  <1>7. CASE \E code \in completing : Issue(code)
    BY <1>7, Issuing
  <1> QED
    BY <1>1, <1>2, <1>3, <1>4, <1>5, <1>6, <1>7 DEF Next

\* And so always.
LEMMA Invariant == Spec => []SInv
  BY InitInv, StepInv, PTL DEF Spec

\* What is sealed into pages and states is what their readers expect, and a silent
\* request leaves neither, for any requests, addresses and providers
\* (src/endpoints/authorize.js:109, 974).
THEOREM SealedIsSound == Spec => []PagesAreSound
  <1>1. SInv => PagesAreSound
    BY DEF SInv, PagesAreSound, SilentNeverRenders, Page, Sound
  <1> QED
    BY <1>1, Invariant, PTL

\* A code is only ever issued on an authentication that meets its request
\* (src/endpoints/authorize.js:355, 372, 527).
THEOREM IssuedOnMerit == Spec => []IssuedMeetsRequest
  <1>1. SInv => IssuedMeetsRequest
    BY DEF SInv, CodesProved, Proved, IssuedMeetsRequest
  <1> QED
    BY <1>1, Invariant, PTL

\* The address of a code was proved the way it was issued
\* (src/endpoints/authorize.js:527, 694, 906).
THEOREM AddressProved == Spec => []AddressIsProved
  <1>1. SInv => AddressIsProved
    BY DEF SInv, CodesProved, Proved, AddressIsProved, OtpProvesMailbox, PasswordBeforeFactor,
           UpstreamVouches
  <1> QED
    BY <1>1, Invariant, PTL

-------------------------------------------------------------------------------
\* Sending an email code issues nothing,
LEMMA SendingIssuesNothing ==
    ASSUME NEW tx, NEW resend, SendOtp(tx, resend)
    PROVE  UNCHANGED <<completing, issued>>
  BY DEF SendOtp, OtpLimited, OtpSent, Show

\* nor does starting a leg,
LEMMA StartingIssuesNothing ==
    ASSUME NEW tx, NEW u, StartUpstream(tx, u)
    PROVE  UNCHANGED <<completing, issued>>
  BY SendingIssuesNothing DEF StartUpstream, BeginUpstream, Refuse, vars

\* nor finding out where an address goes.
LEMMA RoutingIssuesNothing ==
    ASSUME NEW tx, Route(tx)
    PROVE  UNCHANGED <<completing, issued>>
  BY SendingIssuesNothing, StartingIssuesNothing
     DEF Route, RenderLocalPassword, RenderChooser, RenderEmail, Show, Refuse, vars

\* A session of a record as it is now.
LEMMA FreshSession ==
    ASSUME NEW e, account[e].enabled, NEW session, session.local = LocalOf(e)
    PROVE  ValidSession(session)
  BY DEF ValidSession, LocalOf

\* A code is decided upon for a valid session, or one decided upon is sent, or neither.
LEMMA IssuedOnValid ==
    ASSUME [Next]_vars
    PROVE  \/ UNCHANGED <<completing, issued>>
           \/ \E tx, session, by, proof : Complete(tx, session, by, proof) /\ ValidSession(session)
           \/ \E code \in completing : Issue(code)
  <1> DEFINE Issues ==
        \E tx, session, by, proof : Complete(tx, session, by, proof) /\ ValidSession(session)
  <1>1. ASSUME NEW id, NEW ask, Authorize(id, ask)
        PROVE  UNCHANGED <<completing, issued>> \/ Issues
    BY <1>1 DEF Authorize, FromSession, Answers, RenderEmail, Show
  <1>2. ASSUME NEW tx, Post(tx)
        PROVE  UNCHANGED <<completing, issued>> \/ Issues
    <2>1. CASE \E email \in Emails, otpChosen \in BOOLEAN : EmailSubmit(tx, email, otpChosen)
      BY <2>1, SendingIssuesNothing, RoutingIssuesNothing DEF EmailSubmit
    <2>2. CASE EmailRejected(tx) \/ OtpWrong(tx) \/ Restart(tx) \/ ContinueWithout(tx)
      BY <2>2 DEF EmailRejected, OtpWrong, Restart, ContinueWithout, RenderEmail, Show
    <2>3. CASE OtpRequest(tx) \/ Resend(tx)
      BY <2>3, SendingIssuesNothing DEF OtpRequest, Resend
    <2>4. CASE \E mail \in mailed : OtpSubmit(tx, mail.code)
      <3> DEFINE session == [email |-> tx.email, acr |-> "otp", local |-> NoLocal]
      <3>1. ValidSession(session)
        BY DEF ValidSession
      <3>2. PICK mail \in mailed : Complete(tx, session, "otp", mail.code)
        BY <2>4 DEF OtpSubmit
      <3> HIDE DEF session
      <3> QED
        BY <3>1, <3>2
    <2>5. CASE LocalPassword(tx)
      <3> DEFINE e == tx.email
                 session == [email |-> e, acr |-> "local", local |-> LocalOf(e)]
      <3>1. ValidSession(session)
        BY <2>5, FreshSession DEF LocalPassword
      <3>2. UNCHANGED <<completing, issued>> \/ Complete(tx, session, "local", 0)
        BY <2>5 DEF LocalPassword
      <3> HIDE DEF session
      <3> QED
        BY <3>1, <3>2
    <2>6. CASE LocalMfa(tx)
      <3> DEFINE e == tx.email
                 session == [email |-> e, acr |-> "localMfa", local |-> LocalOf(e)]
      <3>1. ValidSession(session)
        BY <2>6, FreshSession DEF LocalMfa
      <3>2. Complete(tx, session, "local", 0)
        BY <2>6 DEF LocalMfa
      <3> HIDE DEF session
      <3> QED
        BY <3>1, <3>2
    <2>7. CASE \E session \in sessions : ContinueWith(tx, session)
      BY <2>7 DEF ContinueWith, Answers, FromSession
    <2>8. CASE \E u \in Upstreams : ChooseUpstream(tx, u)
      BY <2>8, StartingIssuesNothing DEF ChooseUpstream
    <2> QED
      BY <1>2, <2>1, <2>2, <2>3, <2>4, <2>5, <2>6, <2>7, <2>8 DEF Post
  <1>3. ASSUME NEW state, NEW email, NEW acr, NEW link, Callback(state, email, acr, link)
        PROVE  Issues
    <2> DEFINE session == UpstreamSession(state, email, acr, link)
    <2>1. ValidSession(session)
      <3>1. CASE Linked(state, email, link)
        BY <3>1, FreshSession DEF UpstreamSession, Linked
      <3>2. CASE ~Linked(state, email, link)
        BY <3>2 DEF UpstreamSession, ValidSession
      <3> QED
        BY <3>1, <3>2
    <2>2. Complete([state EXCEPT !.upstream = NoUpstream], session, "upstream", email)
      BY <1>3 DEF Callback
    <2> HIDE DEF session
    <2> QED
      BY <2>1, <2>2
  <1>4. ASSUME NEW state, CallbackFails(state)
        PROVE  UNCHANGED <<completing, issued>>
    BY <1>4 DEF CallbackFails, OfferFallback, RenderLocalPassword, RenderChooser, RenderEmail, Show,
                Refuse, vars
  <1>5. ASSUME NEW e, Administer(e)
        PROVE  UNCHANGED <<completing, issued>>
    BY <1>5 DEF Administer
  <1>6. ASSUME UNCHANGED vars
        PROVE  UNCHANGED <<completing, issued>>
    BY <1>6 DEF vars
  <1> HIDE DEF Issues
  <1>7. UNCHANGED <<completing, issued>> \/ Issues \/ \E code \in completing : Issue(code)
    <2>1. CASE \E id \in TxIds, ask \in Asks : Authorize(id, ask)
      BY <1>1, <2>1
    <2>2. CASE \E tx \in pages : Post(tx)
      BY <1>2, <2>2
    <2>3. CASE \E state \in states, email \in Emails, acr \in {"fed", "fedMfa"}, link \in BOOLEAN :
                  Callback(state, email, acr, link)
      BY <1>3, <2>3
    <2>4. CASE \E state \in states : CallbackFails(state)
      BY <1>4, <2>4
    <2>5. CASE \E e \in LocalEmails : Administer(e)
      BY <1>5, <2>5
    <2> QED
      BY <1>6, <2>1, <2>2, <2>3, <2>4, <2>5 DEF Next
  <1> QED
    BY <1>7 DEF Issues

\* A record that was disabled or changed before a request reads it signs nobody in,
\* and what is issued later is what was decided on that reading, for any requests and
\* whatever an operator does meanwhile (src/endpoints/authorize.js:628-671, 921-946,
\* 1065-1070).
THEOREM StaleIssuesNothing == Spec => StaleAccountIssuesNothing
  <1>1. [Next]_vars =>
          [/\ \A code \in completing' \ completing : Stands(code)
           /\ issued' \ issued \subseteq completing]_vars
    <2> SUFFICES ASSUME [Next]_vars
                 PROVE  /\ \A code \in completing' \ completing : Stands(code)
                        /\ issued' \ issued \subseteq completing
      OBVIOUS
    <2>1. ASSUME NEW tx, NEW session, NEW by, NEW proof,
                 Complete(tx, session, by, proof), ValidSession(session)
          PROVE  /\ \A code \in completing' \ completing : Stands(code)
                 /\ issued' = issued
      <3>1. ASSUME NEW code \in completing' \ completing
            PROVE  code.local = session.local
        BY <2>1 DEF Complete
      <3> QED
        BY <2>1, <3>1 DEF Complete, Stands, ValidSession
    <2>2. ASSUME NEW code \in completing, Issue(code)
          PROVE  completing' \subseteq completing /\ issued' \ issued \subseteq completing
      BY <2>2 DEF Issue
    <2> QED
      BY <2>1, <2>2, IssuedOnValid
  <1> QED
    BY <1>1, PTL DEF Spec, StaleAccountIssuesNothing
===============================================================================
