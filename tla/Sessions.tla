-------------------------------- MODULE Sessions --------------------------------
(***************************************************************************)
(* Sealed session cookies and sign-out (src/session.js,                    *)
(* src/endpoints/logout.js, and the completion of a sign-in in             *)
(* src/endpoints/authorize.js), with a state store configured.             *)
(*                                                                         *)
(* A session is nothing but its sealed cookie: whoever holds a copy, old or *)
(* new, may present it to any instance.  Signing out claims a marker on the *)
(* sid, and every read asks for the marker.  A request stops at each of     *)
(* those calls; requests interleave there, and any call may fail.  A request *)
(* that has been answered makes way for another one.                       *)
(*                                                                         *)
(* The claim hands the store a number of seconds.  A store of records (the  *)
(* in-memory one and DynamoDB) keeps the second the record ends in, reckoned *)
(* on the caller's clock and looked at on the reader's; a Durable Object    *)
(* sets an alarm, which goes off after that long on its own clock           *)
(* (src/adapters/cloudflare/state-do.js:56-61).                            *)
(***************************************************************************)
EXTENDS Naturals, FiniteSets

CONSTANTS
    Sids,           \* session identifiers
    NoCookie,       \* no cookie, or none that can be read
    Names,          \* session cookie names
    Shared,         \* the name of the shared cookie
    Clients,        \* relying parties
    NoClient,       \* a request that names no relying party
    CookieName,     \* CookieName[c]: the name c's requests use
    InstanceShared, \* SESSION_SCOPE is "shared"
    ConfirmMode,    \* ConfirmMode[c]: LOGOUT_CONFIRM, after c's override
    Requests,       \* requests that may be under way at the same time
    Instances,
    NoInstance,     \* where a request that has not arrived is
    Offset,         \* Offset[i]: how far i's clock is ahead, in seconds
    IdleTtl,        \* idleTtlSeconds
    MaxLifetime,    \* maxLifetimeSeconds
    ClockSkew,      \* clockSkewSeconds
    ConfirmTtl,     \* the 600 seconds a confirmation stays good
    Backends,       \* stores the deployment may have chosen: "record", "alarm"
    MaxTime,        \* bound: the clock stops here
    MaxSealed,      \* bound: different cookies ever set
    MaxLeaving      \* bound: sign-outs under way at the same time

ASSUME SessionsAssumption ==
    /\ NoClient \notin Clients
    /\ NoInstance \notin Instances
    /\ Shared \in Names
    /\ CookieName \in [Clients \cup {NoClient} -> Names]
    /\ CookieName[NoClient] = Shared
    /\ InstanceShared \in BOOLEAN
    /\ ConfirmMode \in [Clients \cup {NoClient} -> {"auto", "always", "never"}]
    /\ Offset \in [Instances -> Nat]
    /\ {IdleTtl, MaxLifetime, ClockSkew, ConfirmTtl, MaxTime, MaxSealed, MaxLeaving} \subseteq Nat
    /\ Backends \subseteq {"record", "alarm"}

VARIABLES
    now,        \* real time, in seconds
    sealed,     \* every cookie that was ever set, each of which may be presented
    marker,     \* marker[sid]: until when session-revoked:<sid> is claimed, 0 if never
    job,        \* job[r]: how far request r has come, and with what
    ended,      \* history: ended[sid]: whether a sign-out has answered for sid
    backend     \* the store, which never changes

vars == <<now, sealed, marker, job, ended, backend>>

Cookies == [name : Names, sid : Sids, exp : Nat, abs : Nat]

Jars == [Names -> Cookies \cup {NoCookie}]

EmptyJar == [n \in Names |-> NoCookie]

Steps == {"idle", "has", "decide",
          "signOutHas", "signOutDecide", "confirm", "revoke", "revokeHas", "revokeClaim"}

Jobs == [step : Steps, at : Instances \cup {NoInstance}, client : Clients \cup {NoClient},
         jar : Jars,                         \* the cookies the request carried
         session : Cookies \cup {NoCookie},  \* the session in hand
         targets : SUBSET Names,             \* the names a sign-out is to clear
         left : SUBSET Names,                \* those it has still to deal with
         ttl : Nat,                          \* seconds of the claim to be made, 0 for none
         good : Nat]                         \* exp of the confirmation

NoJob == [step |-> "idle", at |-> NoInstance, client |-> NoClient, jar |-> EmptyJar,
          session |-> NoCookie, targets |-> {}, left |-> {}, ttl |-> 0, good |-> 0]

Clock(i) == now + Offset[i]

Init ==
    /\ now = 1
    /\ sealed = {}
    /\ marker = [sid \in Sids |-> 0]
    /\ job = [r \in Requests |-> NoJob]
    /\ ended = [sid \in Sids |-> "no"]
    /\ backend \in Backends

Answered(r) == job' = [job EXCEPT ![r] = NoJob]

--------------------------------------------------------------------------------
(* Reading a session *)

\* unseal refuses an idle session, and the absolute cap is looked at as well.
Readable(cookie, i) ==
    cookie # NoCookie /\ cookie.exp >= Clock(i) /\ cookie.abs >= Clock(i)

\* The first half of readSessionByName: what is left if the marker is not there.
Unsealed(cookie, i) == IF Readable(cookie, i) THEN cookie ELSE NoCookie

\* An alarm has emptied the object by the time it was set for.
Revoked(sid, i) ==
    \/ backend = "record" /\ marker[sid] >= Clock(i)
    \/ backend = "alarm" /\ marker[sid] > now

\* Mutant of TtlLeft: the marker lives as long as the cookie's idle timeout.
TtlUntilIdle(session, i) ==
    IF session # NoCookie /\ session.exp > Clock(i) THEN session.exp - Clock(i) ELSE 0

\* What revokeSession asks for, once it knows that the session is a live one.
TtlLeft(session, i) ==
    IF session # NoCookie /\ session.abs > Clock(i) THEN session.abs - Clock(i) ELSE 0

AfterHas == [has |-> "decide", signOutHas |-> "signOutDecide", revokeHas |-> "revokeClaim"]

\* The second half: has.  A store that does not answer fails the request.
AskMarker(r) ==
    LET j == job[r]
        found == IF Revoked(j.session.sid, j.at) THEN NoCookie ELSE j.session
    IN  /\ j.step \in DOMAIN AfterHas
        /\ \/ job' = [job EXCEPT ![r] = [@ EXCEPT
                  !.step = AfterHas[j.step], !.session = found,
                  !.ttl = IF j.step = "revokeHas" THEN TtlLeft(found, j.at) ELSE 0]]
           \/ Answered(r)
        /\ UNCHANGED <<now, sealed, marker, ended, backend>>

\* A jar some browser may hold: under each name, one of the cookies set there.
Held(jar) == \A n \in Names : jar[n] = NoCookie \/ (jar[n] \in sealed /\ jar[n].name = n)

--------------------------------------------------------------------------------
(* Using a session: /authorize, /authorize/continue and the ends of a sign-in *)

Present(r, i, c, cookie) ==
    /\ job[r].step = "idle"
    /\ cookie = NoCookie \/ (cookie \in sealed /\ cookie.name = CookieName[c])
    /\ job' = [job EXCEPT ![r] = [@ EXCEPT
                  !.at = i, !.client = c, !.session = Unsealed(cookie, i),
                  !.step = IF Readable(cookie, i) THEN "has" ELSE "decide"]]
    /\ UNCHANGED <<now, sealed, marker, ended, backend>>

Earlier(a, b) == IF a < b THEN a ELSE b

\* Mutant of Touch: rolls past the absolute cap.
TouchPastCap(session, i) == [session EXCEPT !.exp = Clock(i) + IdleTtl]

\* touch, which complete applies to every session before it seals the cookie.
Touch(session, i) == [session EXCEPT !.exp = Earlier(Clock(i) + IdleTtl, session.abs)]

\* reauthenticate: a new authentication under the same sid and absolute cap.
Reauthenticate(session, i) == [session EXCEPT !.exp = Clock(i) + IdleTtl]

NewSession(sid, name, i) ==
    [name |-> name, sid |-> sid, exp |-> Clock(i) + IdleTtl, abs |-> Clock(i) + MaxLifetime]

SessionIsFresh(session, i) ==
    session.exp + ClockSkew >= Clock(i) /\ session.abs >= Clock(i)

Complete(r, session) ==
    /\ sealed' = sealed \cup {Touch(session, job[r].at)}
    /\ Cardinality(sealed') <= MaxSealed
    /\ Answered(r)
    /\ UNCHANGED <<now, marker, ended, backend>>

\* The request is answered from the session alone.
AnswerFromSession(r) ==
    /\ job[r].step = "decide"
    /\ job[r].session # NoCookie
    /\ SessionIsFresh(job[r].session, job[r].at)
    /\ Complete(r, job[r].session)

\* A person has authenticated, and is the one the session in hand is for.
StepUp(r) ==
    /\ job[r].step = "decide"
    /\ job[r].session # NoCookie
    /\ Complete(r, Reauthenticate(job[r].session, job[r].at))

\* A person has authenticated: no session, or another person's.
SignIn(r, sid) ==
    /\ job[r].step = "decide"
    /\ \A cookie \in sealed : cookie.sid # sid
    /\ Complete(r, NewSession(sid, CookieName[job[r].client], job[r].at))

\* No session, one too weak or too old, or one whose local identity has changed.
Page(r) ==
    /\ job[r].step = "decide"
    /\ Answered(r)
    /\ UNCHANGED <<now, sealed, marker, ended, backend>>

--------------------------------------------------------------------------------
(* Signing out *)

\* handleLogout up to its own read of the session.  It looks at no other cookie.
SignOut(r, i, c, cookie) ==
    /\ job[r].step = "idle"
    /\ Cardinality({q \in Requests : job[q].step \notin {"idle", "has", "decide"}}) < MaxLeaving
    /\ cookie = NoCookie \/ (cookie \in sealed /\ cookie.name = CookieName[c])
    /\ job' = [job EXCEPT ![r] = [@ EXCEPT
                  !.at = i, !.client = c, !.jar = [EmptyJar EXCEPT ![CookieName[c]] = cookie],
                  !.session = Unsealed(cookie, i),
                  !.step = IF Readable(cookie, i) THEN "signOutHas" ELSE "signOutDecide"]]
    /\ UNCHANGED <<now, sealed, marker, ended, backend>>

SharedScope(c) == IF c = NoClient THEN InstanceShared ELSE CookieName[c] = Shared

\* The interstitial, given that there is a session.
Asks(c) ==
    \/ ConfirmMode[c] = "always"
    \/ ConfirmMode[c] = "auto" /\ SharedScope(c)

\* Mutant of Global: any sign-out of a shared instance is a global one.
GlobalForAll(c) == InstanceShared

\* Sealed into the confirmation, and used nowhere else.
Global(c) == c = NoClient /\ InstanceShared

\* finish: the cookies it will revoke and clear, one after the other.  It reads
\* those and no others.
Finish(r, i, jar, names) ==
    job' = [job EXCEPT ![r] = [@ EXCEPT
              !.at = i, !.jar = [n \in Names |-> IF n \in names THEN jar[n] ELSE NoCookie],
              !.session = NoCookie, !.good = 0,
              !.step = "revoke", !.targets = names, !.left = names]]

SignOutDecide(r) ==
    LET j == job[r]
    IN  /\ j.step = "signOutDecide"
        /\ IF j.session # NoCookie /\ Asks(j.client)
           THEN job' = [job EXCEPT ![r] = [NoJob EXCEPT
                  !.step = "confirm", !.client = j.client, !.good = Clock(j.at) + ConfirmTtl]]
           ELSE Finish(r, j.at, j.jar, {CookieName[j.client]})
        /\ UNCHANGED <<now, sealed, marker, ended, backend>>

\* performLogout: the confirmation comes back, with whatever the browser holds
\* by then.  One that has lapsed changes nothing.
Confirm(r, i, jar) ==
    LET j == job[r]
    IN  /\ j.step = "confirm"
        /\ Held(jar)
        /\ IF j.good >= Clock(i)
           THEN Finish(r, i, jar, IF Global(j.client) THEN {n \in Names : jar[n] # NoCookie}
                                  ELSE {CookieName[j.client]})
           ELSE Answered(r)
        /\ UNCHANGED <<now, sealed, marker, ended, backend>>

\* The loop of finish: read the next cookie ...
RevokeRead(r, n) ==
    LET j == job[r]
    IN  /\ j.step = "revoke"
        /\ n \in j.left
        /\ job' = [job EXCEPT ![r] = [@ EXCEPT
              !.session = Unsealed(j.jar[n], j.at),
              !.left = j.left \ {n},
              !.step = IF Readable(j.jar[n], j.at) THEN "revokeHas" ELSE "revoke"]]
        /\ UNCHANGED <<now, sealed, marker, ended, backend>>

\* The marker a claim leaves.  One that is there already is left as it is, and so
\* is the object's minimum of a minute, which only lengthens an alarm.
Claimed(j) ==
    IF Revoked(j.session.sid, j.at) THEN marker
    ELSE [marker EXCEPT ![j.session.sid] = IF backend = "record" THEN j.session.abs
                                           ELSE now + j.ttl]

\* ... and claim its marker for what is left of its absolute lifetime.
RevokeClaim(r) ==
    /\ job[r].step = "revokeClaim"
    /\ marker' = IF job[r].ttl = 0 THEN marker ELSE Claimed(job[r])
    /\ job' = [job EXCEPT ![r] = [@ EXCEPT !.step = "revoke", !.session = NoCookie, !.ttl = 0]]
    /\ UNCHANGED <<now, sealed, ended, backend>>

\* Mutant of RevokeFails: a claim that failed does not stop the sign-out.
RevokeFailureIgnored(r) ==
    /\ job[r].step = "revokeClaim"
    /\ job[r].ttl # 0
    /\ job' = [job EXCEPT ![r] = [@ EXCEPT !.step = "revoke", !.session = NoCookie, !.ttl = 0]]
    /\ UNCHANGED <<now, sealed, marker, ended, backend>>

\* The claim fails, perhaps after it was recorded: the sign-out visibly fails.
RevokeFails(r) ==
    /\ job[r].step = "revokeClaim"
    /\ job[r].ttl # 0
    /\ marker' \in {marker, Claimed(job[r])}
    /\ Answered(r)
    /\ UNCHANGED <<now, sealed, ended, backend>>

\* The cookies are cleared and the person is told.  A session in its last second
\* is told apart in the history.
SignedOut(r) ==
    LET j == job[r]
        told == {j.jar[n] : n \in {m \in j.targets : Readable(j.jar[m], j.at)}}
    IN  /\ j.step = "revoke"
        /\ j.left = {}
        /\ Answered(r)
        /\ ended' = [sid \in Sids |->
              IF \E s \in told : s.sid = sid /\ s.abs > Clock(j.at) THEN "inTime"
              ELSE IF ended[sid] = "no" /\ \E s \in told : s.sid = sid THEN "lastSecond"
              ELSE ended[sid]]
        /\ UNCHANGED <<now, sealed, marker, backend>>

--------------------------------------------------------------------------------

Tick ==
    /\ now < MaxTime
    /\ now' = now + 1
    /\ UNCHANGED <<sealed, marker, job, ended, backend>>

Presentable == sealed \cup {NoCookie}

Next ==
    \/ \E r \in Requests, i \in Instances :
          \/ \E c \in Clients, cookie \in Presentable : Present(r, i, c, cookie)
          \/ \E c \in Clients \cup {NoClient}, cookie \in Presentable : SignOut(r, i, c, cookie)
          \/ \E jar \in [Names -> Presentable] : Confirm(r, i, jar)
    \/ \E r \in Requests :
          \/ AskMarker(r) \/ AnswerFromSession(r) \/ StepUp(r) \/ Page(r)
          \/ \E sid \in Sids : SignIn(r, sid)
          \/ SignOutDecide(r) \/ RevokeClaim(r) \/ RevokeFails(r) \/ SignedOut(r)
          \/ \E n \in Names : RevokeRead(r, n)
    \/ Tick

Spec == Init /\ [][Next]_vars

--------------------------------------------------------------------------------
(* Properties *)

\* Every variable has its shape, and the store is asked about a session only.
TypeOK ==
    /\ now \in Nat
    /\ sealed \subseteq Cookies
    /\ marker \in [Sids -> Nat]
    /\ job \in [Requests -> Jobs]
    /\ \A r \in Requests : job[r].step \in DOMAIN AfterHas => job[r].session # NoCookie
    /\ ended \in [Sids -> {"no", "inTime", "lastSecond"}]
    /\ backend \in Backends

\* Step-up and the rolling idle timeout never buy lifetime: all the cookies of a
\* session have the cap it was created with, and none outlives it
\* (src/session.js:82-85, 112-116).
CapIsFixed ==
    \A c, d \in sealed : c.exp <= c.abs /\ (c.sid = d.sid => c.abs = d.abs)

\* The request takes the session in hand for a live one, and it is: a session that
\* reached its cap while the request waited for the store has outlived its marker
\* too, but answers nothing any more (sessionIsFresh, touch).
Accepts(r) ==
    /\ job[r].step \in DOMAIN AfterHas
    /\ job'[r].step = AfterHas[job[r].step]
    /\ job'[r].session # NoCookie
    /\ job[r].session.abs >= Clock(job[r].at)

\* Once a person has been told they are signed out, no copy of the session is
\* accepted again: not one sealed before, not one a request that was already
\* under way seals afterwards, at no instance.  With records that holds whatever
\* the clocks show.  A Durable Object's alarm follows the clock of the instance
\* that claimed it, so there it holds for as long as no instance's clock has
\* reached the session's absolute cap
\* (src/session.js:141, 161-165; src/endpoints/logout.js:152-159).
SignedOutForGood ==
    [][\A r \in Requests :
          Accepts(r) /\ ended[job[r].session.sid] = "inTime" =>
              /\ backend = "alarm"
              /\ \E i \in Instances : Clock(i) >= job[r].session.abs]_vars

\* A relying party's sign-out is about the cookie that relying party uses and no
\* other, whether or not the person was asked (src/endpoints/logout.js:71-73).
ClientSignOutIsNarrow ==
    \A r \in Requests :
        job[r].step = "revoke" /\ job[r].client # NoClient =>
            job[r].targets = {CookieName[job[r].client]}
================================================================================
