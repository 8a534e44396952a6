----------------------------- MODULE SessionsProofs -----------------------------
(***************************************************************************)
(* Proofs about Sessions, for any number of sessions, cookie names, relying *)
(* parties, requests and instances, any clock offsets and any lifetimes.   *)
(***************************************************************************)
EXTENDS Sessions, TLAPS

--------------------------------------------------------------------------------
(* The inductive invariant *)

Looping == {"revoke", "revokeHas", "revokeClaim"}

\* A marker reaches a cap: a record is kept until then, on any clock; an alarm goes
\* off when some instance's clock shows it.
Covers(sid, cap) ==
    /\ marker[sid] # 0
    /\ backend = "record" => marker[sid] >= cap
    /\ backend = "alarm" => \E i \in Instances : marker[sid] + Offset[i] >= cap

\* A sign-out has dealt with a cookie that is still good when the marker of its
\* session covers it, and is about to when the session is the one in hand.
Dealt(j, cookie) ==
    /\ cookie # NoCookie
    /\ cookie.exp >= Clock(j.at)
    /\ cookie.abs > Clock(j.at)
    => \/ Covers(cookie.sid, cookie.abs)
       \/ j.step # "revoke" /\ j.session = cookie

\* The claim that is about to be made lasts until the session's cap by the clock of
\* the instance that makes it, and is left out only when the cap has been reached.
TtlIsRight(j) ==
    /\ j.ttl # 0 => j.session # NoCookie /\ j.session.abs > 0
                   /\ j.ttl + Clock(j.at) >= j.session.abs
    /\ j.session # NoCookie /\ j.session.abs > Clock(j.at) => j.ttl # 0

\* What is known of the cookies a request holds.
Good(j) ==
    /\ j.step \notin {"idle", "confirm"} => j.at \in Instances
    /\ j.session \in sealed \cup {NoCookie}
    /\ j.step \in DOMAIN AfterHas => j.session # NoCookie
    /\ \A n \in Names : j.jar[n] \in sealed \cup {NoCookie}
    /\ j.step \in Looping => \A n \in j.targets \ j.left : Dealt(j, j.jar[n])
    /\ j.step = "revokeClaim" => TtlIsRight(j)

\* A marker covers the absolute cap of its session, and a record ends with it.
MarkerIsCap ==
    \A sid \in Sids :
        \/ marker[sid] = 0
        \/ \E c \in sealed :
              /\ c.sid = sid /\ Covers(sid, c.abs)
              /\ backend = "record" => marker[sid] = c.abs

\* Whoever was signed out in time has a marker.
EndedIsMarked == \A sid \in Sids : ended[sid] = "inTime" => marker[sid] # 0

Inv ==
    /\ TypeOK
    /\ now >= 1
    /\ CapIsFixed
    /\ MarkerIsCap
    /\ EndedIsMarked
    /\ \A r \in Requests : Good(job[r])

--------------------------------------------------------------------------------
(* Lemmas *)

\* A clock never shows less than real time.
LEMMA ClockType ==
    ASSUME TypeOK, NEW i \in Instances
    PROVE  Clock(i) \in Nat /\ Clock(i) >= now
  BY SessionsAssumption DEF TypeOK, Clock

\* The marker of a session, once written, covers each of its cookies.
LEMMA MarkerCovers ==
    ASSUME Inv, NEW c \in sealed, marker[c.sid] # 0
    PROVE  Covers(c.sid, c.abs) /\ (backend = "record" => marker[c.sid] = c.abs)
  <1>1. c.sid \in Sids
    BY DEF Inv, TypeOK, Cookies
  <1> QED
    BY <1>1 DEF Inv, MarkerIsCap, CapIsFixed

\* What is known of a request stays true while cookies are added, markers are
\* raised and time passes.
Grows ==
    /\ sealed \subseteq sealed'
    /\ now <= now' /\ now' \in Nat
    /\ backend' = backend
    /\ \A sid \in Sids : marker[sid] <= marker'[sid] /\ marker'[sid] \in Nat

\* What a marker covers, it goes on covering.
LEMMA CoversKept ==
    ASSUME Inv, Grows, NEW sid \in Sids, NEW cap \in Nat, Covers(sid, cap)
    PROVE  Covers(sid, cap)'
  <1>1. marker[sid] \in Nat /\ marker'[sid] \in Nat /\ marker[sid] <= marker'[sid]
    BY DEF Inv, TypeOK, Grows
  <1>2. \A i \in Instances : Offset[i] \in Nat
    BY SessionsAssumption
  <1> QED
    BY <1>1, <1>2 DEF Covers, Grows

\* A request that does not move keeps what is known of it.
LEMMA GoodKept ==
    ASSUME Inv, Grows, NEW j \in Jobs, Good(j)
    PROVE  Good(j)'
  <1>1. ASSUME NEW n \in j.targets \ j.left, j.step \in Looping
        PROVE  Dealt(j, j.jar[n])'
    <2> DEFINE c == j.jar[n]
    <2>1. n \in Names /\ j.at \in Instances /\ c \in sealed \cup {NoCookie} /\ Dealt(j, c)
      BY <1>1 DEF Good, Jobs, Looping
    <2>2. Clock(j.at) <= Clock(j.at)' /\ Clock(j.at) \in Nat /\ Clock(j.at)' \in Nat
      BY <2>1, SessionsAssumption DEF Inv, TypeOK, Grows, Clock
    <2>3. c # NoCookie => c.exp \in Nat /\ c.abs \in Nat /\ c.sid \in Sids
      BY <2>1 DEF Inv, TypeOK, Cookies
    <2> HIDE DEF c
    <2>4. Dealt(j, c)'
      BY <2>1, <2>2, <2>3, CoversKept DEF Dealt
    <2> QED
      BY <2>4 DEF c
  <1>2. ASSUME j.step = "revokeClaim"
        PROVE  TtlIsRight(j)'
    <2>1. j.at \in Instances /\ TtlIsRight(j) /\ j.ttl \in Nat
      BY <1>2 DEF Good, Jobs
    <2>2. Clock(j.at) <= Clock(j.at)' /\ Clock(j.at) \in Nat /\ Clock(j.at)' \in Nat
      BY <2>1, SessionsAssumption DEF Inv, TypeOK, Grows, Clock
    <2>3. j.session # NoCookie => j.session.abs \in Nat
      BY DEF Good, Inv, TypeOK, Cookies
    <2> QED
      BY <2>1, <2>2, <2>3 DEF TtlIsRight
  <1> QED
    BY <1>1, <1>2 DEF Good, Grows

\* The request that has been answered is a request that holds nothing.
LEMMA NoJobGood == NoJob \in Jobs /\ Good(NoJob) /\ Good(NoJob)'
  <1>1. NoJob \in Jobs
    BY SessionsAssumption DEF NoJob, Jobs, EmptyJar, Jars, Steps
  <1> QED
    BY <1>1 DEF NoJob, EmptyJar, Good, Looping, AfterHas

\* What a request will hold, said of the record it will be.
LEMMA GoodNext ==
    ASSUME NEW s \in Requests, NEW j, j = job'[s], Good(j)'
    PROVE  Good(job[s])'
  BY DEF Good, Dealt, Covers, TtlIsRight, Clock

\* If one request moves and the others stay, all are good again.
LEMMA OneMoves ==
    ASSUME Inv, Grows, NEW r \in Requests, NEW new \in Jobs, Good(new)',
           job' = [job EXCEPT ![r] = new]
    PROVE  job' \in [Requests -> Jobs] /\ \A s \in Requests : Good(job[s])'
  <1>1. job \in [Requests -> Jobs] /\ \A s \in Requests : Good(job[s])
    BY DEF Inv, TypeOK
  <1>2. ASSUME NEW s \in Requests
        PROVE  Good(job[s])'
    <2>1. PICK j \in Jobs : j = job'[s] /\ (s = r => j = new) /\ (s # r => j = job[s])
      BY <1>1
    <2>2. CASE s = r
      BY <2>1, <2>2, GoodNext
    <2>3. CASE s # r
      <3>1. Good(j)
        BY <1>1, <2>1, <2>3
      <3>2. Good(j)'
        BY <3>1, GoodKept
      <3> QED
        BY <2>1, <3>2, GoodNext
    <2> QED
      BY <2>2, <2>3
  <1> QED
    BY <1>1, <1>2

\* A step that only moves one request on keeps the invariant.
LEMMA JobMoves ==
    ASSUME Inv, NEW r \in Requests, NEW new \in Jobs, Good(new),
           job' = [job EXCEPT ![r] = new], UNCHANGED <<now, sealed, marker, ended, backend>>
    PROVE  Inv'
  <1>1. Grows
    BY DEF Grows, Inv, TypeOK
  <1>2. Good(new)'
    BY <1>1, GoodKept
  <1>3. job' \in [Requests -> Jobs] /\ \A s \in Requests : Good(job[s])'
    BY <1>1, <1>2, OneMoves
  <1>4. TypeOK'
    <2>1. \A s \in Requests : job'[s].step \in DOMAIN AfterHas => job'[s].session # NoCookie
      BY <1>3 DEF Good
    <2> QED
      BY <1>3, <2>1 DEF Inv, TypeOK
  <1> QED
    BY <1>3, <1>4 DEF Inv, CapIsFixed, MarkerIsCap, Covers, EndedIsMarked

\* touch keeps the session and its cap, and never rolls past the cap.
LEMMA TouchKeepsCap ==
    ASSUME TypeOK, NEW i \in Instances, NEW session \in Cookies
    PROVE  LET t == Touch(session, i)
           IN  /\ t \in Cookies
               /\ t.sid = session.sid /\ t.abs = session.abs
               /\ t.exp <= t.abs
  <1>1. Clock(i) + IdleTtl \in Nat /\ session.abs \in Nat
    BY ClockType, SessionsAssumption DEF Cookies
  <1>2. Earlier(Clock(i) + IdleTtl, session.abs) \in Nat
        /\ Earlier(Clock(i) + IdleTtl, session.abs) <= session.abs
    BY <1>1 DEF Earlier
  <1> QED
    BY <1>2 DEF Touch, Cookies

\* Setting one more cookie with the cap of its session keeps the invariant.
LEMMA CookieSet ==
    ASSUME Inv, NEW r \in Requests, NEW cookie \in Cookies,
           cookie.exp <= cookie.abs,
           \A d \in sealed : d.sid = cookie.sid => d.abs = cookie.abs,
           sealed' = sealed \cup {cookie}, Answered(r), UNCHANGED <<now, marker, ended, backend>>
    PROVE  Inv'
  <1>1. Grows
    BY DEF Grows, Inv, TypeOK
  <1>2. job' \in [Requests -> Jobs] /\ \A s \in Requests : Good(job[s])'
    BY <1>1, OneMoves, NoJobGood DEF Answered
  <1>3. TypeOK'
    <2>1. \A s \in Requests : job'[s].step \in DOMAIN AfterHas => job'[s].session # NoCookie
      BY <1>2 DEF Good
    <2> QED
      BY <1>2, <2>1 DEF Inv, TypeOK
  <1>4. CapIsFixed'
    BY DEF Inv, CapIsFixed
  <1>5. MarkerIsCap'
    BY DEF Inv, MarkerIsCap, Covers
  <1> QED
    BY <1>2, <1>3, <1>4, <1>5 DEF Inv, EndedIsMarked

\* A session whose marker an instance finds is marked up to its cap.
LEMMA RevokedIsCovered ==
    ASSUME Inv, NEW c \in sealed, NEW i \in Instances, Revoked(c.sid, i)
    PROVE  Covers(c.sid, c.abs)
  <1>1. marker[c.sid] \in Nat /\ Clock(i) \in Nat /\ Clock(i) >= 1 /\ now >= 1 /\ now \in Nat
    BY ClockType DEF Inv, TypeOK, Cookies
  <1>2. marker[c.sid] # 0
    BY <1>1 DEF Revoked
  <1> QED
    BY <1>2, MarkerCovers

\* A claim leaves a marker that covers the session, and shortens none.
LEMMA MarkerWritten ==
    ASSUME Inv, NEW j \in Jobs, Good(j), j.step = "revokeClaim", j.ttl # 0,
           marker' = Claimed(j), UNCHANGED <<now, sealed, ended, backend>>
    PROVE  /\ Grows /\ MarkerIsCap' /\ EndedIsMarked' /\ CapIsFixed'
           /\ marker' \in [Sids -> Nat] /\ Covers(j.session.sid, j.session.abs)'
  <1> PICK s : s = j.session
    OBVIOUS
  <1>1. /\ s \in sealed /\ j.at \in Instances /\ s.abs > 0
        /\ j.ttl \in Nat /\ j.ttl + Clock(j.at) >= s.abs
    BY DEF Good, TtlIsRight, Jobs
  <1>2. /\ s.sid \in Sids /\ s.abs \in Nat /\ marker \in [Sids -> Nat]
        /\ now \in Nat /\ now >= 1 /\ Offset[j.at] \in Nat
        /\ backend \in {"record", "alarm"}
    BY <1>1, SessionsAssumption DEF Inv, TypeOK, Cookies
  <1>3. CASE Revoked(s.sid, j.at)
    <2>1. marker' = marker
      BY <1>3 DEF Claimed
    <2>2. Covers(s.sid, s.abs)
      BY <1>1, <1>3, RevokedIsCovered
    <2> QED
      BY <1>2, <2>1, <2>2 DEF Grows, Inv, MarkerIsCap, Covers, EndedIsMarked, CapIsFixed
  <1>4. CASE ~Revoked(s.sid, j.at)
    <2> DEFINE until == IF backend = "record" THEN s.abs ELSE now + j.ttl
    <2>1. marker' = [marker EXCEPT ![s.sid] = until]
      BY <1>4 DEF Claimed
    <2>2. until \in Nat /\ until # 0 /\ marker[s.sid] <= until
      <3>1. CASE backend = "record"
        BY <1>1, <1>2, <3>1, MarkerCovers
      <3>2. CASE backend = "alarm"
        BY <1>1, <1>2, <1>4, <3>2 DEF Revoked
      <3> QED
        BY <1>2, <3>1, <3>2
    <2>3. /\ backend = "record" => until = s.abs
          /\ backend = "alarm" => until + Offset[j.at] >= s.abs
      BY <1>1, <1>2 DEF Clock
    <2> HIDE DEF until
    <2>4. Grows
      BY <1>2, <2>1, <2>2 DEF Grows
    <2>5. Covers(s.sid, s.abs)'
      BY <1>1, <1>2, <2>1, <2>2, <2>3 DEF Covers
    <2>6. MarkerIsCap'
      <3>1. ASSUME NEW sid \in Sids, sid # s.sid, marker'[sid] # 0
            PROVE  \E c \in sealed' : /\ c.sid = sid /\ Covers(sid, c.abs)'
                                      /\ backend' = "record" => marker'[sid] = c.abs
        <4>1. marker'[sid] = marker[sid]
          BY <1>2, <2>1, <3>1
        <4> QED
          BY <3>1, <4>1 DEF Inv, MarkerIsCap, Covers
      <3> QED
        BY <1>1, <1>2, <2>1, <2>3, <2>5, <3>1 DEF MarkerIsCap
    <2>7. EndedIsMarked'
      BY <1>2, <2>1, <2>2 DEF Inv, EndedIsMarked
    <2> QED
      BY <1>2, <2>1, <2>2, <2>4, <2>5, <2>6, <2>7 DEF Inv, CapIsFixed
  <1> QED
    BY <1>3, <1>4

--------------------------------------------------------------------------------
(* The steps *)

\* There is no session and no request at first.
LEMMA Initially == Init => Inv
  <1> SUFFICES ASSUME Init PROVE Inv
    OBVIOUS
  <1>1. \A r \in Requests : job[r] = NoJob
    BY DEF Init
  <1>2. \A r \in Requests : Good(job[r])
    BY <1>1, NoJobGood
  <1>3. TypeOK
    BY <1>1, NoJobGood DEF Init, TypeOK, NoJob, AfterHas
  <1> QED
    BY <1>2, <1>3 DEF Init, Inv, CapIsFixed, MarkerIsCap, EndedIsMarked

\* A request arrives: what it will present is a cookie that was set.
LEMMA PresentStep ==
    ASSUME Inv, NEW r \in Requests, NEW i \in Instances, NEW c \in Clients,
           NEW cookie \in Presentable, Present(r, i, c, cookie)
    PROVE  Inv'
  <1>1. job[r] \in Jobs /\ Good(job[r]) /\ cookie \in Cookies \cup {NoCookie}
    BY DEF Inv, TypeOK, Presentable
  <1>2. PICK new : new = [job[r] EXCEPT
                    !.at = i, !.client = c, !.session = Unsealed(cookie, i),
                    !.step = IF Readable(cookie, i) THEN "has" ELSE "decide"]
    OBVIOUS
  <1>3. new \in Jobs
    BY <1>1, <1>2 DEF Jobs, Steps, Unsealed
  <1>4. Good(new)
    BY <1>1, <1>2 DEF Good, Jobs, Looping, AfterHas, Unsealed, Readable, Presentable
  <1>5. job' = [job EXCEPT ![r] = new] /\ UNCHANGED <<now, sealed, marker, ended, backend>>
    BY <1>2 DEF Present
  <1> QED
    BY <1>3, <1>4, <1>5, JobMoves

\* The store answers about a marker, or does not.
LEMMA AskMarkerStep ==
    ASSUME Inv, NEW r \in Requests, AskMarker(r)
    PROVE  Inv'
  <1> DEFINE j == job[r]
  <1>1. j \in Jobs /\ Good(j) /\ j.step \in DOMAIN AfterHas
    BY DEF Inv, TypeOK, AskMarker
  <1>2. UNCHANGED <<now, sealed, marker, ended, backend>>
    BY DEF AskMarker
  <1>3. CASE Answered(r)
    BY <1>2, <1>3, JobMoves, NoJobGood DEF Answered
  <1>4. CASE ~Answered(r)
    <2> DEFINE found == IF Revoked(j.session.sid, j.at) THEN NoCookie ELSE j.session
               ttl == IF j.step = "revokeHas" THEN TtlLeft(found, j.at) ELSE 0
    <2>1. PICK new : new = [j EXCEPT !.step = AfterHas[j.step], !.session = found, !.ttl = ttl]
      OBVIOUS
    <2>2. job' = [job EXCEPT ![r] = new]
      BY <1>4, <2>1 DEF AskMarker
    <2>f. found \in Cookies \cup {NoCookie} /\ found \in sealed \cup {NoCookie}
      BY <1>1 DEF Good, Inv, TypeOK
    <2>t. ASSUME j.step = "revokeHas"
          PROVE  ttl \in Nat /\ ttl = TtlLeft(found, j.at) /\ Clock(j.at) \in Nat
                 /\ Clock(j.at) >= 1
      <3>1. Clock(j.at) \in Nat /\ Clock(j.at) >= 1
        BY <1>1, <2>t, ClockType DEF Good, Inv, TypeOK
      <3>2. found # NoCookie => found.abs \in Nat
        BY <2>f DEF Cookies
      <3> HIDE DEF found
      <3> QED
        BY <2>t, <3>1, <3>2 DEF TtlLeft
    <2>u. ttl \in Nat
      BY <2>t
    <2>3. /\ j.step \in {"has", "signOutHas", "revokeHas"}
          /\ AfterHas[j.step] \in {"decide", "signOutDecide", "revokeClaim"}
          /\ AfterHas[j.step] = "revokeClaim" <=> j.step = "revokeHas"
      BY <1>1 DEF AfterHas
    <2> HIDE DEF found, ttl
    <2>4. new \in Jobs
      BY <1>1, <2>1, <2>3, <2>f, <2>u DEF Jobs, Steps
    <2>5. /\ new.step = AfterHas[j.step] /\ new.at = j.at /\ new.jar = j.jar
          /\ new.targets = j.targets /\ new.left = j.left
          /\ new.session = found /\ new.ttl = ttl
      BY <1>1, <2>1 DEF Jobs
    <2>6. ASSUME new.step \in Looping, NEW n \in new.targets \ new.left
          PROVE  Dealt(new, new.jar[n])
      <3>1. j.step = "revokeHas" /\ Dealt(j, j.jar[n]) /\ j.at \in Instances
        BY <2>3, <2>5, <2>6, <1>1 DEF Good, Looping
      <3>2. j.session \in sealed
        BY <1>1 DEF Good
      <3>3. Revoked(j.session.sid, j.at) => Covers(j.session.sid, j.session.abs)
        BY <3>1, <3>2, RevokedIsCovered
      <3>4. ~Revoked(j.session.sid, j.at) => found = j.session
        BY DEF found
      <3> QED
        BY <2>3, <2>5, <3>1, <3>3, <3>4 DEF Dealt
    <2>8. ASSUME new.step = "revokeClaim"
          PROVE  TtlIsRight(new)
      <3>1. j.step = "revokeHas"
        BY <2>3, <2>5, <2>8
      <3>2. found # NoCookie => found.abs \in Nat
        BY <2>f DEF Cookies
      <3> QED
        BY <2>5, <2>t, <3>1, <3>2 DEF TtlIsRight, TtlLeft
    <2>7. Good(new)
      BY <1>1, <2>3, <2>5, <2>6, <2>8, <2>f DEF Good, AfterHas
    <2> QED
      BY <1>2, <2>2, <2>4, <2>7, JobMoves
  <1> QED
    BY <1>3, <1>4

\* The three ends of a sign-in that set a cookie.
LEMMA CompleteStep ==
    ASSUME Inv, NEW r \in Requests,
           AnswerFromSession(r) \/ StepUp(r) \/ \E sid \in Sids : SignIn(r, sid)
    PROVE  Inv'
  <1>1. /\ job[r] \in Jobs /\ Good(job[r]) /\ job[r].step = "decide"
        /\ job[r].at \in Instances /\ Clock(job[r].at) \in Nat
    BY ClockType DEF Inv, TypeOK, AnswerFromSession, StepUp, SignIn, Good
  <1>2. ASSUME NEW session \in Cookies, Complete(r, session),
               \A d \in sealed : d.sid = session.sid => d.abs = session.abs
        PROVE  Inv'
    <2>1. PICK t : t = Touch(session, job[r].at)
      OBVIOUS
    <2>2. t \in Cookies /\ t.sid = session.sid /\ t.abs = session.abs /\ t.exp <= t.abs
      BY <1>1, <2>1, TouchKeepsCap DEF Inv
    <2> QED
      BY <1>2, <2>1, <2>2, CookieSet DEF Complete
  <1>3. CASE AnswerFromSession(r)
    <2>1. job[r].session \in sealed /\ job[r].session \in Cookies
      BY <1>1, <1>3 DEF AnswerFromSession, Good, Inv, TypeOK
    <2>2. \A d \in sealed : d.sid = job[r].session.sid => d.abs = job[r].session.abs
      BY <2>1 DEF Inv, CapIsFixed
    <2> QED
      BY <1>2, <1>3, <2>1, <2>2 DEF AnswerFromSession
  <1>4. CASE StepUp(r)
    <2>1. job[r].session \in sealed /\ job[r].session \in Cookies
      BY <1>1, <1>4 DEF StepUp, Good, Inv, TypeOK
    <2>2. PICK again : again = Reauthenticate(job[r].session, job[r].at)
      OBVIOUS
    <2>3. again \in Cookies /\ again.sid = job[r].session.sid /\ again.abs = job[r].session.abs
      BY <1>1, <2>1, <2>2, SessionsAssumption DEF Reauthenticate, Cookies
    <2>4. \A d \in sealed : d.sid = again.sid => d.abs = again.abs
      BY <2>1, <2>3 DEF Inv, CapIsFixed
    <2> QED
      BY <1>2, <1>4, <2>2, <2>3, <2>4 DEF StepUp
  <1>5. ASSUME NEW sid \in Sids, SignIn(r, sid)
        PROVE  Inv'
    <2>1. PICK new : new = NewSession(sid, CookieName[job[r].client], job[r].at)
      OBVIOUS
    <2>2. new \in Cookies /\ new.sid = sid
      BY <1>1, <2>1, SessionsAssumption DEF NewSession, Cookies, Jobs
    <2>3. \A d \in sealed : d.sid # sid
      BY <1>5 DEF SignIn
    <2> QED
      BY <1>2, <1>5, <2>1, <2>2, <2>3 DEF SignIn
  <1> QED
    BY <1>3, <1>4, <1>5

\* A sign-out arrives, is decided upon and is confirmed.
LEMMA SignOutStep ==
    ASSUME Inv, NEW r \in Requests, NEW i \in Instances, NEW jar \in [Names -> Presentable],
           \/ \E c \in Clients \cup {NoClient}, cookie \in Presentable : SignOut(r, i, c, cookie)
           \/ SignOutDecide(r)
           \/ Confirm(r, i, jar)
    PROVE  Inv'
  <1>1. job[r] \in Jobs /\ Good(job[r])
    BY DEF Inv, TypeOK
  <1>2. jar \in Jars /\ \A n \in Names : jar[n] \in sealed \cup {NoCookie}
    BY DEF Inv, TypeOK, Jars, Presentable
  <1>3. UNCHANGED <<now, sealed, marker, ended, backend>>
    BY DEF SignOut, SignOutDecide, Confirm
  <1>4. ASSUME NEW c \in Clients \cup {NoClient}, NEW cookie \in Presentable,
               SignOut(r, i, c, cookie)
        PROVE  Inv'
    <2>1. CookieName[c] \in Names /\ cookie \in sealed \cup {NoCookie} /\ sealed \subseteq Cookies
      BY SessionsAssumption DEF Inv, TypeOK, Presentable
    <2>j. PICK one : one = [EmptyJar EXCEPT ![CookieName[c]] = cookie]
      OBVIOUS
    <2>k. one \in Jars /\ \A n \in Names : one[n] \in sealed \cup {NoCookie}
      BY <2>1, <2>j DEF EmptyJar, Jars
    <2>2. PICK new : new = [job[r] EXCEPT
                        !.at = i, !.client = c, !.jar = one, !.session = Unsealed(cookie, i),
                        !.step = IF Readable(cookie, i) THEN "signOutHas" ELSE "signOutDecide"]
      OBVIOUS
    <2>3. new \in Jobs
      BY <1>1, <2>1, <2>2, <2>k DEF Jobs, Steps, Unsealed
    <2>4. Good(new)
      BY <1>1, <2>1, <2>2, <2>k DEF Good, Jobs, Looping, AfterHas, Unsealed, Readable
    <2>5. job' = [job EXCEPT ![r] = new]
      BY <1>4, <2>2, <2>j DEF SignOut
    <2> QED
      BY <1>3, <2>3, <2>4, <2>5, JobMoves
  <1>5. ASSUME NEW at \in Instances, NEW held \in Jars, NEW names \in SUBSET Names,
               \A n \in Names : held[n] \in sealed \cup {NoCookie},
               Finish(r, at, held, names)
        PROVE  Inv'
    <2>j. PICK read : read = [n \in Names |-> IF n \in names THEN held[n] ELSE NoCookie]
      OBVIOUS
    <2>k. read \in Jars /\ \A n \in Names : read[n] \in sealed \cup {NoCookie}
      BY <1>5, <2>j DEF Jars
    <2>1. PICK new : new = [job[r] EXCEPT
                        !.at = at, !.jar = read, !.session = NoCookie, !.good = 0,
                        !.step = "revoke", !.targets = names, !.left = names]
      OBVIOUS
    <2>2. new \in Jobs
      BY <1>1, <1>5, <2>1, <2>k DEF Jobs, Steps
    <2>3. Good(new)
      BY <1>1, <1>5, <2>1, <2>k DEF Good, Jobs, Looping, AfterHas
    <2>4. job' = [job EXCEPT ![r] = new]
      BY <1>5, <2>1, <2>j DEF Finish
    <2> QED
      BY <1>3, <2>2, <2>3, <2>4, JobMoves
  <1>6. CASE SignOutDecide(r)
    <2>1. /\ job[r].at \in Instances /\ job[r].jar \in Jars /\ job[r].client \in Clients \cup {NoClient}
          /\ \A n \in Names : job[r].jar[n] \in sealed \cup {NoCookie}
      BY <1>1, <1>6 DEF SignOutDecide, Good, Jobs
    <2>2. CASE job[r].session # NoCookie /\ Asks(job[r].client)
      <3>1. PICK new : new = [NoJob EXCEPT !.step = "confirm", !.client = job[r].client,
                                           !.good = Clock(job[r].at) + ConfirmTtl]
        OBVIOUS
      <3>2. Clock(job[r].at) + ConfirmTtl \in Nat
        BY <2>1, ClockType, SessionsAssumption DEF Inv
      <3>3. new \in Jobs
        BY <2>1, <3>1, <3>2, NoJobGood DEF Jobs, Steps
      <3>4. Good(new)
        BY <3>1, NoJobGood DEF Good, Jobs, Looping, AfterHas
      <3>5. job' = [job EXCEPT ![r] = new]
        BY <1>6, <2>2, <3>1 DEF SignOutDecide
      <3> QED
        BY <1>3, <3>3, <3>4, <3>5, JobMoves
    <2>3. CASE ~(job[r].session # NoCookie /\ Asks(job[r].client))
      <3>1. Finish(r, job[r].at, job[r].jar, {CookieName[job[r].client]})
        BY <1>6, <2>3 DEF SignOutDecide
      <3>2. {CookieName[job[r].client]} \in SUBSET Names
        BY <2>1, SessionsAssumption
      <3> QED
        BY <1>5, <2>1, <3>1, <3>2
    <2> QED
      BY <2>2, <2>3
  <1>7. CASE Confirm(r, i, jar)
    <2>1. CASE Answered(r)
      BY <1>3, <2>1, JobMoves, NoJobGood DEF Answered
    <2>2. CASE ~Answered(r)
      <3>1. PICK names : /\ names = (IF Global(job[r].client) THEN {n \in Names : jar[n] # NoCookie}
                                     ELSE {CookieName[job[r].client]})
                         /\ Finish(r, i, jar, names)
        BY <1>7, <2>2 DEF Confirm
      <3>2. names \in SUBSET Names
        BY <1>1, <3>1, SessionsAssumption DEF Jobs
      <3> QED
        BY <1>2, <1>5, <3>1, <3>2
    <2> QED
      BY <2>1, <2>2
  <1> QED
    BY <1>4, <1>6, <1>7

\* finish reads the next cookie.
LEMMA RevokeReadStep ==
    ASSUME Inv, NEW r \in Requests, NEW n \in Names, RevokeRead(r, n)
    PROVE  Inv'
  <1> DEFINE j == job[r]
             cookie == j.jar[n]
  <1>1. /\ j \in Jobs /\ Good(j) /\ j.step = "revoke" /\ n \in j.left
        /\ j.at \in Instances /\ cookie \in sealed \cup {NoCookie} /\ sealed \subseteq Cookies
    BY DEF Inv, TypeOK, RevokeRead, Good
  <1>2. PICK new : new = [j EXCEPT !.session = Unsealed(cookie, j.at), !.left = j.left \ {n},
                            !.step = IF Readable(cookie, j.at) THEN "revokeHas" ELSE "revoke"]
    OBVIOUS
  <1>3. new \in Jobs
    BY <1>1, <1>2 DEF Jobs, Steps, Unsealed
  <1>4. /\ new.step = (IF Readable(cookie, j.at) THEN "revokeHas" ELSE "revoke")
        /\ new.session = Unsealed(cookie, j.at)
        /\ new.at = j.at /\ new.jar = j.jar /\ new.targets = j.targets /\ new.left = j.left \ {n}
    BY <1>1, <1>2 DEF Jobs
  <1>5. ASSUME NEW m \in new.targets \ new.left
        PROVE  Dealt(new, new.jar[m])
    <2>1. CASE m = n
      <3>1. /\ cookie # NoCookie => cookie \in Cookies
            /\ Clock(j.at) \in Nat
        BY <1>1, ClockType DEF Inv
      <3>2. CASE Readable(cookie, j.at)
        BY <1>4, <2>1, <3>2 DEF Dealt, Unsealed
      <3>3. CASE ~Readable(cookie, j.at)
        BY <1>4, <2>1, <3>1, <3>3 DEF Dealt, Readable, Cookies
      <3> QED
        BY <3>2, <3>3
    <2>2. CASE m # n
      <3>1. Dealt(j, j.jar[m])
        BY <1>1, <1>4, <2>2 DEF Good, Looping
      <3> QED
        BY <1>1, <1>4, <3>1 DEF Dealt
    <2> QED
      BY <2>1, <2>2
  <1>6. Good(new)
    BY <1>1, <1>4, <1>5 DEF Good, Looping, AfterHas, Unsealed, Readable
  <1>7. job' = [job EXCEPT ![r] = new] /\ UNCHANGED <<now, sealed, marker, ended, backend>>
    BY <1>2 DEF RevokeRead
  <1> QED
    BY <1>3, <1>6, <1>7, JobMoves

\* The invariant after one request has moved and a marker may have been written.
LEMMA MarkerMoves ==
    ASSUME Inv, NEW r \in Requests, NEW new \in Jobs, Good(new)', Grows,
           job' = [job EXCEPT ![r] = new], UNCHANGED <<now, sealed, ended, backend>>,
           marker' \in [Sids -> Nat], MarkerIsCap', EndedIsMarked'
    PROVE  Inv'
  <1>1. job' \in [Requests -> Jobs] /\ \A s \in Requests : Good(job[s])'
    BY OneMoves
  <1>2. TypeOK'
    <2>1. \A s \in Requests : job'[s].step \in DOMAIN AfterHas => job'[s].session # NoCookie
      BY <1>1 DEF Good
    <2> QED
      BY <1>1, <2>1 DEF Inv, TypeOK
  <1> QED
    BY <1>1, <1>2 DEF Inv, CapIsFixed

\* finish claims the marker of the cookie it has read.
LEMMA RevokeClaimStep ==
    ASSUME Inv, NEW r \in Requests, RevokeClaim(r)
    PROVE  Inv'
  <1> PICK j : j = job[r]
    OBVIOUS
  <1> PICK s : s = j.session
    OBVIOUS
  <1>1. /\ j \in Jobs /\ Good(j) /\ j.step = "revokeClaim" /\ j.at \in Instances
        /\ s \in sealed \cup {NoCookie} /\ sealed \subseteq Cookies
        /\ Clock(j.at) \in Nat /\ UNCHANGED <<now, sealed, ended, backend>>
    BY ClockType DEF Inv, TypeOK, RevokeClaim, Good
  <1>2. PICK new : new = [j EXCEPT !.step = "revoke", !.session = NoCookie, !.ttl = 0]
    OBVIOUS
  <1>3. new \in Jobs
    BY <1>1, <1>2 DEF Jobs, Steps
  <1>4. /\ new.step = "revoke" /\ new.session = NoCookie
        /\ new.at = j.at /\ new.jar = j.jar /\ new.targets = j.targets /\ new.left = j.left
    BY <1>1, <1>2 DEF Jobs
  <1>5. job' = [job EXCEPT ![r] = new]
    BY <1>2 DEF RevokeClaim
  <1>6. /\ Grows /\ MarkerIsCap' /\ EndedIsMarked' /\ marker' \in [Sids -> Nat]
        /\ j.ttl # 0 => Covers(s.sid, s.abs)'
    <2>1. CASE j.ttl # 0
      <3>1. marker' = Claimed(j)
        BY <2>1 DEF RevokeClaim
      <3> QED
        BY <1>1, <2>1, <3>1, MarkerWritten
    <2>2. CASE j.ttl = 0
      <3>1. marker' = marker
        BY <2>2 DEF RevokeClaim
      <3> QED
        BY <1>1, <2>2, <3>1 DEF Grows, Inv, TypeOK, MarkerIsCap, Covers, EndedIsMarked
    <2> QED
      BY <2>1, <2>2
  <1>8. ASSUME NEW n \in new.targets \ new.left
        PROVE  Dealt(new, new.jar[n])'
    <2>1. Dealt(j, j.jar[n]) /\ n \in Names /\ j.jar[n] \in sealed \cup {NoCookie}
      BY <1>1, <1>4 DEF Good, Looping, Jobs
    <2>2. PICK c : c = j.jar[n]
      OBVIOUS
    <2>3. Clock(new.at)' = Clock(j.at)
      BY <1>1, <1>4 DEF Clock
    <2>4. ASSUME c # NoCookie, c.exp >= Clock(j.at), c.abs > Clock(j.at)
          PROVE  Covers(c.sid, c.abs)'
      <3>1. c \in Cookies /\ c.sid \in Sids /\ c.abs \in Nat
        BY <1>1, <2>1, <2>2, <2>4 DEF Cookies
      <3>2. CASE s = c
        BY <1>1, <1>6, <2>4, <3>2 DEF Good, TtlIsRight
      <3>3. CASE s # c
        <4>1. Covers(c.sid, c.abs)
          BY <2>1, <2>2, <2>4, <3>3 DEF Dealt
        <4> QED
          BY <1>6, <3>1, <4>1, CoversKept
      <3> QED
        BY <3>2, <3>3
    <2>5. new.jar[n] = c
      BY <1>4, <2>2
    <2> QED
      BY <2>3, <2>4, <2>5 DEF Dealt
  <1>9. Good(new)'
    BY <1>1, <1>4, <1>8 DEF Good, Looping, AfterHas
  <1> QED
    BY <1>1, <1>3, <1>5, <1>6, <1>9, MarkerMoves

\* The claim of a marker fails, before or after it was written.
LEMMA RevokeFailsStep ==
    ASSUME Inv, NEW r \in Requests, RevokeFails(r)
    PROVE  Inv'
  <1>1. /\ job[r] \in Jobs /\ Good(job[r]) /\ job[r].step = "revokeClaim" /\ job[r].ttl # 0
        /\ UNCHANGED <<now, sealed, ended, backend>> /\ job' = [job EXCEPT ![r] = NoJob]
    BY DEF Inv, TypeOK, RevokeFails, Answered
  <1>2. CASE marker' = marker
    <2>1. UNCHANGED <<now, sealed, marker, ended, backend>>
      BY <1>1, <1>2
    <2> QED
      BY <1>1, <2>1, JobMoves, NoJobGood
  <1>3. CASE marker' = Claimed(job[r])
    <2>1. Grows /\ MarkerIsCap' /\ EndedIsMarked' /\ marker' \in [Sids -> Nat]
      BY <1>1, <1>3, MarkerWritten
    <2> QED
      BY <1>1, <2>1, MarkerMoves, NoJobGood
  <1> QED
    BY <1>2, <1>3 DEF RevokeFails

\* The person is told: every cookie that was still good has its marker.
LEMMA SignedOutStep ==
    ASSUME Inv, NEW r \in Requests, SignedOut(r)
    PROVE  Inv'
  <1> DEFINE j == job[r]
  <1>1. /\ j \in Jobs /\ Good(j) /\ j.step = "revoke" /\ j.left = {} /\ j.at \in Instances
        /\ Clock(j.at) \in Nat /\ job' = [job EXCEPT ![r] = NoJob]
        /\ UNCHANGED <<now, sealed, marker, backend>>
    BY ClockType DEF Inv, TypeOK, SignedOut, Good, Answered
  <1>2. ASSUME NEW sid \in Sids, ended'[sid] = "inTime"
        PROVE  marker[sid] # 0
    <2>1. CASE ended[sid] = "inTime"
      BY <2>1 DEF Inv, EndedIsMarked
    <2>2. CASE ended[sid] # "inTime"
      <3>1. PICK n \in j.targets : /\ Readable(j.jar[n], j.at)
                                   /\ j.jar[n].sid = sid
                                   /\ j.jar[n].abs > Clock(j.at)
        BY <1>2, <2>2 DEF SignedOut
      <3>2. Dealt(j, j.jar[n]) /\ j.jar[n] \in sealed
        BY <1>1, <3>1 DEF Good, Looping, Jobs, Readable
      <3>3. Covers(sid, j.jar[n].abs)
        BY <1>1, <3>1, <3>2 DEF Dealt, Readable
      <3> QED
        BY <3>3 DEF Covers
    <2> QED
      BY <2>1, <2>2
  <1>3. ended' \in [Sids -> {"no", "inTime", "lastSecond"}]
    BY DEF SignedOut, Inv, TypeOK
  <1>4. Grows
    BY <1>1 DEF Grows, Inv, TypeOK
  <1>5. job' \in [Requests -> Jobs] /\ \A s \in Requests : Good(job[s])'
    BY <1>1, <1>4, OneMoves, NoJobGood
  <1>6. TypeOK'
    <2>1. \A s \in Requests : job'[s].step \in DOMAIN AfterHas => job'[s].session # NoCookie
      BY <1>5 DEF Good
    <2> QED
      BY <1>1, <1>3, <1>5, <2>1 DEF Inv, TypeOK
  <1> QED
    BY <1>1, <1>2, <1>5, <1>6 DEF Inv, CapIsFixed, MarkerIsCap, Covers, EndedIsMarked

\* Time passes.
LEMMA TickStep ==
    ASSUME Inv, Tick
    PROVE  Inv'
  <1>1. Grows /\ now' >= 1
    BY DEF Tick, Grows, Inv, TypeOK
  <1>2. ASSUME NEW s \in Requests
        PROVE  Good(job[s])'
    <2>1. PICK j \in Jobs : j = job[s] /\ j = job'[s] /\ Good(j)
      BY DEF Tick, Inv, TypeOK
    <2> QED
      BY <1>1, <2>1, GoodKept, GoodNext
  <1> QED
    BY <1>1, <1>2 DEF Tick, Inv, TypeOK, CapIsFixed, MarkerIsCap, Covers, EndedIsMarked

\* Every step keeps the invariant.
LEMMA Step == Inv /\ [Next]_vars => Inv'
  <1> SUFFICES ASSUME Inv, [Next]_vars PROVE Inv'
    OBVIOUS
  <1>0. CASE UNCHANGED vars
    BY <1>0 DEF vars, Inv, TypeOK, CapIsFixed, MarkerIsCap, Covers, EndedIsMarked, Good, Dealt,
       TtlIsRight, Clock
  <1>2. ASSUME NEW r \in Requests, NEW i \in Instances,
               \/ \E c \in Clients, cookie \in Presentable : Present(r, i, c, cookie)
               \/ \E c \in Clients \cup {NoClient}, cookie \in Presentable :
                     SignOut(r, i, c, cookie)
               \/ \E jar \in [Names -> Presentable] : Confirm(r, i, jar)
        PROVE  Inv'
    <2>1. EmptyJar \in [Names -> Presentable]
      BY DEF EmptyJar, Presentable
    <2> QED
      BY <1>2, <2>1, PresentStep, SignOutStep
  <1>3. ASSUME NEW r \in Requests, Page(r)
        PROVE  Inv'
    BY <1>3, JobMoves, NoJobGood DEF Page, Answered
  <1>4. ASSUME NEW r \in Requests, SignOutDecide(r)
        PROVE  Inv'
    <2>1. job[r].at \in Instances /\ job[r].jar \in [Names -> Presentable]
      BY <1>4 DEF SignOutDecide, Inv, TypeOK, Good, Jobs, Jars, Presentable
    <2> QED
      BY <1>4, <2>1, SignOutStep
  <1>5. ASSUME NEW r \in Requests,
               \/ AskMarker(r) \/ AnswerFromSession(r) \/ StepUp(r)
               \/ \E sid \in Sids : SignIn(r, sid)
               \/ RevokeClaim(r) \/ RevokeFails(r) \/ SignedOut(r)
               \/ \E n \in Names : RevokeRead(r, n)
        PROVE  Inv'
    BY <1>5, AskMarkerStep, CompleteStep, RevokeClaimStep, RevokeFailsStep, SignedOutStep,
       RevokeReadStep
  <1> QED
    BY <1>0, <1>2, <1>3, <1>4, <1>5, TickStep DEF Next

--------------------------------------------------------------------------------
(* The theorems *)

\* Every behaviour keeps cookies, markers and requests well-formed.
THEOREM TypeCorrect == Spec => []TypeOK
  BY Initially, Step, PTL DEF Spec, Inv

\* All the cookies of a session have the absolute cap it was created with, and
\* none outlives it, however often the session is used and stepped up.
THEOREM CapNeverMoves == Spec => []CapIsFixed
  BY Initially, Step, PTL DEF Spec, Inv

\* A request takes a session for a live one only when the store has just answered
\* that there is no marker.
LEMMA AcceptedIsUnmarked ==
    ASSUME Inv, [Next]_vars, NEW r \in Requests, Accepts(r)
    PROVE  ~Revoked(job[r].session.sid, job[r].at)
  <1>1. job \in [Requests -> Jobs] /\ job[r] \in Jobs
    BY DEF Inv, TypeOK
  <1>2. /\ job[r].step \in {"has", "signOutHas", "revokeHas"}
        /\ AfterHas[job[r].step] \in {"decide", "signOutDecide", "revokeClaim"}
        /\ job'[r].step = AfterHas[job[r].step]
        /\ job'[r].session # NoCookie
    BY DEF Accepts, AfterHas
  <1>3. ~(UNCHANGED vars \/ Tick)
    BY <1>2 DEF vars, Tick
  <1>4. ASSUME NEW s \in Requests, NEW new, job' = [job EXCEPT ![s] = new], s # r
        PROVE  FALSE
    BY <1>1, <1>2, <1>4
  <1>5. AskMarker(r)
    <2>1. ASSUME NEW s \in Requests, NEW i \in Instances,
                 \/ \E c \in Clients, cookie \in Presentable : Present(s, i, c, cookie)
                 \/ \E c \in Clients \cup {NoClient}, cookie \in Presentable :
                       SignOut(s, i, c, cookie)
                 \/ \E jar \in [Names -> Presentable] : Confirm(s, i, jar)
          PROVE  FALSE
      <3>1. job[s].step \in {"idle", "confirm"} /\ \E new : job' = [job EXCEPT ![s] = new]
        BY <2>1 DEF Present, SignOut, Confirm, Finish, Answered
      <3> QED
        BY <1>2, <1>4, <3>1
    <2>2. ASSUME NEW s \in Requests,
                 \/ AnswerFromSession(s) \/ StepUp(s) \/ Page(s)
                 \/ \E sid \in Sids : SignIn(s, sid)
                 \/ SignOutDecide(s) \/ RevokeFails(s) \/ SignedOut(s)
                 \/ \E n \in Names : RevokeRead(s, n)
          PROVE  FALSE
      <3>1. /\ job[s].step \in {"decide", "signOutDecide", "revokeClaim", "revoke"}
            /\ \E new : job' = [job EXCEPT ![s] = new]
        BY <2>2 DEF AnswerFromSession, StepUp, Page, SignIn, SignOutDecide, RevokeFails, SignedOut,
              RevokeRead, Complete, Finish, Answered
      <3> QED
        BY <1>2, <1>4, <3>1
    <2>3. ASSUME NEW s \in Requests, RevokeClaim(s)
          PROVE  FALSE
      BY <1>1, <1>2, <2>3 DEF RevokeClaim
    <2>4. ASSUME NEW s \in Requests, AskMarker(s), s # r
          PROVE  FALSE
      BY <1>1, <1>2, <2>4 DEF AskMarker, Answered
    <2> QED
      BY <1>3, <2>1, <2>2, <2>3, <2>4 DEF Next
  <1>6. CASE Answered(r)
    <2>1. job'[r] = NoJob
      BY <1>1, <1>6 DEF Answered
    <2> QED
      BY <1>2, <2>1 DEF NoJob
  <1>7. CASE ~Answered(r)
    <2> DEFINE found == IF Revoked(job[r].session.sid, job[r].at) THEN NoCookie
                        ELSE job[r].session
    <2>0. \E step, t : job' = [job EXCEPT ![r] = [job[r] EXCEPT !.step = step,
                                                              !.session = found, !.ttl = t]]
      BY <1>5, <1>7 DEF AskMarker
    <2> HIDE DEF found
    <2>1. PICK step, t : job'[r] = [job[r] EXCEPT !.step = step, !.session = found, !.ttl = t]
      BY <1>1, <2>0
    <2>2. job'[r].session = found
      BY <1>1, <2>1 DEF Jobs
    <2> QED
      BY <1>2, <2>2 DEF found
  <1> QED
    BY <1>6, <1>7

\* Once a person has been told that they are signed out, no copy of the session's
\* cookie is accepted again, at any instance, whatever requests were under way: never
\* where the markers are records, and with alarms only once an instance's clock has
\* reached the session's cap.
THEOREM SignOutIsFinal == Spec => SignedOutForGood
  <1> DEFINE Stays == \A r \in Requests :
                 Accepts(r) /\ ended[job[r].session.sid] = "inTime" =>
                     /\ backend = "alarm"
                     /\ \E i \in Instances : Clock(i) >= job[r].session.abs
  <1>1. Inv /\ [Next]_vars => [Stays]_vars
    <2> SUFFICES ASSUME Inv, [Next]_vars, NEW r \in Requests, Accepts(r),
                        ended[job[r].session.sid] = "inTime"
                 PROVE  /\ backend = "alarm"
                        /\ \E i \in Instances : Clock(i) >= job[r].session.abs
      OBVIOUS
    <2> DEFINE s == job[r].session
    <2>1. s \in sealed /\ job[r].at \in Instances
      BY DEF Inv, Good, Accepts, AfterHas
    <2>2. s \in Cookies /\ s.sid \in Sids /\ s.abs \in Nat /\ Clock(job[r].at) \in Nat
      BY <2>1, ClockType DEF Inv, TypeOK, Cookies
    <2>3. Covers(s.sid, s.abs)
      BY <2>1, <2>2, MarkerCovers DEF Inv, EndedIsMarked
    <2>4. ~Revoked(s.sid, job[r].at) /\ s.abs >= Clock(job[r].at)
      BY AcceptedIsUnmarked DEF Accepts
    <2>5. /\ marker[s.sid] \in Nat /\ now \in Nat /\ \A i \in Instances : Offset[i] \in Nat
          /\ backend \in {"record", "alarm"}
      BY <2>2, SessionsAssumption DEF Inv, TypeOK
    <2> HIDE DEF s
    <2>6. backend = "alarm"
      BY <2>2, <2>3, <2>4, <2>5 DEF Covers, Revoked
    <2>7. \E i \in Instances : Clock(i) >= s.abs
      BY <2>2, <2>3, <2>4, <2>5, <2>6 DEF Covers, Revoked, Clock
    <2> QED
      BY <2>6, <2>7 DEF s
  <1> QED
    BY <1>1, Initially, Step, PTL DEF Spec, SignedOutForGood

--------------------------------------------------------------------------------
(* The breadth of a sign-out *)

\* The whole loop of finish keeps the cookies it was started for.
NarrowAll ==
    \A r \in Requests :
        job[r].step \in {"revoke", "revokeHas", "revokeClaim"} /\ job[r].client # NoClient =>
            job[r].targets = {CookieName[job[r].client]}

\* A step moves one request; what it leaves in the loop is as narrow as before.
LEMMA NarrowMoves ==
    ASSUME TypeOK, NarrowAll, NEW r \in Requests, NEW new, job' = [job EXCEPT ![r] = new],
           new.step \in {"revoke", "revokeHas", "revokeClaim"} /\ new.client # NoClient =>
              new.targets = {CookieName[new.client]}
    PROVE  NarrowAll'
  BY DEF TypeOK, NarrowAll

\* Every step keeps the loops narrow.
LEMMA NarrowStep == TypeOK /\ NarrowAll /\ [Next]_vars => NarrowAll'
  <1> SUFFICES ASSUME TypeOK, NarrowAll, [Next]_vars PROVE NarrowAll'
    OBVIOUS
  <1> DEFINE Loop == {"revoke", "revokeHas", "revokeClaim"}
  <1>j. \A r \in Requests : job[r] \in Jobs
    BY DEF TypeOK
  <1>a. ASSUME NEW r \in Requests, Answered(r)
        PROVE  NarrowAll'
    BY <1>a, NarrowMoves DEF Answered, NoJob
  <1>1. ASSUME NEW r \in Requests, NEW i \in Instances, NEW c, NEW cookie, Present(r, i, c, cookie)
        PROVE  NarrowAll'
    <2> DEFINE new == [job[r] EXCEPT !.at = i, !.client = c, !.session = Unsealed(cookie, i),
                          !.step = IF Readable(cookie, i) THEN "has" ELSE "decide"]
    <2>1. job' = [job EXCEPT ![r] = new]
      BY <1>1 DEF Present
    <2>2. new.step \notin Loop
      BY <1>j DEF Jobs
    <2> QED
      BY <2>1, <2>2, NarrowMoves
  <1>2. ASSUME NEW r \in Requests, NEW i \in Instances, NEW c, NEW cookie,
               SignOut(r, i, c, cookie)
        PROVE  NarrowAll'
    <2> DEFINE new == [job[r] EXCEPT !.at = i, !.client = c,
                          !.jar = [EmptyJar EXCEPT ![CookieName[c]] = cookie],
                          !.session = Unsealed(cookie, i),
                          !.step = IF Readable(cookie, i) THEN "signOutHas" ELSE "signOutDecide"]
    <2>1. job' = [job EXCEPT ![r] = new]
      BY <1>2 DEF SignOut
    <2>2. new.step \notin Loop
      BY <1>j DEF Jobs
    <2> QED
      BY <2>1, <2>2, NarrowMoves
  <1>f. ASSUME NEW r \in Requests, NEW i, NEW jar, NEW names, Finish(r, i, jar, names),
               job[r].client # NoClient => names = {CookieName[job[r].client]}
        PROVE  NarrowAll'
    <2> DEFINE new == [job[r] EXCEPT !.at = i,
                          !.jar = [n \in Names |-> IF n \in names THEN jar[n] ELSE NoCookie],
                          !.session = NoCookie, !.good = 0,
                          !.step = "revoke", !.targets = names, !.left = names]
    <2>1. job' = [job EXCEPT ![r] = new]
      BY <1>f DEF Finish
    <2>2. new.client = job[r].client /\ new.targets = names
      BY <1>j DEF Jobs
    <2> QED
      BY <1>f, <2>1, <2>2, NarrowMoves
  <1>3. ASSUME NEW r \in Requests, NEW i \in Instances, NEW jar, Confirm(r, i, jar)
        PROVE  NarrowAll'
    BY <1>3, <1>a, <1>f DEF Confirm, Global
  <1>4. ASSUME NEW r \in Requests, SignOutDecide(r)
        PROVE  NarrowAll'
    <2>1. CASE job[r].session # NoCookie /\ Asks(job[r].client)
      <3> DEFINE new == [NoJob EXCEPT !.step = "confirm", !.client = job[r].client,
                            !.good = Clock(job[r].at) + ConfirmTtl]
      <3>1. job' = [job EXCEPT ![r] = new]
        BY <1>4, <2>1 DEF SignOutDecide
      <3>2. new.step = "confirm"
        BY DEF NoJob
      <3> QED
        BY <3>1, <3>2, NarrowMoves
    <2>2. CASE ~(job[r].session # NoCookie /\ Asks(job[r].client))
      BY <1>4, <1>f, <2>2 DEF SignOutDecide
    <2> QED
      BY <2>1, <2>2
  <1>k. ASSUME NEW r \in Requests, NEW new, job' = [job EXCEPT ![r] = new],
               new.step \in Loop => job[r].step \in Loop,
               new.client = job[r].client, new.targets = job[r].targets
        PROVE  NarrowAll'
    BY <1>k, NarrowMoves DEF NarrowAll
  <1>5. ASSUME NEW r \in Requests, AskMarker(r)
        PROVE  NarrowAll'
    <2>1. CASE Answered(r)
      BY <1>a, <2>1
    <2>2. CASE ~Answered(r)
      <3> PICK s, t : job' = [job EXCEPT ![r] = [job[r] EXCEPT !.step = AfterHas[job[r].step],
                                                               !.session = s, !.ttl = t]]
        BY <1>5, <2>2 DEF AskMarker
      <3> DEFINE new == [job[r] EXCEPT !.step = AfterHas[job[r].step], !.session = s, !.ttl = t]
      <3>1. job' = [job EXCEPT ![r] = new]
        OBVIOUS
      <3>2. new.client = job[r].client /\ new.targets = job[r].targets
        BY <1>j DEF Jobs
      <3>3. new.step \in Loop => job[r].step \in Loop
        BY <1>5, <1>j DEF AskMarker, AfterHas, Jobs
      <3> QED
        BY <1>k, <3>1, <3>2, <3>3
    <2> QED
      BY <2>1, <2>2
  <1>6. ASSUME NEW r \in Requests, NEW n, RevokeRead(r, n)
        PROVE  NarrowAll'
    <2> DEFINE new == [job[r] EXCEPT !.session = Unsealed(job[r].jar[n], job[r].at),
                          !.left = job[r].left \ {n},
                          !.step = IF Readable(job[r].jar[n], job[r].at) THEN "revokeHas" ELSE "revoke"]
    <2>1. job' = [job EXCEPT ![r] = new] /\ job[r].step \in Loop
      BY <1>6 DEF RevokeRead
    <2>2. new.client = job[r].client /\ new.targets = job[r].targets
      BY <1>j DEF Jobs
    <2> QED
      BY <1>k, <2>1, <2>2
  <1>7. ASSUME NEW r \in Requests, RevokeClaim(r)
        PROVE  NarrowAll'
    <2> DEFINE new == [job[r] EXCEPT !.step = "revoke", !.session = NoCookie, !.ttl = 0]
    <2>1. job' = [job EXCEPT ![r] = new] /\ job[r].step \in Loop
      BY <1>7, <1>j DEF RevokeClaim, TypeOK, Jobs
    <2>2. new.client = job[r].client /\ new.targets = job[r].targets
      BY <1>j DEF Jobs
    <2> QED
      BY <1>k, <2>1, <2>2
  <1>8. ASSUME NEW r \in Requests,
               \/ AnswerFromSession(r) \/ StepUp(r) \/ Page(r) \/ \E sid \in Sids : SignIn(r, sid)
               \/ RevokeFails(r) \/ SignedOut(r)
        PROVE  NarrowAll'
    <2>1. Answered(r)
      BY <1>8 DEF AnswerFromSession, StepUp, Page, SignIn, Complete, RevokeFails, SignedOut
    <2> QED
      BY <1>a, <2>1
  <1>9. CASE UNCHANGED job
    BY <1>9 DEF NarrowAll
  <1> QED
    BY <1>1, <1>2, <1>3, <1>4, <1>5, <1>6, <1>7, <1>8, <1>9 DEF Next, Tick, vars

\* A relying party's sign-out never reaches past the cookie that party uses, whatever
\* the browser holds by the time the confirmation comes back
\* (src/endpoints/logout.js:71-73, 104-110).
THEOREM SignOutIsNarrow == Spec => []ClientSignOutIsNarrow
  <1>1. Init => NarrowAll
    BY DEF Init, NarrowAll, NoJob
  <1>2. NarrowAll => ClientSignOutIsNarrow
    BY DEF NarrowAll, ClientSignOutIsNarrow
  <1> QED
    BY <1>1, <1>2, NarrowStep, TypeCorrect, PTL DEF Spec
================================================================================
