------------------------------- MODULE PeerJwks -------------------------------
(***************************************************************************)
(* Several deployments (sites) answer as one issuer, each signing with a   *)
(* key of its own.  A request for /jwks.json at a site is answered with    *)
(* that site's key and the keys of the peers it lists, taken from a cache, *)
(* from a fetch, or from the cache past its time while a peer is away      *)
(* (src/keys/peers.js, handleJwks in src/endpoints/discovery.js).          *)
(*                                                                         *)
(* Every await is a step of its own: other requests, other sites and the   *)
(* clock move on meanwhile, for any time.  PEER_JWKS_TIMEOUT_MS ends with   *)
(* the headers of an answer, and neither the reading of its body nor a call *)
(* of the cache is timed throughout, so the model has no deadlines: what is *)
(* said of time is said in terms of how long a resolution really took.      *)
(***************************************************************************)
EXTENDS Integers, FiniteSets

CONSTANTS
    Sites,          \* deployments of the issuer
    PeersOf,        \* PeersOf[i]: the sites that PEER_JWKS_URLS of i names
    Caches,         \* cache backends in use
    CacheOf,        \* CacheOf[i]: the backend of site i
    Remote,         \* the caches outside the process: KV and DynamoDB
    Requests,       \* requests for /jwks.json
    Followed,       \* bound: the sites that are asked
    Offset,         \* Offset[i]: how far the clock of i is ahead
    Drift,          \* the largest offset
    CacheTtl,       \* PEER_JWKS_CACHE_TTL
    StaleTtl,       \* PEER_JWKS_STALE_TTL
    RetryAfter,     \* PEER_JWKS_RETRY_AFTER
    MaxVersion,     \* bound: how often a site changes its key
    MaxTime,        \* bound: the clock stops here
    NoSite

ASSUME SitesAssumption ==
    /\ NoSite \notin Sites
    /\ PeersOf \in [Sites -> SUBSET Sites]
    /\ \A i \in Sites : i \notin PeersOf[i]
    /\ CacheOf \in [Sites -> Caches]
    /\ Remote \subseteq Caches /\ Followed \subseteq Sites
    /\ \A i \in Followed : PeersOf[i] # {}

\* What loadConfig bounds (src/config.js:933-980), and clocks that are close.
ASSUME TimesAssumption ==
    /\ CacheTtl \in Nat /\ StaleTtl \in Nat /\ RetryAfter \in Nat
    /\ MaxVersion \in Nat \ {0} /\ MaxTime \in Nat
    /\ Drift \in Nat /\ Offset \in [Sites -> 0..Drift]

Larger(a, b) == IF a > b THEN a ELSE b

VARIABLES
    clock,      \* true time, in seconds
    version,    \* version[i]: the key site i signs with and publishes
    retiredAt,  \* retiredAt[i][v]: when i stopped publishing key v
    cache,      \* cache[c][u]: what cache c holds of peer u, or NoEntry
    newest,     \* newest[c][u]: the latest fetchedAt c was ever given, a history
    retryAfter, \* retryAfter[i][u]: when i may try u again
    job,        \* job[i][u]: the resolution in flight at i for u
    request,    \* request[r]: where it is, what it waits for, what it has
    replies,    \* the documents sent in the last step
    longest     \* history: the longest a resolution has been in flight so far

vars == <<clock, version, retiredAt, cache, newest, retryAfter, job, request, replies, longest>>

Versions == 1..MaxVersion
Keys == [owner : Sites, version : Versions, private : BOOLEAN]

\* A stamp no clock shows: nothing was ever stored.
Never == -1
NoEntry == [keys |-> {}, fetchedAt |-> Never]
Entries == [keys : SUBSET Keys, fetchedAt : Never..(MaxTime + Drift)]

Idle == [step |-> "idle", cached |-> NoEntry, blind |-> FALSE, newest |-> Never,
         now |-> 0, keys |-> {}, since |-> 0]
NoRequest == [at |-> NoSite, open |-> {}, keys |-> {}, incomplete |-> FALSE]

TypeOK ==
    /\ clock \in 0..MaxTime
    /\ version \in [Sites -> Versions]
    /\ retiredAt \in [Sites -> [Versions -> 0..MaxTime]]
    /\ cache \in [Caches -> [Sites -> Entries]]
    /\ newest \in [Caches -> [Sites -> Never..(MaxTime + Drift)]]
    /\ retryAfter \in [Sites -> [Sites -> 0..(MaxTime + Drift + RetryAfter)]]
    /\ job \in [Sites -> [Sites ->
          [step : {"idle", "get", "decide", "fetch", "body", "put"}, cached : Entries,
           blind : BOOLEAN, newest : Never..(MaxTime + Drift),
           now : 0..(MaxTime + Drift), keys : SUBSET Keys, since : 0..MaxTime]]]
    /\ request \in [Requests ->
          [at : Sites \cup {NoSite}, open : SUBSET Sites, keys : SUBSET Keys,
           incomplete : BOOLEAN]]
    /\ replies \subseteq [at : Sites, keys : SUBSET Keys, incomplete : BOOLEAN]
    /\ longest \in Nat

Init ==
    /\ clock = 0
    /\ version = [i \in Sites |-> 1]
    /\ retiredAt = [i \in Sites |-> [v \in Versions |-> 0]]
    /\ cache = [c \in Caches |-> [u \in Sites |-> NoEntry]]
    /\ newest = [c \in Caches |-> [u \in Sites |-> Never]]
    /\ retryAfter = [i \in Sites |-> [u \in Sites |-> 0]]
    /\ job = [i \in Sites |-> [u \in Sites |-> Idle]]
    /\ request = [r \in Requests |-> NoRequest]
    /\ replies = {}
    /\ longest = 0

Now(i) == clock + Offset[i]

Key(i, v) == [owner |-> i, version |-> v, private |-> FALSE]

\* Mutant of LocalDocument: a peer is given the merged document.
MeshDocument(i) == {Key(u, version[u]) : u \in {i} \cup PeersOf[i]}

\* What a site answers a peer's fetch with: its own keys, and never its view of
\* the others.
LocalDocument(i) == {Key(i, version[i])}

\* A peer by mistake may add the private half; only bare public keys are kept.
Usable(document) == {key \in document : ~key.private}

Documents(u) == {LocalDocument(u),
                 LocalDocument(u) \cup {[Key(u, version[u]) EXCEPT !.private = TRUE]},
                 {[Key(u, version[u]) EXCEPT !.private = TRUE]},
                 {}}

-------------------------------------------------------------------------------
\* A request asks for every peer at once, and joins what is already in flight.
Ask(r, i) ==
    /\ request[r] = NoRequest
    /\ request' = [request EXCEPT ![r] =
          [at |-> i, open |-> PeersOf[i], keys |-> LocalDocument(i), incomplete |-> FALSE]]
    /\ job' = [job EXCEPT ![i] = [u \in Sites |->
          IF u \in PeersOf[i] /\ @[u].step = "idle"
          THEN [Idle EXCEPT !.step = "get", !.since = clock]
          ELSE @[u]]]
    /\ replies' = {}
    /\ UNCHANGED <<clock, version, retiredAt, cache, newest, retryAfter, longest>>

Waiting(i, u) == {r \in Requests : request[r].at = i /\ u \in request[r].open}

\* A request with the outcome for u added; nothing from a peer is a gap.
With(r, u, keys) ==
    [request[r] EXCEPT !.open = @ \ {u}, !.keys = @ \cup keys,
                       !.incomplete = @ \/ keys = {}]

\* The promise settles: it leaves inFlight, and those who wait are served.  Who
\* waits for nothing else is answered.
Settle(i, u, keys) ==
    LET done == {r \in Waiting(i, u) : request[r].open = {u}}
    IN  /\ job' = [job EXCEPT ![i][u] = Idle]
        /\ request' = [r \in Requests |->
              IF r \in done THEN NoRequest
              ELSE IF r \in Waiting(i, u) THEN With(r, u, keys) ELSE request[r]]
        /\ replies' = {[at |-> i, keys |-> With(r, u, keys).keys,
                        incomplete |-> With(r, u, keys).incomplete] : r \in done}

\* The cache answers; a remote one may fail, which counts as no entry.
CacheGet(i, u) ==
    LET c == CacheOf[i]
    IN  /\ job[i][u].step = "get"
        /\ \/ job' = [job EXCEPT ![i][u].step = "decide", ![i][u].cached = cache[c][u],
                                 ![i][u].newest = newest[c][u]]
           \/ /\ c \in Remote
              /\ job' = [job EXCEPT ![i][u].step = "decide", ![i][u].blind = TRUE]
        /\ UNCHANGED <<clock, version, retiredAt, cache, newest, retryAfter, request, longest>>
        /\ replies' = {}

Within(entry, now, ttl) == entry # NoEntry /\ now - entry.fetchedAt < ttl

\* Mutant of GraceKeys: an entry is good for ever.
GraceKeysForEver(entry, now) == entry.keys

GraceKeys(entry, now) == IF Within(entry, now, StaleTtl) THEN entry.keys ELSE {}

\* resolveKeys after its read: fresh, left alone for the moment, or fetched.
Decide(i, u) ==
    LET j == job[i][u]
        now == Now(i)
    IN  /\ j.step = "decide"
        /\ \/ /\ Within(j.cached, now, CacheTtl)
              /\ Settle(i, u, j.cached.keys)
           \/ /\ ~Within(j.cached, now, CacheTtl)
              /\ now < retryAfter[i][u]
              /\ Settle(i, u, GraceKeys(j.cached, now))
           \/ /\ ~Within(j.cached, now, CacheTtl)
              /\ now >= retryAfter[i][u]
              /\ job' = [job EXCEPT ![i][u].step = "fetch", ![i][u].now = now]
              /\ replies' = {} /\ UNCHANGED request
        /\ UNCHANGED <<clock, version, retiredAt, cache, newest, retryAfter, longest>>

\* The peer answers; its document is what it published then, however long the
\* body takes to come in.
Answer(i, u) ==
    /\ job[i][u].step = "fetch"
    /\ \E document \in Documents(u) :
          job' = [job EXCEPT ![i][u].step = "body", ![i][u].keys = Usable(document)]
    /\ replies' = {}
    /\ UNCHANGED <<clock, version, retiredAt, cache, newest, retryAfter, request, longest>>

\* What a resolution needs for its write: its keys, and when it looked.
Written(j) == [Idle EXCEPT !.step = "put", !.now = j.now, !.keys = j.keys, !.since = j.since]

\* Mutant of FetchOk: a document without a usable key counts as an answer.
FetchAnything(i, u) ==
    /\ job[i][u].step = "body"
    /\ job' = [job EXCEPT ![i][u] = Written(job[i][u])]
    /\ retryAfter' = [retryAfter EXCEPT ![i][u] = 0]
    /\ replies' = {}
    /\ UNCHANGED <<clock, version, retiredAt, cache, newest, request, longest>>

\* The body has been read, and holds a usable key.
FetchOk(i, u) ==
    /\ job[i][u].step = "body" /\ job[i][u].keys # {}
    /\ job' = [job EXCEPT ![i][u] = Written(job[i][u])]
    /\ retryAfter' = [retryAfter EXCEPT ![i][u] = 0]
    /\ replies' = {}
    /\ UNCHANGED <<clock, version, retiredAt, cache, newest, request, longest>>

\* A time to try again that has come is the same as none: it is not kept.
Future(time, now) == IF time > now THEN time ELSE 0

\* Mutant of FetchFails: the promise is dropped without being settled.
FetchFailsUnsettled(i, u) ==
    /\ job[i][u].step = "fetch"
    /\ job' = [job EXCEPT ![i][u] = Idle]
    /\ replies' = {}
    /\ UNCHANGED <<clock, version, retiredAt, cache, newest, retryAfter, request, longest>>

\* Mutant of FetchFails: what the cache still has is put there once more.
FetchFailsRenews(i, u) ==
    LET j == job[i][u]
    IN  /\ j.step = "fetch"
        /\ Within(j.cached, j.now, StaleTtl)
        /\ job' = [job EXCEPT ![i][u] =
                      Written([j EXCEPT !.keys = j.cached.keys, !.now = j.cached.fetchedAt])]
        /\ replies' = {}
        /\ UNCHANGED <<clock, version, retiredAt, cache, newest, retryAfter, request, longest>>

\* The peer does not answer, its body does not come in, or nothing in it is
\* usable: what the cache still has.
FetchFails(i, u) ==
    /\ job[i][u].step \in {"fetch", "body"}
    /\ retryAfter' = IF RetryAfter > 0
                     THEN [retryAfter EXCEPT ![i][u] = Future(job[i][u].now + RetryAfter, Now(i))]
                     ELSE retryAfter
    /\ Settle(i, u, GraceKeys(job[i][u].cached, job[i][u].now))
    /\ UNCHANGED <<clock, version, retiredAt, cache, newest, longest>>

\* The keys go to the cache, stamped with the time before the fetch.  A write
\* that fails costs the cache its refresh, never the request its keys.
CachePut(i, u) ==
    LET c == CacheOf[i]
        j == job[i][u]
    IN  /\ j.step = "put"
        /\ \/ /\ cache' = [cache EXCEPT ![c][u] = [keys |-> j.keys, fetchedAt |-> j.now]]
              /\ newest' = [newest EXCEPT ![c][u] = Larger(@, j.now)]
           \/ c \in Remote /\ UNCHANGED <<cache, newest>>
        /\ Settle(i, u, j.keys)
        /\ UNCHANGED <<clock, version, retiredAt, retryAfter, longest>>

\* A remote cache drops an entry once the grace period is over.
Expire(c, u) ==
    /\ c \in Remote /\ cache[c][u] # NoEntry
    /\ clock >= cache[c][u].fetchedAt + StaleTtl
    /\ cache' = [cache EXCEPT ![c][u] = NoEntry]
    /\ replies' = {}
    /\ UNCHANGED <<clock, version, retiredAt, newest, retryAfter, job, request, longest>>

\* An isolate or container is recycled: all it had in memory is gone.
Restart(i) ==
    /\ LET own == {c \in Caches \ Remote : c = CacheOf[i]}
       IN  /\ cache' = [c \in Caches |-> IF c \in own THEN [u \in Sites |-> NoEntry] ELSE cache[c]]
           /\ newest' = [c \in Caches |-> IF c \in own THEN [u \in Sites |-> Never] ELSE newest[c]]
    /\ retryAfter' = [retryAfter EXCEPT ![i] = [u \in Sites |-> 0]]
    /\ job' = [job EXCEPT ![i] = [u \in Sites |-> Idle]]
    /\ request' = [r \in Requests |-> IF request[r].at = i THEN NoRequest ELSE request[r]]
    /\ replies' = {}
    /\ UNCHANGED <<clock, version, retiredAt, longest>>

\* A site is given another key.
Rotate(i) ==
    /\ version[i] < MaxVersion
    /\ version' = [version EXCEPT ![i] = @ + 1]
    /\ retiredAt' = [retiredAt EXCEPT ![i][version[i]] = clock]
    /\ replies' = {}
    /\ UNCHANGED <<clock, cache, newest, retryAfter, job, request, longest>>

\* Whether some resolution has been in flight for as long as any before it.
Lasts == \E i \in Sites : \E u \in Sites :
              job[i][u].step # "idle" /\ clock - job[i][u].since >= longest

\* Time passes, whatever is in flight.
Tick ==
    /\ clock < MaxTime
    /\ clock' = clock + 1
    /\ retryAfter' = [i \in Sites |-> [u \in Sites |->
          Future(retryAfter[i][u], Now(i) + 1)]]
    /\ longest' = IF Lasts THEN longest + 1 ELSE longest
    /\ replies' = {}
    /\ UNCHANGED <<version, retiredAt, cache, newest, job, request>>

Resolve(i, u) ==
    CacheGet(i, u) \/ Decide(i, u) \/ Answer(i, u) \/ FetchOk(i, u) \/ FetchFails(i, u) \/ CachePut(i, u)

Next ==
    \/ \E r \in Requests, i \in Followed : Ask(r, i)
    \/ \E i \in Followed : \E u \in PeersOf[i] : Resolve(i, u)
    \/ \E c \in Caches, u \in Sites : Expire(c, u)
    \/ \E i \in Followed : Restart(i)
    \/ \E i \in Followed : \E u \in PeersOf[i] : Rotate(u)
    \/ Tick

Spec == Init /\ [][Next]_vars

-------------------------------------------------------------------------------
\* When site i last published key v.
LastPublished(i, v) == IF v = version[i] THEN clock ELSE retiredAt[i][v]

\* A request that waits for one peer may hold the outcome of another meanwhile.
Calls(i) == IF \E u \in Sites : PeersOf[i] = {u} THEN 1 ELSE 2

\* No request is answered with a key that its peer stopped publishing longer than
\* the grace period ago, but for the time that resolutions were in flight and how
\* far the clocks are apart: a shared resolution, a slow body or a late write
\* stretches the trust by what it took, and nothing else does
\* (src/keys/peers.js:294-341).
KeysWithinGrace ==
    \A document \in replies : \A key \in document.keys :
        key.owner # document.at =>
            clock - LastPublished(key.owner, key.version)
                <= Larger(CacheTtl, StaleTtl) + Calls(document.at) * longest + Drift

\* A site publishes bare public keys, its own and those of the peers it lists
\* itself: no key is trusted through a peer (src/keys/peers.js:37-46, 81-90).
DirectTrust ==
    \A document \in replies : \A key \in document.keys :
        /\ key.owner \in {document.at} \cup PeersOf[document.at]
        /\ ~key.private

\* Two sites may refresh one shared entry at once, and the older answer may be
\* written last; the entry then ages by no more than a resolution was in flight
\* and the clocks' distance (src/keys/peers.js:310, 327).
LateAnswerBounded ==
    \A c \in Caches, u \in Sites :
        cache[c][u] # NoEntry =>
            newest[c][u] - cache[c][u].fetchedAt <= longest + Drift

AskedAt(i, u) == IF job[i][u].step = "decide" THEN Now(i) ELSE job[i][u].now

Lacks(keys, u) == \A key \in keys : key.owner # u

ServedWithout(i, u) ==
    \E r \in Waiting(i, u) :
        \/ request'[r].at = i /\ u \notin request'[r].open /\ Lacks(request'[r].keys, u)
        \/ request'[r] = NoRequest /\ \E document \in replies' :
              document.at = i /\ Lacks(document.keys, u)

\* A peer that goes away stays in the published keys for its grace period: a
\* request is answered without it only when the cache could not be read, never
\* held the peer, or was last refreshed a grace period ago (less what a late
\* write may cost it, see LateAnswerBounded).  An empty or private-only answer
\* in between does not shorten this (src/keys/peers.js:92-100, 332-340).
OutageSurvived ==
    [][\A i \in Sites : \A u \in PeersOf[i] :
          ServedWithout(i, u) =>
            \/ job[i][u].blind
            \/ job[i][u].newest = Never
            \/ AskedAt(i, u) - job[i][u].newest >= StaleTtl - (longest + Drift)]_vars

\* Nobody is stranded: a request that is not answered yet waits for resolutions
\* that are all still running, also when it joined one late, a fetch failed or the
\* isolate was recycled (src/keys/peers.js:293-300).
NobodyStranded ==
    \A r \in Requests : request[r] # NoRequest =>
        /\ request[r].open # {}
        /\ \A u \in request[r].open : job[request[r].at][u].step # "idle"
===============================================================================
