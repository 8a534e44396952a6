---------------------------- MODULE ClientRegistry ----------------------------
(***************************************************************************)
(* Who is asking: resolveClient and the caches it reads through, the client *)
(* store's and the one of client metadata documents (src/clients/), and     *)
(* the caches of the same make in front of client keys, upstream metadata   *)
(* and mail records (src/crypto/jose.js, src/upstream/).  What resolveClient *)
(* finds goes into parseAuthorizationRequest.                               *)
(*                                                                         *)
(* A cache is a sequence, oldest insertion first, as a JavaScript Map keeps *)
(* it.  A lookup that misses waits for its source: in between, the source   *)
(* changes, time passes and other lookups fill the same cache.              *)
(***************************************************************************)
EXTENDS AuthorizationRequest, Sequences, SequencesExt

CONSTANTS
    Keys,           \* client ids, JWKS and discovery URLs, mail domains
    Static,         \* the client ids configured in the environment
    StaticClient,   \* StaticClient[k]: their registration
    Histories,      \* what a source holds first and after its change
    Deployments,    \* bound: the caches in use together, with their cap, the keys
                    \* they are asked for, which of them are URLs and which one changes
    Forms,          \* bound: authorisation requests
    Requests,
    Ttl,            \* how long an answer is kept
    MissTtl,        \* how long the absence of one is kept
    LoadTime,       \* the longest a source takes to answer
    MaxTime,        \* bound: the clock stops here
    Absent, Broken, \* nothing there; something unusable there
    NoKey

ClientKinds == {"store", "cimd"}
Kinds == ClientKinds \cup {"jwks", "metadata", "dns"}

Uris == [host : STRING, port : Nat, scheme : STRING, path : STRING]
Registrations ==
    [redirectUris : SUBSET Uris, scopes : SUBSET (STRING \ {"absent"}), alg : STRING,
     requirePkce : BOOLEAN, acrValues : SUBSET STRING]
Contents == Registrations \cup {Absent, Broken}

ASSUME RegistryAssumption ==
    /\ MissTtl \in Nat /\ LoadTime \in Nat /\ MaxTime \in Nat
    /\ Ttl \in Nat /\ MissTtl <= Ttl
    /\ NoKey \notin Keys /\ Static \subseteq Keys
    /\ Absent \notin Registrations /\ Broken \notin Registrations
    /\ Histories \subseteq Contents \X Contents
    /\ \A k \in Static : StaticClient[k] \in Registrations
    /\ Deployments \subseteq [kinds : SUBSET Kinds, cap : Nat \ {0}, keys : SUBSET Keys,
                              urls : SUBSET Keys, changing : Keys]

VARIABLES
    clock,      \* time, in seconds
    deployment, \* which one this is
    history,    \* history[k]: what the source of k holds before and after
    changedAt,  \* changedAt[k]: when it changed, or Never
    cache,      \* cache[c]: its entries
    job,        \* job[r]: a lookup between two awaits
    answers     \* what was answered in the last step

vars == <<clock, deployment, history, changedAt, cache, job, answers>>

Never == -1
Idle == [step |-> "idle", kind |-> "dns", key |-> NoKey, form |-> NoKey, now |-> 0,
         value |-> 1, due |-> 0]

Init ==
    /\ clock = 0
    /\ deployment \in Deployments
    /\ history \in [Keys -> Histories]
    /\ \A k \in Keys \ {deployment.changing} : history[k][1] = history[k][2]
    /\ changedAt = [k \in Keys |-> Never]
    /\ cache = [c \in Kinds |-> <<>>]
    /\ job = [r \in Requests |-> Idle]
    /\ answers = {}

Cap == deployment.cap
Urls == deployment.urls

\* The versions of a source: 1 before its change, 2 after it.
Version(k) == IF changedAt[k] = Never THEN 1 ELSE 2

\* What a source makes of version v of key k.  A key with a scheme and slashes is
\* refused by the client store, and a record without redirect URIs is none.  What
\* a failed resolver leaves behind is version 0.  A metadata document sets no floor
\* and cannot do without PKCE.
Content(kind, k, v) ==
    IF v = 0 THEN Absent
    ELSE IF kind = "store" /\ (k \in Urls \/ history[k][v] = Broken) THEN Absent
    ELSE IF kind = "dns" /\ history[k][v] = Broken THEN Absent
    ELSE IF kind = "cimd" /\ history[k][v] \notin {Absent, Broken}
    THEN [history[k][v] EXCEPT !.acrValues = {}, !.requirePkce = TRUE]
    ELSE history[k][v]

-------------------------------------------------------------------------------
Live(entry) == entry.expiresAt > clock

Lookup(kind, k) == {entry \in ToSet(cache[kind]) : entry.key = k /\ Live(entry)}

\* The entries of c that are in S, in their order: SelectSeq without an operator
\* argument.  The n-th is the one with n of them up to it.
Filter(c, S) ==
    LET places == {i \in 1..Len(c) : c[i] \in S}
        UpTo(i) == {p \in places : p <= i}
    IN  [n \in 1..Cardinality(places) |-> c[CHOOSE i \in places : Cardinality(UpTo(i)) = n]]

Without(c, k) == Filter(c, {entry \in ToSet(c) : entry.key # k})
Swept(c) == Filter(c, {entry \in ToSet(c) : Live(entry)})
Room(c) == IF Len(c) >= Cap THEN Tail(c) ELSE c

\* Map.set: an entry that is there keeps its place.
MapSet(c, new) ==
    IF \E i \in 1..Len(c) : c[i].key = new.key
    THEN [i \in 1..Len(c) |-> IF c[i].key = new.key THEN new ELSE c[i]]
    ELSE Append(c, new)

\* Mutant of Evict: the oldest goes, expired or not.
EvictOldest(c) == Tail(c)

\* The client store makes room from expired entries, if it has any.
Evict(c) == IF Swept(c) # c THEN Swept(c) ELSE Tail(c)

\* Mutant of WithCache: nothing is evicted.
WithCacheUnbounded(c, new) == Append(Without(c, new.key), new)

\* Mutant of WithCache: a refreshed entry keeps its place.
WithCacheInPlace(c, new) == MapSet(IF Len(Without(c, new.key)) >= Cap THEN Evict(c) ELSE c, new)

WithCache(c, new) ==
    LET rest == Without(c, new.key)
    IN  Append(IF Len(rest) >= Cap THEN Evict(rest) ELSE rest, new)

RememberCimd(c, new) == MapSet(Room(Swept(c)), new)
RememberJwks(c, new) == Append(Room(Without(Swept(c), new.key)), new)
RememberMetadata(c, new) == Append(Room(Without(Swept(c), new.key)), new)
Remember(c, new) == MapSet(Room(c), new)

Kept(kind, c, new) ==
    CASE kind = "store" -> WithCache(c, new)
      [] kind = "cimd" -> RememberCimd(c, new)
      [] kind = "jwks" -> RememberJwks(c, new)
      [] kind = "metadata" -> RememberMetadata(c, new)
      [] kind = "dns" -> Remember(c, new)

\* Mutant of TtlOf: a miss is kept like a hit.
TtlAlike(content) == Ttl

\* The absence of a client, or of a known mail provider, is kept for less time.
TtlOf(content) == IF content = Absent THEN MissTtl ELSE Ttl

\* JWKS count from before the fetch, the others from after it.
Entry(kind, k, v, now) ==
    [key |-> k, value |-> v,
     expiresAt |-> (IF kind = "jwks" THEN now ELSE clock) + TtlOf(Content(kind, k, v))]

-------------------------------------------------------------------------------
\* What a request is told: an authorisation request is parsed with the client,
\* and what came with an error or without a client is shown on a page.
Outcome(j, content) ==
    IF j.kind \notin ClientKinds THEN [kind |-> "value"]
    ELSE IF content \in {Absent, Broken} THEN Page
    ELSE ParseRequest(Normalise(content), j.form)

Answer(r, j, v, outcome) ==
    /\ job' = [job EXCEPT ![r] = Idle]
    /\ answers' = {[kind |-> j.kind, key |-> j.key, value |-> v, outcome |-> outcome]}

Wait(r, j) == job' = [job EXCEPT ![r] = j] /\ answers' = {}

\* A metadata document is looked for at a public address only.
CheckTarget(r, j) ==
    IF j.key \in Urls /\ "cimd" \in deployment.kinds
    THEN Wait(r, [j EXCEPT !.step = "check", !.kind = "cimd", !.due = clock + LoadTime])
    ELSE Answer(r, j, 0, Page)

\* Found in version v, by a cache or from the source.  A store without the
\* client leaves the question to its metadata document.
Deliver(r, j, v) ==
    LET content == Content(j.kind, j.key, v)
    IN  IF j.kind = "store" /\ content = Absent /\ j.key \in Urls
        THEN CheckTarget(r, j)
        ELSE Answer(r, j, v, Outcome(j, content))

\* An answer that is kept serves at once, or the source is asked.
Get(r, j) ==
    /\ \A entry \in Lookup(j.kind, j.key) : Deliver(r, j, entry.value)
    /\ Lookup(j.kind, j.key) = {} =>
          Wait(r, [j EXCEPT !.step = "load", !.now = IF j.kind = "jwks" THEN clock ELSE 0,
                           !.due = clock + LoadTime])

\* resolveClient: the environment first, then the store, then the document.
Authorize(r, form) ==
    LET j == [Idle EXCEPT !.kind = "store", !.key = form.clientId, !.form = form]
    IN  /\ job[r] = Idle /\ form.clientId \in deployment.keys
        /\ deployment.kinds \cap ClientKinds # {}
        /\ \/ /\ form.clientId \in Static
              /\ Answer(r, j, 0, ParseRequest(Normalise(StaticClient[form.clientId]), form))
           \/ /\ form.clientId \notin Static /\ "store" \in deployment.kinds
              /\ Get(r, j)
           \/ /\ form.clientId \notin Static /\ "store" \notin deployment.kinds
              /\ CheckTarget(r, j)
        /\ UNCHANGED <<clock, deployment, history, changedAt, cache>>

\* The keys of a client, the metadata of an upstream, the mail records of a domain.
LookUp(r, kind, k) ==
    /\ job[r] = Idle /\ kind \in deployment.kinds \ ClientKinds /\ k \notin Static
    /\ Get(r, [Idle EXCEPT !.kind = kind, !.key = k])
    /\ UNCHANGED <<clock, deployment, history, changedAt, cache>>

\* The address is public: the cache is read now, and an entry past its time
\* goes.
TargetPublic(r) ==
    LET j == job[r]
    IN  /\ j.step = "check"
        /\ Get(r, j)
        /\ cache' = [cache EXCEPT !["cimd"] =
              IF Lookup("cimd", j.key) = {} THEN Without(@, j.key) ELSE @]
        /\ UNCHANGED <<clock, deployment, history, changedAt>>

\* It is not, or the name cannot be resolved.
TargetRefused(r) ==
    /\ job[r].step = "check"
    /\ Answer(r, job[r], 0, Page)
    /\ UNCHANGED <<clock, deployment, history, changedAt, cache>>

\* The source answers with what it holds at this moment.
Load(r) ==
    /\ job[r].step = "load"
    /\ job' = [job EXCEPT ![r].step = "keep", ![r].value = Version(job[r].key)]
    /\ answers' = {}
    /\ UNCHANGED <<clock, deployment, history, changedAt, cache>>

\* It does not.  The client store's caller sees no client, and nothing is kept; the
\* store is not asked for a URL at all.
LoadFails(r) ==
    LET j == job[r]
    IN  /\ j.step = "load" /\ j.kind # "dns"
        /\ ~(j.kind = "store" /\ j.key \in Urls)
        /\ Answer(r, j, 0, IF j.kind = "store" THEN Page ELSE [kind |-> "failed"])
        /\ UNCHANGED <<clock, deployment, history, changedAt, cache>>

\* A resolver that fails has found nothing, and that is kept.
ResolverFails(r) ==
    LET j == job[r]
    IN  /\ j.step = "load" /\ j.kind = "dns"
        /\ cache' = [cache EXCEPT !["dns"] =
              Remember(@, [key |-> j.key, value |-> 0, expiresAt |-> clock + MissTtl])]
        /\ Answer(r, j, 0, [kind |-> "failed"])
        /\ UNCHANGED <<clock, deployment, history, changedAt>>

\* The answer is back: kept if it is usable, and handed on.
Keep(r) ==
    LET j == job[r]
        content == Content(j.kind, j.key, j.value)
        new == Entry(j.kind, j.key, j.value, j.now)
        usable == j.kind \in {"store", "dns"} \/ content \notin {Absent, Broken}
    IN  /\ j.step = "keep"
        /\ cache' = IF usable /\ (Ttl > 0 \/ j.kind \notin ClientKinds)
                    THEN [cache EXCEPT ![j.kind] = Kept(j.kind, @, new)] ELSE cache
        /\ Deliver(r, j, j.value)
        /\ UNCHANGED <<clock, deployment, history, changedAt>>

\* A client is registered, changed or removed.
Change(k) ==
    /\ k = deployment.changing /\ changedAt[k] = Never
    /\ history[k][1] # history[k][2]
    /\ changedAt' = [changedAt EXCEPT ![k] = clock]
    /\ answers' = {}
    /\ UNCHANGED <<clock, deployment, history, cache, job>>

\* Time passes, but never past the moment at which a call times out.
Tick ==
    /\ clock < MaxTime
    /\ \A r \in Requests : job[r].step # "idle" => clock < job[r].due
    /\ clock' = clock + 1
    /\ answers' = {}
    /\ UNCHANGED <<deployment, history, changedAt, cache, job>>

Next ==
    \/ \E r \in Requests :
          \/ \E form \in Forms : Authorize(r, form)
          \/ \E kind \in Kinds, k \in Keys : LookUp(r, kind, k)
          \/ TargetPublic(r) \/ TargetRefused(r)
          \/ Load(r) \/ LoadFails(r) \/ ResolverFails(r) \/ Keep(r)
    \/ \E k \in Keys : Change(k)
    \/ Tick

Spec == Init /\ [][Next]_vars

-------------------------------------------------------------------------------
\* Every variable has its shape; an entry is of a version its source has had.
TypeOK ==
    /\ clock \in 0..MaxTime /\ deployment \in Deployments
    /\ history \in [Keys -> Histories]
    /\ changedAt \in [Keys -> Never..MaxTime]
    /\ \A kind \in Kinds : \A entry \in ToSet(cache[kind]) :
          /\ entry.key \in Keys /\ entry.value \in 0..Version(entry.key)
          /\ entry.expiresAt \in 0..(clock + Ttl)
    /\ \A r \in Requests : job[r] # Idle =>
          /\ job[r].step \in {"check", "load", "keep"} /\ job[r].kind \in deployment.kinds
          /\ job[r].key \in Keys /\ job[r].value \in 1..Version(job[r].key)
          /\ job[r].now \in 0..clock /\ clock <= job[r].due

\* No cache grows past its cap or holds two entries of one key, none keeps an answer
\* longer than it may, and an entry moves to the back when it is refreshed, so that a
\* client in use is not the first to be evicted: whatever lookups of the same and of
\* other keys overlap (src/clients/store.js:98-115, src/clients/index.js:104-115,
\* src/crypto/jose.js:246-257, src/upstream/dns.js:85-94).
Bounded ==
    /\ TypeOK
    /\ \A kind \in Kinds :
          /\ Len(cache[kind]) <= Cap
          /\ \A i, j \in 1..Len(cache[kind]) : cache[kind][i].key = cache[kind][j].key => i = j
    /\ \A kind \in {"store", "metadata"} : \A i, j \in 1..Len(cache[kind]) :
          i < j => LET StoredAt(e) == e.expiresAt - TtlOf(Content(kind, e.key, e.value))
                   IN  StoredAt(cache[kind][i]) <= StoredAt(cache[kind][j])

\* An entry that is still good is given up only when every place is taken by one
\* that is.  Mail records alone are evicted without a sweep
\* (src/clients/store.js:75-95).
LiveKept ==
    [][\A kind \in Kinds \ {"dns"} : \A e \in ToSet(cache[kind]) :
          Live(e) /\ (\A f \in ToSet(cache'[kind]) : f.key # e.key)
            => Len(Swept(cache[kind])) >= Cap]_vars

\* When version v of k was last what the source held.
LastTrue(k, v) == IF v = Version(k) THEN clock ELSE changedAt[k]

\* Version v is no older than a cache with this lifetime, and a slow source, allow.
Recent(k, v, ttl) ==
    \/ clock - LastTrue(k, v) <= LoadTime
    \/ clock - LastTrue(k, v) < ttl + LoadTime

\* An answer that overtakes a newer one is cached last, and is then what everybody
\* is told; but nobody is told a record, or the absence of one, that was replaced
\* longer ago than it may be kept, and one load (src/clients/store.js:104-114).
ServedFresh ==
    \A a \in answers : a.value # 0 =>
        Recent(a.key, a.value,
               IF Content(a.kind, a.key, a.value) = Absent THEN MissTtl ELSE Ttl)

\* What a client has registered, or had until a moment ago.
InForce(kind, k) ==
    IF k \in Static THEN {StaticClient[k]}
    ELSE {Content(kind, k, v) : v \in {w \in 1..Version(k) : Recent(k, w, Ttl)}} \ {Absent, Broken}

Matches(registered, uri) ==
    \/ registered = uri
    \/ registered.host \in Loopback /\ [registered EXCEPT !.port = 0] = [uri EXCEPT !.port = 0]

\* A browser is sent, with an error or with an accepted request, only to a URI of a
\* registration that this very client has, or had until a cache's lifetime and a load
\* ago: whatever the client's registration was before, however lookups overlap, and
\* with the environment before the store and the store before a document.  A request
\* that is accepted has the scopes, the signing algorithm and the PKCE challenge that
\* this registration asks for.  Its acr values are alternatives, of which a floor is
\* one more: nothing is said of them (src/oauth/request.js:1-7, 88-148).
AnswersAreRegistered ==
    \A a \in answers : a.outcome.kind \in {"error", "accepted"} =>
        \E record \in InForce(a.kind, a.key) :
            /\ \E registered \in record.redirectUris : Matches(registered, a.outcome.uri)
            /\ a.outcome.kind = "accepted" =>
                  /\ record.scopes = {} \/ a.outcome.scope \subseteq record.scopes
                  /\ record.alg = "absent" \/ a.outcome.alg = record.alg
                  /\ record.requirePkce => a.outcome.pkce
===============================================================================
