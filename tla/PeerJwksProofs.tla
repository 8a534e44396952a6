---------------------------- MODULE PeerJwksProofs ----------------------------
(***************************************************************************)
(* Proofs about PeerJwks, for any sites, peers, caches and requests, any    *)
(* clocks and any of the times.                                            *)
(***************************************************************************)
EXTENDS PeerJwks, TLAPS

Steps == {"idle", "get", "decide", "fetch", "body", "put"}
Times == 0..(MaxTime + Drift)
Stamps == Never..(MaxTime + Drift)
Jobs == [step : Steps, cached : Entries, blind : BOOLEAN, newest : Stamps, now : Times,
         keys : SUBSET Keys, since : 0..MaxTime]
Asked == [at : Sites \cup {NoSite}, open : SUBSET Sites, keys : SUBSET Keys, incomplete : BOOLEAN]
Answers == [at : Sites, keys : SUBSET Keys, incomplete : BOOLEAN]

\* The fields of an entry.
LEMMA EntryFields ==
    ASSUME NEW e \in Entries
    PROVE  e.keys \in SUBSET Keys /\ e.fetchedAt \in Stamps
  BY DEF Entries, Stamps

\* The fields of a resolution.
LEMMA JobFields ==
    ASSUME NEW j \in Jobs
    PROVE  /\ j.step \in Steps /\ j.cached \in Entries /\ j.blind \in BOOLEAN /\ j.newest \in Stamps
           /\ j.now \in Times /\ j.keys \in SUBSET Keys /\ j.since \in 0..MaxTime
  BY DEF Jobs

\* The fields of a request.
LEMMA AskedFields ==
    ASSUME NEW q \in Asked
    PROVE  /\ q.at \in Sites \cup {NoSite} /\ q.open \in SUBSET Sites /\ q.keys \in SUBSET Keys
           /\ q.incomplete \in BOOLEAN
  BY DEF Asked

\* Nothing asked and nothing in flight is well-formed.
LEMMA Blank == Idle \in Jobs /\ NoRequest \in Asked /\ NoEntry \in Entries
  <1>1. NoEntry \in Entries
    BY TimesAssumption DEF NoEntry, Entries, Never
  <1>2. Idle \in Jobs
    BY <1>1, TimesAssumption DEF Idle, Jobs, Steps, Stamps, Times, Never
  <1>3. NoRequest \in Asked
    BY DEF NoRequest, Asked
  <1> QED
    BY <1>1, <1>2, <1>3

\* The type invariant, one variable at a time.
LEMMA Typed ==
    TypeOK <=>
      /\ clock \in 0..MaxTime /\ version \in [Sites -> Versions]
      /\ retiredAt \in [Sites -> [Versions -> 0..MaxTime]]
      /\ cache \in [Caches -> [Sites -> Entries]] /\ newest \in [Caches -> [Sites -> Stamps]]
      /\ retryAfter \in [Sites -> [Sites -> 0..(MaxTime + Drift + RetryAfter)]]
      /\ job \in [Sites -> [Sites -> Jobs]] /\ request \in [Requests -> Asked]
      /\ replies \subseteq Answers /\ longest \in Nat
  BY DEF TypeOK, Jobs, Steps, Stamps, Times, Asked, Answers

\* A site publishes one of its keys, bare.
LEMMA LocalKeys ==
    ASSUME TypeOK, NEW i \in Sites
    PROVE  /\ LocalDocument(i) \in SUBSET Keys
           /\ \A key \in LocalDocument(i) : key.owner = i /\ ~key.private /\ key.version = version[i]
  BY DEF TypeOK, LocalDocument, Key, Keys

\* What is usable of any answer is exactly that.
LEMMA UsableKeys ==
    ASSUME TypeOK, NEW u \in Sites, NEW document \in Documents(u)
    PROVE  /\ Usable(document) \in SUBSET Keys
           /\ \A key \in Usable(document) : key.owner = u /\ ~key.private /\ key.version = version[u]
  <1>1. Key(u, version[u]) \in Keys
    BY DEF TypeOK, Keys, Key
  <1>2. ASSUME NEW key \in document
        PROVE  key = Key(u, version[u]) \/ key = [Key(u, version[u]) EXCEPT !.private = TRUE]
    <2> DEFINE half == [Key(u, version[u]) EXCEPT !.private = TRUE]
    <2>1. document \in {{Key(u, version[u])}, {Key(u, version[u])} \cup {half}, {half}, {}}
      BY Zenon DEF Documents, LocalDocument
    <2> HIDE DEF half
    <2>2. document = {Key(u, version[u])} \/ document = {Key(u, version[u])} \cup {half}
             \/ document = {half} \/ document = {}
      BY <2>1, Zenon
    <2>3. key = Key(u, version[u]) \/ key = half
      BY <2>2
    <2> QED
      BY <2>3 DEF half
  <1>3. [Key(u, version[u]) EXCEPT !.private = TRUE].private = TRUE
    BY DEF Key
  <1>4. \A key \in Usable(document) : key = Key(u, version[u])
    BY <1>2, <1>3 DEF Usable
  <1>5. /\ Key(u, version[u]).owner = u /\ Key(u, version[u]).version = version[u]
        /\ Key(u, version[u]).private = FALSE
    BY DEF Key
  <1> QED
    BY <1>1, <1>4, <1>5

\* What is left of an entry is some of its keys.
LEMMA GraceFields ==
    ASSUME NEW e \in Entries, NEW now \in Times
    PROVE  GraceKeys(e, now) \in SUBSET Keys /\ GraceKeys(e, now) \subseteq e.keys
  BY EntryFields DEF GraceKeys

\* Now(i) is a time.
LEMMA NowIsTime ==
    ASSUME TypeOK, NEW i \in Sites
    PROVE  /\ Now(i) \in Times /\ clock <= Now(i) /\ Now(i) <= clock + Drift
           /\ clock \in Nat /\ clock <= MaxTime
  BY TimesAssumption DEF TypeOK, Now, Times

\* Settling a resolution keeps the types.
LEMMA SettleTypes ==
    ASSUME TypeOK, NEW i \in Sites, NEW u \in Sites, NEW keys \in SUBSET Keys, Settle(i, u, keys)
    PROVE  /\ job' \in [Sites -> [Sites -> Jobs]] /\ request' \in [Requests -> Asked]
           /\ replies' \subseteq Answers
  <1>1. job \in [Sites -> [Sites -> Jobs]] /\ request \in [Requests -> Asked]
    BY Typed
  <1>2. job' \in [Sites -> [Sites -> Jobs]]
    BY <1>1, Blank DEF Settle
  <1>3. \A r \in Requests : With(r, u, keys) \in Asked /\ With(r, u, keys).at = request[r].at
    BY <1>1 DEF With, Asked
  <1>4. request' \in [Requests -> Asked]
    BY <1>1, <1>3, Blank DEF Settle
  <1>5. ASSUME NEW r \in Requests
        PROVE  [at |-> i, keys |-> With(r, u, keys).keys, incomplete |-> With(r, u, keys).incomplete] \in Answers
    BY <1>3, AskedFields DEF Answers
  <1>6. replies' \subseteq Answers
    BY <1>5 DEF Settle, Waiting
  <1> QED
    BY <1>2, <1>4, <1>6

\* Asking keeps the types.
LEMMA AskTypes ==
    ASSUME TypeOK, NEW r \in Requests, NEW i \in Followed, Ask(r, i)
    PROVE  TypeOK'
  <1> i \in Sites
    BY SitesAssumption
  <1>1. job \in [Sites -> [Sites -> Jobs]] /\ request \in [Requests -> Asked]
    BY Typed
  <1>2. clock \in 0..MaxTime
    BY DEF TypeOK
  <1>3. [Idle EXCEPT !.step = "get", !.since = clock] \in Jobs
    BY <1>2, Blank DEF Jobs, Steps, Idle
  <1>4. job' \in [Sites -> [Sites -> Jobs]]
    BY <1>1, <1>3 DEF Ask
  <1>5. [at |-> i, open |-> PeersOf[i], keys |-> LocalDocument(i), incomplete |-> FALSE] \in Asked
    BY LocalKeys, SitesAssumption DEF Asked
  <1>6. request' \in [Requests -> Asked]
    BY <1>1, <1>5 DEF Ask
  <1> QED
    BY <1>4, <1>6, Typed DEF Ask, TypeOK, Jobs, Steps, Stamps, Times, Asked, Answers

\* What each step of a resolution does to its job, when it does not settle.
LEMMA GetMoves ==
    ASSUME TypeOK, NEW i \in Sites, NEW u \in Sites, CacheGet(i, u)
    PROVE  \E next \in Jobs :
              /\ job' = [job EXCEPT ![i][u] = next] /\ UNCHANGED request /\ replies' = {}
              /\ next.step = "decide" /\ next.since = job[i][u].since /\ next.now = job[i][u].now
              /\ next.keys = job[i][u].keys
              /\ \/ next.cached = job[i][u].cached /\ next.blind
                 \/ next.cached = cache[CacheOf[i]][u] /\ next.newest = newest[CacheOf[i]][u]
  <1> DEFINE c == CacheOf[i]
             read == [job[i][u] EXCEPT !.step = "decide", !.cached = cache[c][u], !.newest = newest[c][u]]
             blind == [job[i][u] EXCEPT !.step = "decide", !.blind = TRUE]
  <1>1. /\ job \in [Sites -> [Sites -> Jobs]] /\ cache[c][u] \in Entries /\ newest[c][u] \in Stamps
        /\ job[i][u] \in Jobs
    BY Typed, SitesAssumption
  <1>2. read \in Jobs /\ blind \in Jobs
    BY <1>1 DEF Jobs, Steps
  <1>3. /\ read.step = "decide" /\ read.since = job[i][u].since /\ read.now = job[i][u].now
        /\ read.keys = job[i][u].keys /\ read.cached = cache[c][u] /\ read.newest = newest[c][u]
        /\ blind.step = "decide" /\ blind.since = job[i][u].since /\ blind.now = job[i][u].now
        /\ blind.keys = job[i][u].keys /\ blind.cached = job[i][u].cached /\ blind.blind
    BY <1>1 DEF Jobs
  <1>4. job' = [job EXCEPT ![i][u] = read] \/ job' = [job EXCEPT ![i][u] = blind]
    BY <1>1 DEF CacheGet
  <1>5. UNCHANGED request /\ replies' = {}
    BY DEF CacheGet
  <1> HIDE DEF read, blind
  <1> QED
    BY <1>2, <1>3, <1>4, <1>5

\* A resolution settles, or goes on to its fetch.
LEMMA DecideMoves ==
    ASSUME TypeOK, NEW i \in Sites, NEW u \in Sites, Decide(i, u)
    PROVE  LET j == job[i][u] IN
           \/ Within(j.cached, Now(i), CacheTtl) /\ Settle(i, u, j.cached.keys)
           \/ Settle(i, u, GraceKeys(j.cached, Now(i)))
           \/ \E next \in Jobs :
                 /\ job' = [job EXCEPT ![i][u] = next] /\ UNCHANGED request /\ replies' = {}
                 /\ next.step = "fetch" /\ next.since = j.since /\ next.now = Now(i)
                 /\ next.keys = j.keys /\ next.cached = j.cached
                 /\ next.blind = j.blind /\ next.newest = j.newest
  <1> DEFINE next == [job[i][u] EXCEPT !.step = "fetch", !.now = Now(i)]
  <1>1. job \in [Sites -> [Sites -> Jobs]] /\ job[i][u] \in Jobs
    BY Typed
  <1>2. next \in Jobs
    <2>1. Now(i) \in Times
      BY NowIsTime
    <2> QED
      BY <1>1, <2>1 DEF Jobs, Steps
  <1>3. /\ next.step = "fetch" /\ next.since = job[i][u].since /\ next.now = Now(i)
        /\ next.keys = job[i][u].keys /\ next.cached = job[i][u].cached
        /\ next.blind = job[i][u].blind /\ next.newest = job[i][u].newest
    BY <1>1 DEF Jobs
  <1>4. \/ Within(job[i][u].cached, Now(i), CacheTtl) /\ Settle(i, u, job[i][u].cached.keys)
        \/ Settle(i, u, GraceKeys(job[i][u].cached, Now(i)))
        \/ job' = [job EXCEPT ![i][u] = next] /\ UNCHANGED request /\ replies' = {}
    BY <1>1 DEF Decide
  <1> HIDE DEF next
  <1> QED
    BY <1>2, <1>3, <1>4

\* What the peer answers with is its own, as it was then.
LEMMA AnswerMoves ==
    ASSUME TypeOK, NEW i \in Sites, NEW u \in Sites, Answer(i, u)
    PROVE  \E next \in Jobs :
              /\ job' = [job EXCEPT ![i][u] = next] /\ UNCHANGED request /\ replies' = {}
              /\ next.step = "body" /\ next.since = job[i][u].since /\ next.now = job[i][u].now
              /\ next.cached = job[i][u].cached /\ next.blind = job[i][u].blind
              /\ next.newest = job[i][u].newest
              /\ \A key \in next.keys : key.owner = u /\ ~key.private /\ key.version = version[u]
  <1>1. job \in [Sites -> [Sites -> Jobs]] /\ job[i][u] \in Jobs
    BY Typed
  <1>2. PICK document \in Documents(u) :
          job' = [job EXCEPT ![i][u].step = "body", ![i][u].keys = Usable(document)]
    BY DEF Answer
  <1>3. /\ Usable(document) \in SUBSET Keys
        /\ \A key \in Usable(document) : key.owner = u /\ ~key.private /\ key.version = version[u]
    BY UsableKeys
  <1> DEFINE next == [job[i][u] EXCEPT !.step = "body", !.keys = Usable(document)]
  <1>4. next \in Jobs
    BY <1>1, <1>3 DEF Jobs, Steps
  <1>5. /\ next.step = "body" /\ next.since = job[i][u].since /\ next.now = job[i][u].now
        /\ next.cached = job[i][u].cached /\ next.blind = job[i][u].blind
        /\ next.newest = job[i][u].newest /\ next.keys = Usable(document)
    BY <1>1 DEF Jobs
  <1>6. job' = [job EXCEPT ![i][u] = next]
    BY <1>1, <1>2
  <1>7. UNCHANGED request /\ replies' = {}
    BY DEF Answer
  <1> HIDE DEF next
  <1> QED
    BY <1>3, <1>4, <1>5, <1>6, <1>7

\* What has been read is kept for the write.
LEMMA FetchOkMoves ==
    ASSUME TypeOK, NEW i \in Sites, NEW u \in Sites, FetchOk(i, u)
    PROVE  \E next \in Jobs :
              /\ job' = [job EXCEPT ![i][u] = next] /\ UNCHANGED request /\ replies' = {}
              /\ next.step = "put" /\ next.since = job[i][u].since /\ next.now = job[i][u].now
              /\ next.cached = NoEntry /\ next.keys = job[i][u].keys /\ next.keys # {}
  <1>1. job \in [Sites -> [Sites -> Jobs]] /\ job[i][u] \in Jobs
    BY Typed
  <1> DEFINE next == Written(job[i][u])
  <1>2. next \in Jobs
    BY <1>1, Blank, JobFields DEF Jobs, Steps, Written
  <1>3. /\ next.step = "put" /\ next.since = job[i][u].since /\ next.now = job[i][u].now
        /\ next.cached = NoEntry /\ next.keys = job[i][u].keys
    BY DEF Idle, Written
  <1>4. job' = [job EXCEPT ![i][u] = next] /\ UNCHANGED request /\ replies' = {} /\ job[i][u].keys # {}
    BY DEF FetchOk
  <1> HIDE DEF next
  <1> QED
    BY <1>2, <1>3, <1>4

\* The types of a resolution's job that goes on.
LEMMA MoveTypes ==
    ASSUME TypeOK, NEW i \in Sites, NEW u \in Sites, NEW next \in Jobs,
           job' = [job EXCEPT ![i][u] = next], UNCHANGED request, replies' = {}
    PROVE  /\ job' \in [Sites -> [Sites -> Jobs]] /\ request' \in [Requests -> Asked]
           /\ replies' \subseteq Answers
  BY Typed

\* The read of the cache keeps the types.
LEMMA GetTypes ==
    ASSUME TypeOK, NEW i \in Sites, NEW u \in Sites, CacheGet(i, u)
    PROVE  TypeOK'
  <1>1. /\ job' \in [Sites -> [Sites -> Jobs]] /\ request' \in [Requests -> Asked]
        /\ replies' \subseteq Answers
    BY GetMoves, MoveTypes
  <1> QED
    BY <1>1 DEF CacheGet, TypeOK, Jobs, Steps, Stamps, Times, Asked, Answers

\* What resolveKeys decides keeps the types.
LEMMA DecideTypes ==
    ASSUME TypeOK, NEW i \in Sites, NEW u \in Sites, Decide(i, u)
    PROVE  TypeOK'
  <1>1. job[i][u].cached \in Entries /\ Now(i) \in Times
    BY Typed, JobFields, NowIsTime
  <1>2. job[i][u].cached.keys \in SUBSET Keys /\ GraceKeys(job[i][u].cached, Now(i)) \in SUBSET Keys
    BY <1>1, EntryFields, GraceFields
  <1>3. /\ job' \in [Sites -> [Sites -> Jobs]] /\ request' \in [Requests -> Asked]
        /\ replies' \subseteq Answers
    BY <1>2, DecideMoves, MoveTypes, SettleTypes
  <1> QED
    BY <1>3 DEF Decide, TypeOK, Jobs, Steps, Stamps, Times, Asked, Answers

\* An answer keeps the types.
LEMMA AnswerTypes ==
    ASSUME TypeOK, NEW i \in Sites, NEW u \in Sites, Answer(i, u)
    PROVE  TypeOK'
  <1>1. /\ job' \in [Sites -> [Sites -> Jobs]] /\ request' \in [Requests -> Asked]
        /\ replies' \subseteq Answers
    BY AnswerMoves, MoveTypes
  <1> QED
    BY <1>1 DEF Answer, TypeOK, Jobs, Steps, Stamps, Times, Asked, Answers

\* What was read of it keeps the types.
LEMMA FetchOkTypes ==
    ASSUME TypeOK, NEW i \in Sites, NEW u \in Sites, FetchOk(i, u)
    PROVE  TypeOK'
  <1>1. /\ job' \in [Sites -> [Sites -> Jobs]] /\ request' \in [Requests -> Asked]
        /\ replies' \subseteq Answers
    BY FetchOkMoves, MoveTypes
  <1>2. retryAfter' \in [Sites -> [Sites -> 0..(MaxTime + Drift + RetryAfter)]]
    BY TimesAssumption DEF FetchOk, TypeOK
  <1> QED
    BY <1>1, <1>2 DEF FetchOk, TypeOK, Jobs, Steps, Stamps, Times, Asked, Answers

\* A fetch that fails keeps the types.
LEMMA FetchFailsTypes ==
    ASSUME TypeOK, NEW i \in Sites, NEW u \in Sites, FetchFails(i, u)
    PROVE  TypeOK'
  <1>1. job[i][u].cached \in Entries /\ job[i][u].now \in Times
    BY Typed, JobFields
  <1>2. GraceKeys(job[i][u].cached, job[i][u].now) \in SUBSET Keys
    BY <1>1, GraceFields
  <1>3. /\ job' \in [Sites -> [Sites -> Jobs]] /\ request' \in [Requests -> Asked]
        /\ replies' \subseteq Answers
    BY <1>2, SettleTypes DEF FetchFails
  <1>4. Future(job[i][u].now + RetryAfter, Now(i)) \in 0..(MaxTime + Drift + RetryAfter)
    BY <1>1, TimesAssumption DEF Times, Future
  <1>5. retryAfter' \in [Sites -> [Sites -> 0..(MaxTime + Drift + RetryAfter)]]
    BY <1>4 DEF FetchFails, TypeOK
  <1> QED
    BY <1>3, <1>5 DEF FetchFails, TypeOK, Jobs, Steps, Stamps, Times, Asked, Answers

\* What a write leaves in the caches: the answer, or what was there.
LEMMA PutWrites ==
    ASSUME TypeOK, NEW i \in Sites, NEW u \in Sites, CachePut(i, u),
           NEW d \in Caches, NEW w \in Sites
    PROVE  \/ cache'[d][w] = cache[d][w] /\ newest'[d][w] = newest[d][w]
           \/ /\ d = CacheOf[i] /\ w = u
              /\ cache'[d][w].keys = job[i][u].keys /\ cache'[d][w].fetchedAt = job[i][u].now
              /\ newest'[d][w] = Larger(newest[d][w], job[i][u].now)
  <1> DEFINE c == CacheOf[i]
             entry == [keys |-> job[i][u].keys, fetchedAt |-> job[i][u].now]
             last == Larger(newest[c][u], job[i][u].now)
  <1>1. /\ cache \in [Caches -> [Sites -> Entries]] /\ newest \in [Caches -> [Sites -> Stamps]]
        /\ c \in Caches
    BY Typed, SitesAssumption
  <1>2. \/ cache' = [cache EXCEPT ![c][u] = entry] /\ newest' = [newest EXCEPT ![c][u] = last]
        \/ UNCHANGED <<cache, newest>>
    BY <1>1 DEF CachePut
  <1>3. entry.keys = job[i][u].keys /\ entry.fetchedAt = job[i][u].now
    OBVIOUS
  <1> HIDE DEF entry, last
  <1>4. CASE d = c /\ w = u
    BY <1>1, <1>2, <1>3, <1>4 DEF last
  <1>5. CASE ~(d = c /\ w = u)
    BY <1>1, <1>2, <1>5
  <1> QED
    BY <1>4, <1>5

\* The write of the cache keeps the types.
LEMMA PutTypes ==
    ASSUME TypeOK, NEW i \in Sites, NEW u \in Sites, CachePut(i, u)
    PROVE  TypeOK'
  <1> DEFINE c == CacheOf[i]
             entry == [keys |-> job[i][u].keys, fetchedAt |-> job[i][u].now]
  <1>1. /\ job[i][u].keys \in SUBSET Keys /\ job[i][u].now \in Times /\ c \in Caches
        /\ cache \in [Caches -> [Sites -> Entries]] /\ newest \in [Caches -> [Sites -> Stamps]]
    BY Typed, JobFields, SitesAssumption
  <1>2. entry \in Entries /\ Larger(newest[c][u], job[i][u].now) \in Stamps
    BY <1>1, TimesAssumption DEF Entries, Stamps, Times, Never, Larger
  <1>3. \/ /\ cache' = [cache EXCEPT ![c][u] = entry]
           /\ newest' = [newest EXCEPT ![c][u] = Larger(newest[c][u], job[i][u].now)]
        \/ UNCHANGED <<cache, newest>>
    BY <1>1 DEF CachePut
  <1>4. cache' \in [Caches -> [Sites -> Entries]] /\ newest' \in [Caches -> [Sites -> Stamps]]
    <2>1. CASE UNCHANGED <<cache, newest>>
      BY <2>1, <1>1
    <2>2. CASE /\ cache' = [cache EXCEPT ![c][u] = entry]
               /\ newest' = [newest EXCEPT ![c][u] = Larger(newest[c][u], job[i][u].now)]
      <3>1. cache' \in [Caches -> [Sites -> Entries]]
        BY <2>2, <1>1, <1>2
      <3>2. newest' \in [Caches -> [Sites -> Stamps]]
        BY <2>2, <1>1, <1>2
      <3> QED
        BY <3>1, <3>2
    <2> QED
      BY <1>3, <2>1, <2>2
  <1>5. /\ job' \in [Sites -> [Sites -> Jobs]] /\ request' \in [Requests -> Asked]
        /\ replies' \subseteq Answers
    BY <1>1, SettleTypes DEF CachePut
  <1> QED
    BY <1>4, <1>5 DEF CachePut, TypeOK, Jobs, Steps, Stamps, Times, Asked, Answers

\* Types, over every step.
LEMMA TypeStep ==
    ASSUME TypeOK, [Next]_vars
    PROVE  TypeOK'
  <1>1. CASE UNCHANGED vars
    BY <1>1 DEF vars, TypeOK
  <1>2. ASSUME NEW r \in Requests, NEW i \in Followed, Ask(r, i)
        PROVE  TypeOK'
    BY <1>2, AskTypes
  <1>3. ASSUME NEW i \in Followed, NEW u \in PeersOf[i], Resolve(i, u)
        PROVE  TypeOK'
    <2> i \in Sites /\ u \in Sites
      BY SitesAssumption
    <2> QED
      BY <1>3, GetTypes, DecideTypes, AnswerTypes, FetchOkTypes, FetchFailsTypes, PutTypes DEF Resolve
  <1>4. ASSUME NEW c \in Caches, NEW u \in Sites, Expire(c, u)
        PROVE  TypeOK'
    <2>1. cache' \in [Caches -> [Sites -> Entries]]
      BY <1>4, Blank DEF Expire, TypeOK
    <2> QED
      BY <1>4, <2>1 DEF Expire, TypeOK
  <1>5. ASSUME NEW i \in Followed, Restart(i)
        PROVE  TypeOK'
    <2>1. /\ job \in [Sites -> [Sites -> Jobs]] /\ request \in [Requests -> Asked]
          /\ i \in Sites
      BY Typed, SitesAssumption
    <2>2. job' \in [Sites -> [Sites -> Jobs]] /\ request' \in [Requests -> Asked]
      BY <1>5, <2>1, Blank DEF Restart
    <2>3. cache' \in [Caches -> [Sites -> Entries]]
      BY <1>5, Blank DEF Restart, TypeOK
    <2>4. newest' \in [Caches -> [Sites -> Never..(MaxTime + Drift)]]
      BY <1>5, TimesAssumption DEF Restart, TypeOK, Never
    <2>5. retryAfter' \in [Sites -> [Sites -> 0..(MaxTime + Drift + RetryAfter)]]
      BY <1>5, <2>1, TimesAssumption DEF Restart, TypeOK
    <2> QED
      BY <1>5, <2>2, <2>3, <2>4, <2>5 DEF Restart, TypeOK, Jobs, Steps, Stamps, Times, Asked
  <1>6. ASSUME NEW u \in Sites, Rotate(u)
        PROVE  TypeOK'
    <2>0. version[u] + 1 \in Versions
      <3>1. version[u] \in Versions /\ version[u] < MaxVersion
        BY <1>6 DEF Rotate, TypeOK
      <3> QED
        BY <3>1, TimesAssumption DEF Versions
    <2>1. version' \in [Sites -> Versions]
      BY <1>6, <2>0 DEF Rotate, TypeOK
    <2>2. retiredAt' \in [Sites -> [Versions -> 0..MaxTime]]
      BY <1>6 DEF Rotate, TypeOK
    <2> QED
      BY <1>6, <2>1, <2>2 DEF Rotate, TypeOK
  <1>7. CASE Tick
    <2>1. clock' \in 0..MaxTime
      BY <1>7, TimesAssumption DEF Tick, TypeOK
    <2>2. longest' \in Nat
      BY <1>7 DEF Tick, TypeOK
    <2>3. retryAfter' \in [Sites -> [Sites -> 0..(MaxTime + Drift + RetryAfter)]]
      <3>1. \A i \in Sites : \A u \in Sites :
               Future(retryAfter[i][u], Now(i) + 1) \in 0..(MaxTime + Drift + RetryAfter)
        BY TimesAssumption DEF Future, TypeOK
      <3> QED
        BY <1>7, <3>1 DEF Tick
    <2> QED
      BY <1>7, <2>1, <2>2, <2>3 DEF Tick, TypeOK
  <1> QED
    BY <1>1, <1>2, <1>3, <1>4, <1>5, <1>6, <1>7, SitesAssumption DEF Next

-------------------------------------------------------------------------------
\* Every request waits for peers that its site lists, and for running resolutions.
Served ==
    \A r \in Requests : request[r] # NoRequest =>
        /\ request[r].at \in Sites
        /\ request[r].open # {}
        /\ request[r].open \subseteq PeersOf[request[r].at]
        /\ \A u \in request[r].open : job[request[r].at][u].step # "idle"

\* What a settled resolution leaves of the requests.
LEMMA SettleServed ==
    ASSUME TypeOK, Served, NEW i \in Sites, NEW u \in Sites, NEW keys, Settle(i, u, keys)
    PROVE  Served'
  <1>1. job \in [Sites -> [Sites -> Jobs]] /\ request \in [Requests -> Asked]
    BY Typed
  <1>2. SUFFICES ASSUME NEW r \in Requests, request'[r] # NoRequest
                 PROVE  /\ request'[r].at \in Sites
                        /\ request'[r].open # {}
                        /\ request'[r].open \subseteq PeersOf[request'[r].at]
                        /\ \A w \in request'[r].open : job'[request'[r].at][w].step # "idle"
    BY DEF Served
  <1>3. \A a \in Sites : \A w \in Sites : ~(a = i /\ w = u) => job'[a][w] = job[a][w]
    BY <1>1 DEF Settle
  <1>4. CASE r \in Waiting(i, u)
    <2>1. request[r].at = i /\ u \in request[r].open /\ request[r].open # {u}
      BY <1>2, <1>4 DEF Settle, Waiting
    <2>2. request[r] # NoRequest
      BY <2>1 DEF NoRequest
    <2>3. request'[r] = With(r, u, keys)
      BY <1>2, <1>4, <2>1 DEF Settle
    <2>4. request'[r].at = i /\ request'[r].open = request[r].open \ {u}
      BY <2>1, <2>3, <1>1 DEF With, Asked
    <2> QED
      BY <2>1, <2>2, <2>4, <1>3, SitesAssumption DEF Served
  <1>5. CASE r \notin Waiting(i, u)
    <2>1. request'[r] = request[r]
      BY <1>5 DEF Settle
    <2>2. ~(request[r].at = i /\ u \in request[r].open)
      BY <1>5 DEF Waiting
    <2> QED
      BY <1>2, <2>1, <2>2, <1>3, SitesAssumption DEF Served
  <1> QED
    BY <1>4, <1>5

\* A step of a resolution that goes on strands nobody.
LEMMA RunningServed ==
    ASSUME Served, TypeOK, NEW i \in Sites, NEW u \in Sites, NEW next, next.step # "idle",
           job' = [job EXCEPT ![i][u] = next], UNCHANGED request
    PROVE  Served'
  <1>1. job \in [Sites -> [Sites -> Jobs]]
    BY Typed
  <1>2. \A a \in Sites : \A w \in Sites : job[a][w].step # "idle" => job'[a][w].step # "idle"
    BY <1>1
  <1> QED
    BY <1>2, SitesAssumption DEF Served

\* Nobody is stranded by any step.
LEMMA ServedStep ==
    ASSUME TypeOK, Served, [Next]_vars
    PROVE  Served'
  <1>1. CASE UNCHANGED vars
    BY <1>1 DEF vars, Served
  <1>2. ASSUME NEW r \in Requests, NEW i \in Followed, Ask(r, i)
        PROVE  Served'
    <2>1. /\ job \in [Sites -> [Sites -> Jobs]] /\ request \in [Requests -> Asked]
          /\ i \in Sites /\ PeersOf[i] # {} /\ PeersOf[i] \subseteq Sites
      BY Typed, SitesAssumption
    <2>2. \A a \in Sites : \A w \in Sites :
             (job[a][w].step # "idle" \/ (a = i /\ w \in PeersOf[i])) => job'[a][w].step # "idle"
      <3> SUFFICES ASSUME NEW a \in Sites, NEW w \in Sites,
                          job[a][w].step # "idle" \/ (a = i /\ w \in PeersOf[i])
                   PROVE  job'[a][w].step # "idle"
        OBVIOUS
      <3>1. [Idle EXCEPT !.step = "get", !.since = clock].step = "get"
        BY DEF Idle
      <3> QED
        BY <1>2, <2>1, <3>1 DEF Ask
    <2>3. \A q \in Requests : q # r => request'[q] = request[q]
      BY <1>2, <2>1 DEF Ask
    <2>4. request'[r].at = i /\ request'[r].open = PeersOf[i]
      BY <1>2, <2>1 DEF Ask
    <2>5. SUFFICES ASSUME NEW q \in Requests, request'[q] # NoRequest
                   PROVE  /\ request'[q].at \in Sites
                          /\ request'[q].open # {}
                          /\ request'[q].open \subseteq PeersOf[request'[q].at]
                          /\ \A w \in request'[q].open : job'[request'[q].at][w].step # "idle"
      BY DEF Served
    <2>6. CASE q = r
      BY <2>1, <2>2, <2>4, <2>6
    <2>7. CASE q # r
      <3>1. /\ request'[q] = request[q] /\ request[q].at \in Sites /\ request[q].open # {}
            /\ request[q].open \subseteq PeersOf[request[q].at]
            /\ \A w \in request[q].open : job[request[q].at][w].step # "idle"
        BY <2>3, <2>5, <2>7 DEF Served
      <3>2. request[q].open \subseteq Sites
        BY <3>1, SitesAssumption
      <3> QED
        BY <2>2, <3>1, <3>2
    <2> QED
      BY <2>6, <2>7
  <1>3. ASSUME NEW i \in Followed, NEW u \in PeersOf[i], Resolve(i, u)
        PROVE  Served'
    <2> i \in Sites /\ u \in Sites
      BY SitesAssumption
    <2>1. CASE CacheGet(i, u)
      BY <2>1, GetMoves, RunningServed
    <2>2. CASE Decide(i, u)
      BY <2>2, DecideMoves, RunningServed, SettleServed
    <2>3. CASE FetchOk(i, u)
      BY <2>3, FetchOkMoves, RunningServed
    <2>6. CASE Answer(i, u)
      BY <2>6, AnswerMoves, RunningServed
    <2>4. CASE FetchFails(i, u)
      BY <2>4, SettleServed DEF FetchFails
    <2>5. CASE CachePut(i, u)
      BY <2>5, SettleServed DEF CachePut
    <2> QED
      BY <1>3, <2>1, <2>2, <2>3, <2>4, <2>5, <2>6 DEF Resolve
  <1>4. ASSUME NEW i \in Followed, Restart(i)
        PROVE  Served'
    <2>1. i \in Sites /\ job \in [Sites -> [Sites -> Jobs]]
      BY Typed, SitesAssumption
    <2>2. \A a \in Sites : a # i => job'[a] = job[a]
      BY <1>4, <2>1 DEF Restart
    <2>3. \A r \in Requests : request'[r] # NoRequest => request'[r] = request[r] /\ request[r].at # i
      BY <1>4 DEF Restart
    <2> QED
      BY <2>2, <2>3 DEF Served
  <1>5. CASE UNCHANGED <<request, job>>
    BY <1>5 DEF Served
  <1> QED
    BY <1>1, <1>2, <1>3, <1>4, <1>5 DEF Next, Expire, Rotate, Tick

-------------------------------------------------------------------------------
\* Bare public keys of one site.
Bare(keys, u) == \A key \in keys : key.owner = u /\ ~key.private

\* Keys a document of site i may hold.
Trusted(keys, i) == \A key \in keys : key.owner \in {i} \cup PeersOf[i] /\ ~key.private

\* What is kept of a peer, in a cache or on the way, is the peer's own.
Honest ==
    /\ \A c \in Caches : \A u \in Sites : Bare(cache[c][u].keys, u)
    /\ \A i \in Sites : \A u \in Sites : Bare(job[i][u].cached.keys, u) /\ Bare(job[i][u].keys, u)
    /\ \A r \in Requests : Trusted(request[r].keys, request[r].at)
    /\ DirectTrust

\* Settling with a listed peer's own keys keeps every document trusted.
LEMMA SettleHonest ==
    ASSUME TypeOK, Honest, NEW i \in Sites, NEW u \in PeersOf[i], NEW keys \in SUBSET Keys,
           Bare(keys, u), Settle(i, u, keys),
           \A c \in Caches : \A w \in Sites : Bare(cache'[c][w].keys, w)
    PROVE  Honest'
  <1> u \in Sites
    BY SitesAssumption
  <1>1. job \in [Sites -> [Sites -> Jobs]] /\ request \in [Requests -> Asked]
    BY Typed
  <1>2. \A a \in Sites : \A w \in Sites : Bare(job'[a][w].cached.keys, w) /\ Bare(job'[a][w].keys, w)
    BY <1>1 DEF Settle, Honest, Bare, Idle, NoEntry
  <1>3. ASSUME NEW r \in Waiting(i, u)
        PROVE  With(r, u, keys).at = i /\ Trusted(With(r, u, keys).keys, i)
    <2>1. r \in Requests /\ request[r].at = i
      BY DEF Waiting
    <2>2. With(r, u, keys).at = i /\ With(r, u, keys).keys = request[r].keys \cup keys
      BY <1>1, <2>1 DEF With, Asked
    <2> QED
      BY <2>1, <2>2 DEF Honest, Trusted, Bare
  <1>4. ASSUME NEW r \in Requests
        PROVE  Trusted(request'[r].keys, request'[r].at)
    <2>1. \/ request'[r] = NoRequest \/ request'[r] = request[r]
          \/ r \in Waiting(i, u) /\ request'[r] = With(r, u, keys)
      BY DEF Settle
    <2>2. CASE request'[r] = NoRequest
      BY <2>2 DEF NoRequest, Trusted
    <2> QED
      BY <2>1, <2>2, <1>3 DEF Honest
  <1>5. ASSUME NEW document \in replies'
        PROVE  Trusted(document.keys, document.at)
    <2>1. PICK r \in Waiting(i, u) : document =
            [at |-> i, keys |-> With(r, u, keys).keys, incomplete |-> With(r, u, keys).incomplete]
      BY DEF Settle
    <2> QED
      BY <2>1, <1>3
  <1> QED
    BY <1>2, <1>4, <1>5 DEF Honest, DirectTrust, Trusted

\* A resolution that goes on with the peer's own keys.
LEMMA RunningHonest ==
    ASSUME TypeOK, Honest, NEW i \in Sites, NEW u \in Sites, NEW next \in Jobs,
           Bare(next.cached.keys, u), Bare(next.keys, u),
           job' = [job EXCEPT ![i][u] = next], UNCHANGED <<cache, request>>, replies' = {}
    PROVE  Honest'
  <1>1. job \in [Sites -> [Sites -> Jobs]]
    BY Typed
  <1>2. \A a \in Sites : \A w \in Sites : Bare(job'[a][w].cached.keys, w) /\ Bare(job'[a][w].keys, w)
    BY <1>1 DEF Honest
  <1> QED
    BY <1>2 DEF Honest, DirectTrust

\* No step brings in a key of anybody else.
LEMMA HonestStep ==
    ASSUME TypeOK, Honest, [Next]_vars
    PROVE  Honest'
  <1>1. CASE UNCHANGED vars
    BY <1>1 DEF vars, Honest, DirectTrust
  <1>2. ASSUME NEW r \in Requests, NEW i \in Followed, Ask(r, i)
        PROVE  Honest'
    <2>1. /\ job \in [Sites -> [Sites -> Jobs]] /\ request \in [Requests -> Asked] /\ i \in Sites
      BY Typed, SitesAssumption
    <2>2. \A a \in Sites : \A w \in Sites : Bare(job'[a][w].cached.keys, w) /\ Bare(job'[a][w].keys, w)
      <3> DEFINE first == [Idle EXCEPT !.step = "get", !.since = clock]
      <3>1. first.cached.keys = {} /\ first.keys = {}
        BY DEF Idle, NoEntry
      <3>2. \A a \in Sites : \A w \in Sites : job'[a][w] = job[a][w] \/ job'[a][w] = first
        BY <1>2, <2>1 DEF Ask
      <3> HIDE DEF first
      <3> QED
        BY <3>1, <3>2 DEF Honest, Bare
    <2>3. \A q \in Requests : Trusted(request'[q].keys, request'[q].at)
      <3>1. \A q \in Requests : q # r => request'[q] = request[q]
        BY <1>2, <2>1 DEF Ask
      <3>2. request'[r].at = i /\ request'[r].keys = LocalDocument(i)
        BY <1>2, <2>1 DEF Ask
      <3> QED
        BY <2>1, <3>1, <3>2, LocalKeys DEF Honest, Trusted
    <2> QED
      BY <1>2, <2>2, <2>3 DEF Ask, Honest, DirectTrust
  <1>3. ASSUME NEW i \in Followed, NEW u \in PeersOf[i], Resolve(i, u)
        PROVE  Honest'
    <2> i \in Sites /\ u \in Sites
      BY SitesAssumption
    <2>0. /\ CacheOf[i] \in Caches /\ job[i][u] \in Jobs /\ job[i][u].cached \in Entries
          /\ Bare(job[i][u].cached.keys, u) /\ Bare(job[i][u].keys, u)
          /\ Now(i) \in Times /\ job[i][u].now \in Times
      BY Typed, SitesAssumption, JobFields, NowIsTime DEF Honest
    <2>1. CASE CacheGet(i, u)
      <3>1. UNCHANGED cache /\ Bare(cache[CacheOf[i]][u].keys, u)
        BY <2>0, <2>1 DEF CacheGet, Honest
      <3>2. PICK next \in Jobs :
              /\ job' = [job EXCEPT ![i][u] = next] /\ UNCHANGED request /\ replies' = {}
              /\ next.keys = job[i][u].keys
              /\ next.cached = job[i][u].cached \/ next.cached = cache[CacheOf[i]][u]
        BY <2>1, GetMoves
      <3> QED
        BY <3>1, <3>2, <2>0, RunningHonest
    <2>2. CASE Decide(i, u)
      <3>1. /\ UNCHANGED cache /\ \A c \in Caches : \A w \in Sites : Bare(cache'[c][w].keys, w)
        BY <2>2 DEF Decide, Honest
      <3>2. /\ job[i][u].cached.keys \in SUBSET Keys
            /\ GraceKeys(job[i][u].cached, Now(i)) \in SUBSET Keys
            /\ Bare(GraceKeys(job[i][u].cached, Now(i)), u)
        BY <2>0, EntryFields, GraceFields DEF Bare
      <3>3. CASE Settle(i, u, job[i][u].cached.keys)
        BY <3>1, <3>2, <3>3, <2>0, SettleHonest
      <3>4. CASE Settle(i, u, GraceKeys(job[i][u].cached, Now(i)))
        BY <3>1, <3>2, <3>4, <2>0, SettleHonest
      <3>5. CASE \E next \in Jobs :
                 /\ job' = [job EXCEPT ![i][u] = next] /\ UNCHANGED request /\ replies' = {}
                 /\ next.keys = job[i][u].keys /\ next.cached = job[i][u].cached
        BY <3>1, <3>5, <2>0, RunningHonest
      <3> QED
        BY <2>2, <3>3, <3>4, <3>5, DecideMoves
    <2>3. CASE FetchOk(i, u)
      <3>1. UNCHANGED cache
        BY <2>3 DEF FetchOk
      <3>2. PICK next \in Jobs :
              /\ job' = [job EXCEPT ![i][u] = next] /\ UNCHANGED request /\ replies' = {}
              /\ next.cached = NoEntry /\ next.keys = job[i][u].keys
        BY <2>3, FetchOkMoves
      <3>3. Bare(next.cached.keys, u) /\ Bare(next.keys, u)
        BY <2>0, <3>2 DEF Bare, NoEntry
      <3> QED
        BY <3>1, <3>2, <3>3, RunningHonest
    <2>6. CASE Answer(i, u)
      <3>1. UNCHANGED cache
        BY <2>6 DEF Answer
      <3>2. PICK next \in Jobs :
              /\ job' = [job EXCEPT ![i][u] = next] /\ UNCHANGED request /\ replies' = {}
              /\ next.cached = job[i][u].cached
              /\ \A key \in next.keys : key.owner = u /\ ~key.private /\ key.version = version[u]
        BY <2>6, AnswerMoves
      <3>3. Bare(next.cached.keys, u) /\ Bare(next.keys, u)
        BY <2>0, <3>2 DEF Bare
      <3> QED
        BY <3>1, <3>2, <3>3, RunningHonest
    <2>4. CASE FetchFails(i, u)
      <3>1. /\ \A c \in Caches : \A w \in Sites : Bare(cache'[c][w].keys, w)
            /\ Settle(i, u, GraceKeys(job[i][u].cached, job[i][u].now))
        BY <2>4 DEF FetchFails, Honest
      <3>2. /\ GraceKeys(job[i][u].cached, job[i][u].now) \in SUBSET Keys
            /\ Bare(GraceKeys(job[i][u].cached, job[i][u].now), u)
        BY <2>0, GraceFields DEF Bare
      <3> QED
        BY <3>1, <3>2, SettleHonest
    <2>5. CASE CachePut(i, u)
      <3>1. Settle(i, u, job[i][u].keys) /\ job[i][u].keys \in SUBSET Keys
        BY <2>0, <2>5, JobFields DEF CachePut
      <3>2. \A c \in Caches : \A w \in Sites : Bare(cache'[c][w].keys, w)
        BY <2>0, <2>5, PutWrites DEF Honest
      <3> QED
        BY <2>0, <3>1, <3>2, SettleHonest
    <2> QED
      BY <1>3, <2>1, <2>2, <2>3, <2>4, <2>5, <2>6 DEF Resolve
  <1>4. ASSUME NEW c \in Caches, NEW u \in Sites, Expire(c, u)
        PROVE  Honest'
    <2>1. \A d \in Caches : \A w \in Sites : Bare(cache'[d][w].keys, w)
      BY <1>4 DEF Expire, Honest, TypeOK, Bare, NoEntry
    <2> QED
      BY <1>4, <2>1 DEF Expire, Honest, DirectTrust
  <1>5. ASSUME NEW i \in Followed, Restart(i)
        PROVE  Honest'
    <2>1. /\ job \in [Sites -> [Sites -> Jobs]] /\ i \in Sites
      BY Typed, SitesAssumption
    <2>2. \A d \in Caches : \A w \in Sites : Bare(cache'[d][w].keys, w)
      BY <1>5 DEF Restart, Honest, Bare, NoEntry
    <2>3. \A a \in Sites : \A w \in Sites : Bare(job'[a][w].cached.keys, w) /\ Bare(job'[a][w].keys, w)
      BY <1>5, <2>1 DEF Restart, Honest, Bare, Idle, NoEntry
    <2>4. \A r \in Requests : Trusted(request'[r].keys, request'[r].at)
      BY <1>5 DEF Restart, Honest, Trusted, NoRequest
    <2> QED
      BY <1>5, <2>2, <2>3, <2>4 DEF Restart, Honest, DirectTrust
  <1>6. CASE UNCHANGED <<cache, job, request>> /\ replies' = {}
    BY <1>6 DEF Honest, DirectTrust
  <1> QED
    BY <1>1, <1>2, <1>3, <1>4, <1>5, <1>6 DEF Next, Rotate, Tick

-------------------------------------------------------------------------------
\* A resolution has been in flight no longer than the longest one, and its stamp
\* is the clock of its site from before the fetch.
OnTime(j, t, l) ==
    /\ j.step # "idle" => j.since <= t /\ t <= j.since + l
    /\ j.step \in {"fetch", "body", "put"} => j.since <= j.now /\ j.now <= t + Drift

\* No stamp is ahead of every clock, and none lies far behind the newest.
Timely ==
    /\ \A i \in Sites : \A u \in Sites : OnTime(job[i][u], clock, longest)
    /\ \A c \in Caches : \A u \in Sites : newest[c][u] <= clock + Drift
    /\ LateAnswerBounded

\* A job that goes on in time, when nothing else of this changes.
LEMMA RunningTimely ==
    ASSUME TypeOK, Timely, NEW i \in Sites, NEW u \in Sites, NEW next \in Jobs,
           OnTime(next, clock, longest), job' = [job EXCEPT ![i][u] = next],
           UNCHANGED <<cache, newest, clock, longest>>
    PROVE  Timely'
  <1>1. job \in [Sites -> [Sites -> Jobs]]
    BY Typed
  <1>2. \A a \in Sites : \A w \in Sites : OnTime(job'[a][w], clock, longest)
    BY <1>1 DEF Timely
  <1> QED
    BY <1>2 DEF Timely, LateAnswerBounded

\* Nothing in flight is in time.
LEMMA IdleOnTime == \A t, l : OnTime(Idle, t, l)
  BY DEF OnTime, Idle

\* The stamps stay close over every step.
LEMMA TimelyStep ==
    ASSUME TypeOK, Timely, [Next]_vars
    PROVE  Timely'
  <1>0. /\ clock \in Nat /\ longest \in Nat /\ job \in [Sites -> [Sites -> Jobs]]
        /\ cache \in [Caches -> [Sites -> Entries]] /\ newest \in [Caches -> [Sites -> Stamps]]
    BY Typed, TimesAssumption
  <1>1. CASE UNCHANGED vars
    BY <1>1 DEF vars, Timely, LateAnswerBounded
  <1>2. ASSUME NEW r \in Requests, NEW i \in Followed, Ask(r, i)
        PROVE  Timely'
    <2> i \in Sites
      BY SitesAssumption
    <2> DEFINE first == [Idle EXCEPT !.step = "get", !.since = clock]
    <2>1. OnTime(first, clock, longest)
      BY <1>0, TimesAssumption DEF OnTime, Idle
    <2>2. \A a \in Sites : \A w \in Sites : job'[a][w] = job[a][w] \/ job'[a][w] = first
      BY <1>0, <1>2 DEF Ask
    <2> HIDE DEF first
    <2>3. \A a \in Sites : \A w \in Sites : OnTime(job'[a][w], clock, longest)
      BY <2>1, <2>2 DEF Timely
    <2> QED
      BY <1>2, <2>3 DEF Ask, Timely, LateAnswerBounded
  <1>3. ASSUME NEW i \in Followed, NEW u \in PeersOf[i], Resolve(i, u)
        PROVE  Timely'
    <2> i \in Sites /\ u \in Sites
      BY SitesAssumption
    <2>0. /\ job[i][u] \in Jobs /\ job[i][u].since \in Nat /\ job[i][u].now \in Nat
          /\ OnTime(job[i][u], clock, longest) /\ CacheOf[i] \in Caches
      BY <1>0, JobFields, SitesAssumption, TimesAssumption DEF Timely, Times
    <2>1. CASE CacheGet(i, u)
      <3>1. PICK next \in Jobs :
              /\ job' = [job EXCEPT ![i][u] = next]
              /\ next.step = "decide" /\ next.since = job[i][u].since
        BY <2>1, GetMoves
      <3>2. OnTime(next, clock, longest)
        BY <2>0, <2>1, <3>1 DEF OnTime, CacheGet
      <3> QED
        BY <2>1, <3>1, <3>2, RunningTimely DEF CacheGet
    <2>2. CASE Decide(i, u)
      <3>1. CASE job' = [job EXCEPT ![i][u] = Idle]
        BY <2>2, <3>1, Blank, IdleOnTime, RunningTimely DEF Decide
      <3>2. CASE \E next \in Jobs :
                    /\ job' = [job EXCEPT ![i][u] = next]
                    /\ next.step = "fetch" /\ next.since = job[i][u].since /\ next.now = Now(i)
        <4>1. PICK next \in Jobs :
                    /\ job' = [job EXCEPT ![i][u] = next]
                    /\ next.step = "fetch" /\ next.since = job[i][u].since /\ next.now = Now(i)
          BY <3>2
        <4>2. Now(i) \in Nat /\ clock <= Now(i) /\ Now(i) <= clock + Drift
          BY NowIsTime, TimesAssumption DEF Times
        <4>3. job[i][u].since <= clock /\ clock <= job[i][u].since + longest
          BY <2>0, <2>2 DEF OnTime, Decide
        <4>4. OnTime(next, clock, longest)
          BY <1>0, <2>0, <4>1, <4>2, <4>3, TimesAssumption DEF OnTime
        <4> QED
          BY <2>2, <4>1, <4>4, RunningTimely DEF Decide
      <3> QED
        BY <2>2, <3>1, <3>2, DecideMoves DEF Settle
    <2>3. CASE FetchOk(i, u)
      <3>1. PICK next \in Jobs :
              /\ job' = [job EXCEPT ![i][u] = next]
              /\ next.step = "put" /\ next.since = job[i][u].since /\ next.now = job[i][u].now
        BY <2>3, FetchOkMoves
      <3>2. OnTime(next, clock, longest)
        BY <2>0, <2>3, <3>1 DEF OnTime, FetchOk
      <3> QED
        BY <2>3, <3>1, <3>2, RunningTimely DEF FetchOk
    <2>6. CASE Answer(i, u)
      <3>1. PICK next \in Jobs :
              /\ job' = [job EXCEPT ![i][u] = next]
              /\ next.step = "body" /\ next.since = job[i][u].since /\ next.now = job[i][u].now
        BY <2>6, AnswerMoves
      <3>2. OnTime(next, clock, longest)
        BY <2>0, <2>6, <3>1 DEF OnTime, Answer
      <3> QED
        BY <2>6, <3>1, <3>2, RunningTimely DEF Answer
    <2>4. CASE FetchFails(i, u)
      BY <2>4, Blank, IdleOnTime, RunningTimely DEF FetchFails, Settle
    <2>5. CASE CachePut(i, u)
      <3>1. /\ clock <= job[i][u].since + longest /\ job[i][u].since <= job[i][u].now
            /\ job[i][u].now <= clock + Drift
        BY <2>0, <2>5 DEF OnTime, CachePut
      <3>2. \A a \in Sites : \A w \in Sites : OnTime(job'[a][w], clock, longest)
        BY <1>0, <2>5, IdleOnTime DEF CachePut, Settle, Timely
      <3>3. ASSUME NEW d \in Caches, NEW w \in Sites
            PROVE  /\ newest'[d][w] <= clock + Drift
                   /\ cache'[d][w] # NoEntry =>
                        newest'[d][w] - cache'[d][w].fetchedAt <= longest + Drift
        <4>1. CASE cache'[d][w] = cache[d][w] /\ newest'[d][w] = newest[d][w]
          BY <4>1 DEF Timely, LateAnswerBounded
        <4>2. CASE /\ cache'[d][w].fetchedAt = job[i][u].now
                   /\ newest'[d][w] = Larger(newest[d][w], job[i][u].now)
          <5>1. newest[d][w] \in Int /\ newest[d][w] <= clock + Drift
            BY <1>0, TimesAssumption DEF Stamps, Never, Timely
          <5> QED
            BY <1>0, <2>0, <3>1, <4>2, <5>1, TimesAssumption DEF Larger
        <4> QED
          BY <2>5, <4>1, <4>2, PutWrites
      <3>4. clock' = clock /\ longest' = longest
        BY <2>5 DEF CachePut
      <3> QED
        BY <3>2, <3>3, <3>4 DEF Timely, LateAnswerBounded
    <2> QED
      BY <1>3, <2>1, <2>2, <2>3, <2>4, <2>5, <2>6 DEF Resolve
  <1>4. ASSUME NEW c \in Caches, NEW u \in Sites, Expire(c, u)
        PROVE  Timely'
    <2>1. \A d \in Caches : \A w \in Sites : cache'[d][w] = NoEntry \/ cache'[d][w] = cache[d][w]
      BY <1>0, <1>4 DEF Expire
    <2> QED
      BY <1>4, <2>1 DEF Expire, Timely, LateAnswerBounded
  <1>5. ASSUME NEW i \in Followed, Restart(i)
        PROVE  Timely'
    <2> i \in Sites
      BY SitesAssumption
    <2>1. \A a \in Sites : \A w \in Sites : OnTime(job'[a][w], clock, longest)
      BY <1>0, <1>5, IdleOnTime DEF Restart, Timely
    <2>2. \A d \in Caches : \A w \in Sites :
            \/ cache'[d][w] = NoEntry /\ newest'[d][w] = Never
            \/ cache'[d][w] = cache[d][w] /\ newest'[d][w] = newest[d][w]
      BY <1>0, <1>5 DEF Restart
    <2>3. Never <= clock + Drift /\ clock' = clock /\ longest' = longest
      BY <1>0, <1>5, TimesAssumption DEF Never, Restart
    <2> QED
      BY <2>1, <2>2, <2>3 DEF Timely, LateAnswerBounded
  <1>6. ASSUME NEW u \in Sites, Rotate(u)
        PROVE  Timely'
    BY <1>6 DEF Rotate, Timely, LateAnswerBounded
  <1>7. CASE Tick
    <2>1. clock' = clock + 1 /\ UNCHANGED <<job, cache, newest>>
      BY <1>7 DEF Tick
    <2>4. longest' \in Nat /\ longest <= longest'
      BY <1>0, <1>7 DEF Tick
    <2>2. ASSUME NEW a \in Sites, NEW w \in Sites
          PROVE  OnTime(job[a][w], clock + 1, longest')
      <3>1. /\ job[a][w].since \in Nat /\ job[a][w].now \in Nat
            /\ OnTime(job[a][w], clock, longest)
        BY <1>0, JobFields, TimesAssumption DEF Times, Timely
      <3>2. job[a][w].step # "idle" /\ clock = job[a][w].since + longest => longest' = longest + 1
        <4>1. job[a][w].step # "idle" /\ clock = job[a][w].since + longest => Lasts
          BY <1>0, <3>1 DEF Lasts
        <4> QED
          BY <1>7, <4>1 DEF Tick
      <3>3. ASSUME job[a][w].step # "idle"
            PROVE  clock + 1 <= job[a][w].since + longest'
        <4>1. PICK s \in Nat, t \in Nat, l \in Nat, m \in Nat :
                s = job[a][w].since /\ t = clock /\ l = longest /\ m = longest'
          BY <1>0, <2>4, <3>1
        <4>2. t <= s + l /\ l <= m /\ (t = s + l => m = l + 1)
          BY <2>4, <3>1, <3>2, <3>3, <4>1 DEF OnTime
        <4>3. t + 1 <= s + m
          BY <4>2
        <4> QED
          BY <4>1, <4>3
      <3> QED
        BY <1>0, <3>1, <3>3, TimesAssumption DEF OnTime
    <2>3. ASSUME NEW c \in Caches, NEW w \in Sites
          PROVE  /\ newest[c][w] <= clock + 1 + Drift
                 /\ cache[c][w] # NoEntry =>
                      newest[c][w] - cache[c][w].fetchedAt <= longest' + Drift
      <3>1. /\ newest[c][w] \in Int /\ newest[c][w] <= clock + Drift
            /\ cache[c][w].fetchedAt \in Int
            /\ cache[c][w] # NoEntry =>
                  newest[c][w] - cache[c][w].fetchedAt <= longest + Drift
        BY <1>0, EntryFields, TimesAssumption DEF Stamps, Never, Timely, LateAnswerBounded
      <3> QED
        BY <1>0, <2>4, <3>1, TimesAssumption
    <2> QED
      BY <2>1, <2>2, <2>3 DEF Timely, LateAnswerBounded
  <1> QED
    BY <1>1, <1>2, <1>3, <1>4, <1>5, <1>6, <1>7, SitesAssumption DEF Next

-------------------------------------------------------------------------------
Grace == Larger(CacheTtl, StaleTtl)

\* Every key of peer u was published at t or later.
Seen(keys, u, t) == \A key \in keys : t <= LastPublished(u, key.version)

\* An entry is no older than its stamp says, but for the clocks.
Dated(entry, u) == Seen(entry.keys, u, entry.fetchedAt - Drift)

\* The same after a step, for keys and entries from before it.
PublishedNext(u, v) == IF v = version'[u] THEN clock' ELSE retiredAt'[u][v]
SeenNext(keys, u, t) == \A key \in keys : t <= PublishedNext(u, key.version)
DatedNext(entry, u) == SeenNext(entry.keys, u, entry.fetchedAt - Drift)

\* How old the keys are that wait in a cache or in a resolution.
Aged ==
    /\ \A u \in Sites : \A v \in Versions : retiredAt[u][v] <= clock
    /\ \A c \in Caches : \A u \in Sites : Dated(cache[c][u], u)
    /\ \A i \in Sites : \A u \in Sites :
          /\ Dated(job[i][u].cached, u)
          /\ job[i][u].step \in {"body", "put"} => Seen(job[i][u].keys, u, job[i][u].now - Drift)

\* When a key was last published is a time, and never in the future.
LEMMA PublishedIsTime ==
    ASSUME TypeOK, Aged, NEW u \in Sites, NEW v \in Versions
    PROVE  LastPublished(u, v) \in Nat /\ LastPublished(u, v) <= clock
  BY TimesAssumption DEF TypeOK, LastPublished, Aged

\* Nothing is published less recently than before.
LEMMA PublishedGrows ==
    ASSUME TypeOK, Aged, [Next]_vars, NEW u \in Sites, NEW v \in Versions
    PROVE  /\ LastPublished(u, v) <= PublishedNext(u, v) /\ PublishedNext(u, v) \in Nat
           /\ retiredAt'[u][v] <= clock'
  <1>0. /\ clock \in Nat /\ version \in [Sites -> Versions]
        /\ retiredAt \in [Sites -> [Versions -> 0..MaxTime]] /\ retiredAt[u][v] \in Nat
        /\ retiredAt[u][v] <= clock
    BY TimesAssumption DEF TypeOK, Aged
  <1>1. CASE UNCHANGED <<clock, version, retiredAt>>
    BY <1>0, <1>1 DEF LastPublished, PublishedNext
  <1>2. ASSUME NEW i \in Sites, Rotate(i)
        PROVE  /\ LastPublished(u, v) <= PublishedNext(u, v) /\ PublishedNext(u, v) \in Nat
               /\ retiredAt'[u][v] <= clock'
    <2>1. clock' = clock
      BY <1>2 DEF Rotate
    <2>2. CASE u # i
      <3>1. version'[u] = version[u] /\ retiredAt'[u] = retiredAt[u]
        BY <1>0, <1>2, <2>2 DEF Rotate
      <3> QED
        BY <1>0, <2>1, <3>1 DEF LastPublished, PublishedNext
    <2>3. CASE u = i
      <3>1. version'[u] = version[u] + 1 /\ version[u] \in Nat
        BY <1>0, <1>2, <2>3, TimesAssumption DEF Rotate, Versions
      <3>2. retiredAt'[u][v] = IF v = version[u] THEN clock ELSE retiredAt[u][v]
        BY <1>0, <1>2, <2>3 DEF Rotate
      <3> QED
        BY <1>0, <2>1, <3>1, <3>2 DEF LastPublished, PublishedNext
    <2> QED
      BY <2>2, <2>3
  <1>3. CASE Tick
    <2>1. clock' = clock + 1 /\ UNCHANGED <<version, retiredAt>>
      BY <1>3 DEF Tick
    <2> QED
      BY <1>0, <2>1 DEF LastPublished, PublishedNext
  <1>4. (\E i \in Sites : Rotate(i)) \/ Tick \/ UNCHANGED <<clock, version, retiredAt>>
    <2>1. ASSUME NEW i \in Followed, NEW w \in PeersOf[i], Resolve(i, w)
          PROVE  UNCHANGED <<clock, version, retiredAt>>
      BY <2>1 DEF Resolve, CacheGet, Decide, Answer, FetchOk, FetchFails, CachePut
    <2>2. ASSUME NEW r \in Requests, NEW i \in Followed, Ask(r, i)
          PROVE  UNCHANGED <<clock, version, retiredAt>>
      BY <2>2 DEF Ask
    <2>3. ASSUME NEW c \in Caches, NEW w \in Sites, Expire(c, w)
          PROVE  UNCHANGED <<clock, version, retiredAt>>
      BY <2>3 DEF Expire
    <2>4. ASSUME NEW i \in Followed, Restart(i)
          PROVE  UNCHANGED <<clock, version, retiredAt>>
      BY <2>4 DEF Restart
    <2>5. ASSUME UNCHANGED vars
          PROVE  UNCHANGED <<clock, version, retiredAt>>
      BY <2>5 DEF vars
    <2> QED
      BY <2>1, <2>2, <2>3, <2>4, <2>5, SitesAssumption DEF Next
  <1> QED
    BY <1>1, <1>2, <1>3, <1>4

\* What was seen stays seen.
LEMMA SeenStays ==
    ASSUME TypeOK, Aged, [Next]_vars, NEW u \in Sites, NEW keys \in SUBSET Keys, NEW t \in Int,
           Seen(keys, u, t)
    PROVE  SeenNext(keys, u, t)
  <1> SUFFICES ASSUME NEW key \in keys
               PROVE  t <= PublishedNext(u, key.version)
    BY DEF SeenNext
  <1>1. key.version \in Versions /\ t <= LastPublished(u, key.version)
    BY DEF Keys, Seen
  <1> QED
    BY <1>1, PublishedIsTime, PublishedGrows

\* And an entry as old as its stamp says.
LEMMA DatedStays ==
    ASSUME TypeOK, Aged, [Next]_vars, NEW u \in Sites, NEW entry \in Entries, Dated(entry, u)
    PROVE  DatedNext(entry, u)
  <1>1. entry.fetchedAt - Drift \in Int /\ entry.keys \in SUBSET Keys
    BY EntryFields, TimesAssumption DEF Stamps, Never
  <1> QED
    BY <1>1, SeenStays DEF Dated, DatedNext

\* What has no keys is not too old.
LEMMA NothingDated == \A u : DatedNext(NoEntry, u)
  BY DEF DatedNext, SeenNext, NoEntry

\* A resolution whose keys stay, or that has none yet.
JobDated(j, u) ==
    /\ Dated(j.cached, u)
    /\ j.step \in {"body", "put"} => Seen(j.keys, u, j.now - Drift)

JobDatedNext(j, u) ==
    /\ DatedNext(j.cached, u)
    /\ j.step \in {"body", "put"} => SeenNext(j.keys, u, j.now - Drift)

\* It stays as it was.
LEMMA JobDatedStays ==
    ASSUME TypeOK, Aged, [Next]_vars, NEW u \in Sites, NEW j \in Jobs, JobDated(j, u)
    PROVE  JobDatedNext(j, u)
  <1>1. j.cached \in Entries /\ j.keys \in SUBSET Keys /\ j.now - Drift \in Int
    BY JobFields, TimesAssumption DEF Times
  <1> QED
    BY <1>1, SeenStays, DatedStays DEF JobDated, JobDatedNext

\* The ages of what is cached or in flight, over every step.
LEMMA AgedStep ==
    ASSUME TypeOK, Timely, Aged, [Next]_vars
    PROVE  Aged'
  <1>0. /\ clock \in Nat /\ job \in [Sites -> [Sites -> Jobs]]
        /\ cache \in [Caches -> [Sites -> Entries]] /\ version \in [Sites -> Versions]
    BY Typed, TimesAssumption
  <1>1. \A u \in Sites : \A v \in Versions : retiredAt'[u][v] <= clock'
    BY PublishedGrows
  <1>2. \A c \in Caches : \A u \in Sites : DatedNext(cache[c][u], u)
    BY <1>0, DatedStays DEF Aged
  <1>3. \A i \in Sites : \A u \in Sites : JobDatedNext(job[i][u], u)
    BY <1>0, JobDatedStays DEF Aged, JobDated
  <1>4. \A u : JobDatedNext(Idle, u)
    BY NothingDated DEF JobDatedNext, Idle
  <1>5. SUFFICES /\ \A c \in Caches : \A u \in Sites : DatedNext(cache'[c][u], u)
                 /\ \A i \in Sites : \A u \in Sites : JobDatedNext(job'[i][u], u)
    BY <1>1 DEF Aged, Dated, Seen, LastPublished, DatedNext, SeenNext, PublishedNext, JobDatedNext
  <1>6. CASE UNCHANGED <<cache, job>>
    BY <1>2, <1>3, <1>6
  <1>7. ASSUME NEW r \in Requests, NEW i \in Followed, Ask(r, i)
        PROVE  /\ \A c \in Caches : \A u \in Sites : DatedNext(cache'[c][u], u)
               /\ \A a \in Sites : \A u \in Sites : JobDatedNext(job'[a][u], u)
    <2> i \in Sites
      BY SitesAssumption
    <2> DEFINE first == [Idle EXCEPT !.step = "get", !.since = clock]
    <2>1. first.cached = NoEntry /\ first.step = "get"
      BY DEF Idle
    <2>2. \A a \in Sites : \A w \in Sites : job'[a][w] = job[a][w] \/ job'[a][w] = first
      BY <1>0, <1>7 DEF Ask
    <2> HIDE DEF first
    <2>3. UNCHANGED cache
      BY <1>7 DEF Ask
    <2> QED
      BY <1>2, <1>3, <2>1, <2>2, <2>3, NothingDated DEF JobDatedNext
  <1>8. ASSUME NEW i \in Followed, NEW u \in PeersOf[i], Resolve(i, u)
        PROVE  /\ \A c \in Caches : \A w \in Sites : DatedNext(cache'[c][w], w)
               /\ \A a \in Sites : \A w \in Sites : JobDatedNext(job'[a][w], w)
    <2> i \in Sites /\ u \in Sites
      BY SitesAssumption
    <2>0. /\ job[i][u] \in Jobs /\ CacheOf[i] \in Caches /\ OnTime(job[i][u], clock, longest)
          /\ job[i][u].now \in Nat
      BY <1>0, SitesAssumption, JobFields, TimesAssumption DEF Timely, Times
    <2>1. ASSUME NEW next, JobDatedNext(next, u), job' = [job EXCEPT ![i][u] = next]
          PROVE  \A a \in Sites : \A w \in Sites : JobDatedNext(job'[a][w], w)
      BY <1>0, <1>3, <2>1
    <2>2. CASE CacheGet(i, u)
      <3>1. PICK next \in Jobs :
              /\ job' = [job EXCEPT ![i][u] = next] /\ next.step = "decide"
              /\ next.cached = job[i][u].cached \/ next.cached = cache[CacheOf[i]][u]
        BY <2>2, GetMoves
      <3>2. JobDatedNext(next, u)
        BY <1>2, <1>3, <2>0, <3>1 DEF JobDatedNext
      <3> QED
        BY <1>2, <2>1, <2>2, <3>1, <3>2 DEF CacheGet
    <2>3. CASE Decide(i, u)
      <3>1. UNCHANGED cache
        BY <2>3 DEF Decide
      <3>2. \E next : JobDatedNext(next, u) /\ job' = [job EXCEPT ![i][u] = next]
        <4>1. CASE job' = [job EXCEPT ![i][u] = Idle]
          BY <1>4, <4>1
        <4>2. CASE \E next \in Jobs :
                      /\ job' = [job EXCEPT ![i][u] = next]
                      /\ next.step = "fetch" /\ next.cached = job[i][u].cached
          BY <1>3, <4>2 DEF JobDatedNext
        <4> QED
          BY <2>3, <4>1, <4>2, DecideMoves DEF Settle
      <3> QED
        BY <1>2, <2>1, <3>1, <3>2
    <2>7. CASE Answer(i, u)
      <3>1. PICK next \in Jobs :
              /\ job' = [job EXCEPT ![i][u] = next]
              /\ next.step = "body" /\ next.now = job[i][u].now /\ next.cached = job[i][u].cached
              /\ \A key \in next.keys : key.owner = u /\ ~key.private /\ key.version = version[u]
        BY <2>7, AnswerMoves
      <3>2. UNCHANGED <<cache, clock, version, retiredAt>>
        BY <2>7 DEF Answer
      <3>3. job[i][u].now - Drift <= clock
        <4>1. job[i][u].now <= clock + Drift
          BY <2>0, <2>7 DEF OnTime, Answer
        <4> QED
          BY <1>0, <2>0, <4>1, TimesAssumption
      <3>4. SeenNext(next.keys, u, next.now - Drift)
        BY <1>0, <3>1, <3>2, <3>3 DEF SeenNext, PublishedNext
      <3>5. JobDatedNext(next, u)
        BY <1>3, <3>1, <3>4 DEF JobDatedNext
      <3> QED
        BY <1>2, <2>1, <3>1, <3>2, <3>5
    <2>4. CASE FetchOk(i, u)
      <3>1. PICK next \in Jobs :
              /\ job' = [job EXCEPT ![i][u] = next] /\ next.now = job[i][u].now
              /\ next.step = "put" /\ next.keys = job[i][u].keys /\ next.cached = NoEntry
        BY <2>4, FetchOkMoves
      <3>2. UNCHANGED cache /\ job[i][u].step = "body"
        BY <2>4 DEF FetchOk
      <3>3. JobDatedNext(next, u)
        BY <1>3, <3>1, <3>2, NothingDated DEF JobDatedNext
      <3> QED
        BY <1>2, <2>1, <3>1, <3>2, <3>3
    <2>5. CASE FetchFails(i, u)
      BY <1>2, <1>4, <2>1, <2>5 DEF FetchFails, Settle
    <2>6. CASE CachePut(i, u)
      <3>1. SeenNext(job[i][u].keys, u, job[i][u].now - Drift)
        BY <1>3, <2>6 DEF CachePut, JobDatedNext
      <3>2. \A d \in Caches : \A w \in Sites : DatedNext(cache'[d][w], w)
        BY <1>2, <2>6, <3>1, PutWrites DEF DatedNext
      <3> QED
        BY <1>4, <2>1, <2>6, <3>2 DEF CachePut, Settle
    <2> QED
      BY <1>8, <2>2, <2>3, <2>4, <2>5, <2>6, <2>7 DEF Resolve
  <1>9. ASSUME NEW c \in Caches, NEW u \in Sites, Expire(c, u)
        PROVE  /\ \A d \in Caches : \A w \in Sites : DatedNext(cache'[d][w], w)
               /\ UNCHANGED job
    <2>1. \A d \in Caches : \A w \in Sites : cache'[d][w] = NoEntry \/ cache'[d][w] = cache[d][w]
      BY <1>0, <1>9 DEF Expire
    <2> QED
      BY <1>2, <1>9, <2>1, NothingDated DEF Expire
  <1>10. ASSUME NEW i \in Followed, Restart(i)
         PROVE  /\ \A d \in Caches : \A w \in Sites : DatedNext(cache'[d][w], w)
                /\ \A a \in Sites : \A w \in Sites : JobDatedNext(job'[a][w], w)
    <2>1. \A d \in Caches : \A w \in Sites : cache'[d][w] = NoEntry \/ cache'[d][w] = cache[d][w]
      BY <1>0, <1>10 DEF Restart
    <2>2. \A a \in Sites : \A w \in Sites : job'[a][w] = Idle \/ job'[a][w] = job[a][w]
      BY <1>0, <1>10, SitesAssumption DEF Restart
    <2> QED
      BY <1>2, <1>3, <1>4, <2>1, <2>2, NothingDated
  <1> QED
    BY <1>3, <1>6, <1>7, <1>8, <1>9, <1>10 DEF Next, vars, Rotate, Tick

-------------------------------------------------------------------------------
\* How old a key may be in an answer that n resolutions of l went into.
Reach(n, l) == Grace + n * l + Drift

\* Whatever the request q of site at waits for began while the keys q holds were
\* good for one resolution, and so they are good for two when it ends.
Lasting(q, at) ==
    \A key \in q.keys : key.owner # at =>
        /\ Calls(at) = 2
        /\ \A w \in q.open :
              job[at][w].since <= LastPublished(key.owner, key.version) + Reach(1, longest)

Kept == \A r \in Requests : request[r] # NoRequest => Lasting(request[r], request[r].at)

\* The arithmetic of the bounds.
LEMMA Bounds ==
    /\ Grace \in Nat /\ StaleTtl <= Grace /\ CacheTtl <= Grace
    /\ \A l \in Nat :
          /\ Reach(1, l) \in Nat /\ Reach(2, l) \in Nat
          /\ Reach(1, l) = Grace + l + Drift /\ Reach(2, l) = Grace + l + l + Drift
  <1>1. Grace \in Nat /\ StaleTtl <= Grace /\ CacheTtl <= Grace
    BY TimesAssumption DEF Grace, Larger
  <1> QED
    BY <1>1, TimesAssumption DEF Reach

\* One call or two.
LEMMA CallsOneOrTwo == \A i : Calls(i) = 1 \/ Calls(i) = 2
  BY DEF Calls

\* The longest resolution so far is never forgotten.
LEMMA LongestGrows ==
    ASSUME TypeOK, [Next]_vars
    PROVE  longest \in Nat /\ longest' \in Nat /\ longest <= longest'
  <1>0. longest \in Nat
    BY Typed
  <1>1. Tick \/ UNCHANGED longest
    <2>1. ASSUME NEW i \in Followed, NEW w \in PeersOf[i], Resolve(i, w)
          PROVE  UNCHANGED longest
      BY <2>1 DEF Resolve, CacheGet, Decide, Answer, FetchOk, FetchFails, CachePut
    <2> QED
      BY <2>1 DEF Next, vars, Ask, Expire, Restart, Rotate
  <1>2. CASE Tick
    BY <1>0, <1>2 DEF Tick
  <1> QED
    BY <1>0, <1>1, <1>2

\* Keys that are fresh enough when a resolution settles are fresh enough in
\* every answer they end up in.
LEMMA SettleKept ==
    ASSUME TypeOK, Served, Timely, Aged, Honest, Kept,
           NEW i \in Sites, NEW u \in PeersOf[i], NEW keys \in SUBSET Keys, Bare(keys, u),
           job[i][u].step # "idle", Settle(i, u, keys),
           UNCHANGED <<clock, version, retiredAt, longest>>,
           \A key \in keys : clock <= LastPublished(u, key.version) + Reach(1, longest)
    PROVE  Kept' /\ KeysWithinGrace'
  <1>0. /\ clock \in Nat /\ longest \in Nat /\ job \in [Sites -> [Sites -> Jobs]] /\ request \in [Requests -> Asked]
        /\ u \in Sites /\ PeersOf[i] \subseteq Sites
    BY Typed, SitesAssumption, TimesAssumption
  <1>1. ASSUME NEW key \in Keys
        PROVE  /\ LastPublished(key.owner, key.version) \in Nat
               /\ LastPublished(key.owner, key.version)' = LastPublished(key.owner, key.version)
    <2>1. key.owner \in Sites /\ key.version \in Versions
      BY DEF Keys
    <2> QED
      BY <2>1, PublishedIsTime DEF LastPublished
  <1>2. \A a \in Sites : \A w \in Sites : ~(a = i /\ w = u) => job'[a][w] = job[a][w]
    BY <1>0 DEF Settle
  <1>3. ASSUME NEW r \in Waiting(i, u)
        PROVE  /\ r \in Requests /\ request[r] # NoRequest /\ request[r].at = i
               /\ u \in request[r].open /\ request[r].open \subseteq PeersOf[i]
               /\ \A w \in request[r].open : job[i][w].step # "idle"
               /\ Lasting(request[r], i)
               /\ With(r, u, keys).at = i /\ With(r, u, keys).open = request[r].open \ {u}
               /\ With(r, u, keys).keys = request[r].keys \cup keys
               /\ request[r].keys \subseteq Keys
    <2>1. r \in Requests /\ request[r].at = i /\ u \in request[r].open
      BY DEF Waiting
    <2>2. request[r] # NoRequest
      BY <2>1 DEF NoRequest
    <2>3. /\ request[r].open \subseteq PeersOf[i] /\ Lasting(request[r], i)
          /\ \A w \in request[r].open : job[i][w].step # "idle"
      BY <2>1, <2>2 DEF Served, Kept
    <2>4. /\ With(r, u, keys).at = i /\ With(r, u, keys).open = request[r].open \ {u}
          /\ With(r, u, keys).keys = request[r].keys \cup keys /\ request[r].keys \subseteq Keys
      BY <1>0, <2>1 DEF With, Asked
    <2> QED
      BY <2>1, <2>2, <2>3, <2>4
  <1>4. ASSUME NEW w \in PeersOf[i], job[i][w].step # "idle"
        PROVE  /\ job[i][w].since \in Nat /\ job[i][w].since <= clock
               /\ clock <= job[i][w].since + longest
    <2>1. job[i][w] \in Jobs /\ OnTime(job[i][w], clock, longest)
      BY <1>0 DEF Timely
    <2>2. job[i][w].since \in Nat
      BY <2>1, JobFields, TimesAssumption
    <2> QED
      BY <1>4, <2>1, <2>2 DEF OnTime
  <1>5. KeysWithinGrace'
    <2>1. SUFFICES ASSUME NEW document \in replies', NEW key \in document.keys, key.owner # document.at
                   PROVE  clock - LastPublished(key.owner, key.version)
                            <= Reach(Calls(document.at), longest)
                          /\ LastPublished(key.owner, key.version)' = LastPublished(key.owner, key.version)
      BY DEF KeysWithinGrace, Reach, Grace, LastPublished
    <2>2. PICK r \in Waiting(i, u) : request[r].open = {u} /\ document =
            [at |-> i, keys |-> With(r, u, keys).keys, incomplete |-> With(r, u, keys).incomplete]
      BY DEF Settle
    <2>3. document.at = i /\ document.keys = request[r].keys \cup keys /\ key \in Keys
      BY <1>3, <2>2
    <2>4. LastPublished(key.owner, key.version) \in Nat
      BY <1>1, <2>3
    <2>5. CASE key \in keys
      <3>1. clock <= LastPublished(key.owner, key.version) + Reach(1, longest)
        BY <2>5 DEF Bare
      <3>2. /\ clock - LastPublished(key.owner, key.version) <= Reach(1, longest)
            /\ clock - LastPublished(key.owner, key.version) <= Reach(2, longest)
        BY <1>0, <2>4, <3>1, Bounds, TimesAssumption
      <3> QED
        BY <1>1, <2>3, <3>2, CallsOneOrTwo
    <2>6. CASE key \in request[r].keys
      <3>1. /\ Calls(i) = 2
            /\ job[i][u].since <= LastPublished(key.owner, key.version) + Reach(1, longest)
        BY <1>3, <2>1, <2>2, <2>3, <2>6 DEF Lasting
      <3>2. job[i][u].since \in Nat /\ clock <= job[i][u].since + longest
        BY <1>4
      <3>3. clock - LastPublished(key.owner, key.version) <= Reach(2, longest)
        BY <1>0, <2>4, <3>1, <3>2, Bounds, TimesAssumption
      <3> QED
        BY <1>1, <2>3, <3>1, <3>3
    <2> QED
      BY <2>3, <2>5, <2>6
  <1>6. Kept'
    <2>1. SUFFICES ASSUME NEW r \in Requests, request'[r] # NoRequest,
                          NEW key \in request'[r].keys, key.owner # request'[r].at
                   PROVE  /\ Calls(request'[r].at) = 2
                          /\ \A w \in request'[r].open : job'[request'[r].at][w].since
                               <= LastPublished(key.owner, key.version) + Reach(1, longest)
                          /\ LastPublished(key.owner, key.version)' = LastPublished(key.owner, key.version)
      BY DEF Kept, Lasting, Reach, Grace, LastPublished, Calls
    <2>2. CASE r \notin Waiting(i, u)
      <3>1. request'[r] = request[r] /\ request[r] # NoRequest
        BY <2>1, <2>2 DEF Settle
      <3>2. /\ request[r].at \in Sites /\ request[r].open \subseteq Sites
            /\ ~(request[r].at = i /\ u \in request[r].open) /\ key \in Keys
        BY <1>0, <2>1, <2>2, <3>1, AskedFields, SitesAssumption DEF Served, Waiting
      <3>3. \A w \in request[r].open : job'[request[r].at][w] = job[request[r].at][w]
        BY <1>2, <3>2
      <3>4. Lasting(request[r], request[r].at)
        BY <3>1 DEF Kept
      <3> QED
        BY <1>1, <2>1, <3>1, <3>2, <3>3, <3>4 DEF Lasting
    <2>3. CASE r \in Waiting(i, u)
      <3>1. request[r].open # {u} /\ request'[r] = With(r, u, keys)
        BY <2>1, <2>3 DEF Settle
      <3>2. /\ request'[r].at = i /\ request'[r].open = request[r].open \ {u}
            /\ request'[r].keys = request[r].keys \cup keys /\ key \in Keys
        BY <1>3, <2>1, <2>3, <3>1
      <3>3. \A w \in request[r].open \ {u} : job'[i][w] = job[i][w]
        BY <1>0, <1>2, <1>3, <2>3
      <3>4. CASE key \in request[r].keys
        BY <1>1, <1>3, <2>1, <2>3, <3>2, <3>3, <3>4 DEF Lasting
      <3>5. CASE key \in keys
        <4>1. Calls(i) = 2
          <5>1. PICK w \in request[r].open : w # u
            BY <1>3, <2>3, <3>1
          <5> QED
            BY <1>3, <2>3, <5>1 DEF Calls
        <4>2. /\ clock <= LastPublished(key.owner, key.version) + Reach(1, longest)
              /\ LastPublished(key.owner, key.version) \in Nat
          BY <1>1, <3>2, <3>5 DEF Bare
        <4>3. ASSUME NEW w \in request[r].open \ {u}
              PROVE  job'[i][w].since <= LastPublished(key.owner, key.version) + Reach(1, longest)
          <5>1. job[i][w].since \in Nat /\ job[i][w].since <= clock
            BY <1>3, <1>4, <2>3
          <5>2. job[i][w].since <= LastPublished(key.owner, key.version) + Reach(1, longest)
            BY <1>0, <4>2, <5>1, Bounds
          <5> QED
            BY <3>3, <5>2
        <4> QED
          BY <1>1, <3>2, <4>1, <4>3
      <3> QED
        BY <3>2, <3>4, <3>5
    <2> QED
      BY <2>2, <2>3
  <1> QED
    BY <1>5, <1>6

\* A step that answers nobody and begins nothing that is waited for.
LEMMA CarryKept ==
    ASSUME TypeOK, Served, Aged, Kept, [Next]_vars, replies' = {},
           \A r \in Requests : request'[r] # NoRequest =>
              \/ /\ request'[r] = request[r]
                 /\ \A w \in request[r].open :
                       job'[request[r].at][w].since = job[request[r].at][w].since
              \/ \A key \in request'[r].keys : key.owner = request'[r].at
    PROVE  Kept' /\ KeysWithinGrace'
  <1>1. KeysWithinGrace'
    BY DEF KeysWithinGrace
  <1>2. SUFFICES ASSUME NEW r \in Requests, request'[r] # NoRequest,
                        NEW key \in request'[r].keys, key.owner # request'[r].at
                 PROVE  /\ Calls(request'[r].at) = 2
                        /\ \A w \in request'[r].open : job'[request'[r].at][w].since
                               <= PublishedNext(key.owner, key.version) + Reach(1, longest')
    BY <1>1 DEF Kept, Lasting, Reach, Grace, LastPublished, PublishedNext, Calls
  <1>3. /\ request'[r] = request[r] /\ request[r] # NoRequest
        /\ \A w \in request[r].open :
              job'[request[r].at][w].since = job[request[r].at][w].since
    BY <1>2
  <1>4. /\ request[r].at \in Sites /\ request[r].open \subseteq Sites /\ key \in Keys
        /\ Lasting(request[r], request[r].at)
    BY <1>2, <1>3, Typed, AskedFields DEF Served, Kept
  <1>5. key.owner \in Sites /\ key.version \in Versions
    BY <1>4 DEF Keys
  <1>6. /\ LastPublished(key.owner, key.version) <= PublishedNext(key.owner, key.version)
        /\ LastPublished(key.owner, key.version) \in Nat /\ PublishedNext(key.owner, key.version) \in Nat
    BY <1>5, PublishedIsTime, PublishedGrows
  <1>7. ASSUME NEW w \in request[r].open
        PROVE  job'[request[r].at][w].since
                 <= PublishedNext(key.owner, key.version) + Reach(1, longest')
    <2>1. job[request[r].at][w].since \in Nat
      <3>1. job[request[r].at][w] \in Jobs
        BY <1>4, Typed
      <3> QED
        BY <3>1, JobFields, TimesAssumption
    <2>2. job[request[r].at][w].since <= LastPublished(key.owner, key.version) + Reach(1, longest)
      BY <1>2, <1>3, <1>4 DEF Lasting
    <2>3. job'[request[r].at][w].since = job[request[r].at][w].since
      BY <1>3
    <2>4. Reach(1, longest) <= Reach(1, longest') /\ Reach(1, longest) \in Nat /\ Reach(1, longest') \in Nat
      BY LongestGrows, Bounds, TimesAssumption
    <2> QED
      BY <1>6, <2>1, <2>2, <2>3, <2>4
  <1> QED
    BY <1>2, <1>3, <1>4, <1>7 DEF Lasting

\* A resolution that goes on.
LEMMA RunningKept ==
    ASSUME TypeOK, Served, Aged, Kept, [Next]_vars, replies' = {}, UNCHANGED request,
           NEW i \in Sites, NEW u \in Sites, NEW next \in Jobs, job' = [job EXCEPT ![i][u] = next],
           next.since = job[i][u].since
    PROVE  Kept' /\ KeysWithinGrace'
  <1>1. job \in [Sites -> [Sites -> Jobs]]
    BY Typed
  <1>2. \A a \in Sites : \A w \in Sites : job'[a][w].since = job[a][w].since
    <2>1. \A a \in Sites : \A w \in Sites : job'[a][w] = job[a][w] \/ (a = i /\ w = u /\ job'[a][w] = next)
      BY <1>1
    <2> QED
      BY <2>1
  <1>3. \A r \in Requests : request[r] # NoRequest =>
          request[r].at \in Sites /\ request[r].open \subseteq Sites
    BY Typed, AskedFields DEF Served
  <1> QED
    BY <1>2, <1>3, CarryKept

\* No answer is given with a key that is too old, and none is kept for one.
LEMMA KeptStep ==
    ASSUME TypeOK, Served, Honest, Timely, Aged, Kept, KeysWithinGrace, [Next]_vars
    PROVE  Kept' /\ KeysWithinGrace'
  <1>0. /\ clock \in Nat /\ longest \in Nat /\ job \in [Sites -> [Sites -> Jobs]]
        /\ request \in [Requests -> Asked] /\ Reach(1, longest) = Grace + longest + Drift
        /\ Grace \in Nat /\ StaleTtl <= Grace /\ CacheTtl <= Grace
    BY Typed, Bounds, TimesAssumption
  <1>1. \A r \in Requests : request[r] # NoRequest =>
          /\ request[r].at \in Sites /\ request[r].open \subseteq Sites
          /\ \A w \in request[r].open : job[request[r].at][w].step # "idle"
    BY Typed, AskedFields DEF Served
  <1>2. CASE UNCHANGED vars
    BY <1>2 DEF vars, Kept, Lasting, Reach, Grace, LastPublished, Calls, KeysWithinGrace
  <1>3. ASSUME NEW r \in Requests, NEW i \in Followed, Ask(r, i)
        PROVE  Kept' /\ KeysWithinGrace'
    <2> i \in Sites
      BY SitesAssumption
    <2>1. \A a \in Sites : \A w \in Sites : job[a][w].step # "idle" => job'[a][w] = job[a][w]
      BY <1>0, <1>3 DEF Ask
    <2>2. \A q \in Requests : q # r => request'[q] = request[q]
      BY <1>0, <1>3 DEF Ask
    <2>3. request'[r].at = i /\ \A key \in request'[r].keys : key.owner = i
      BY <1>0, <1>3, LocalKeys DEF Ask
    <2>4. \A q \in Requests : q # r /\ request[q] # NoRequest => \A w \in request[q].open :
             job'[request[q].at][w].since = job[request[q].at][w].since
      BY <1>0, <1>1, <2>1
    <2>5. replies' = {}
      BY <1>3 DEF Ask
    <2> QED
      BY <2>2, <2>3, <2>4, <2>5, CarryKept
  <1>4. ASSUME NEW i \in Followed, NEW u \in PeersOf[i], Resolve(i, u)
        PROVE  Kept' /\ KeysWithinGrace'
    <2> i \in Sites /\ u \in Sites
      BY SitesAssumption
    <2> DEFINE j == job[i][u]
    <2>0. /\ j \in Jobs /\ j.since \in Nat /\ j.now \in Nat /\ j.cached \in Entries
          /\ j.keys \in SUBSET Keys /\ OnTime(j, clock, longest) /\ Dated(j.cached, u)
          /\ Bare(j.cached.keys, u) /\ Bare(j.keys, u)
          /\ j.cached.keys \in SUBSET Keys /\ j.cached.fetchedAt \in Int
      <3>1. j \in Jobs
        BY <1>0
      <3>2. j.cached \in Entries
        BY <3>1, JobFields
      <3> QED
        BY <3>1, <3>2, JobFields, EntryFields, TimesAssumption
           DEF Times, Stamps, Never, Timely, Aged, Honest
    <2>1. ASSUME NEW key \in j.cached.keys
          PROVE  /\ LastPublished(u, key.version) \in Nat
                 /\ j.cached.fetchedAt <= LastPublished(u, key.version) + Drift
      <3>1. key.version \in Versions
        BY <2>0 DEF Keys
      <3>2. LastPublished(u, key.version) \in Nat
        BY <3>1, PublishedIsTime
      <3>3. j.cached.fetchedAt - Drift <= LastPublished(u, key.version)
        BY <2>0 DEF Dated, Seen
      <3> HIDE DEF j
      <3> QED
        BY <2>0, <3>2, <3>3, TimesAssumption
    <2>2. CASE CacheGet(i, u)
      <3>1. PICK next \in Jobs :
              /\ job' = [job EXCEPT ![i][u] = next] /\ UNCHANGED request /\ replies' = {}
              /\ next.since = j.since
        BY <2>2, GetMoves
      <3> QED
        BY <3>1, RunningKept
    <2>3. CASE Decide(i, u)
      <3>0. j.step = "decide" /\ UNCHANGED <<clock, version, retiredAt, longest>>
        BY <2>3 DEF Decide
      <3>1. Now(i) \in Nat /\ clock <= Now(i)
        BY NowIsTime, TimesAssumption DEF Times
      <3>2. CASE Within(j.cached, Now(i), CacheTtl) /\ Settle(i, u, j.cached.keys)
        <4>1. ASSUME NEW key \in j.cached.keys
              PROVE  clock <= LastPublished(u, key.version) + Reach(1, longest)
          <5>1. Now(i) - j.cached.fetchedAt < CacheTtl
            BY <3>2 DEF Within
          <5> HIDE DEF j
          <5> QED
            BY <1>0, <2>0, <2>1, <3>1, <5>1, TimesAssumption
        <4> QED
          BY <2>0, <3>0, <3>2, <4>1, SettleKept
      <3>3. CASE Settle(i, u, GraceKeys(j.cached, Now(i)))
        <4>1. GraceKeys(j.cached, Now(i)) \in SUBSET Keys /\ Bare(GraceKeys(j.cached, Now(i)), u)
          BY <2>0, NowIsTime, GraceFields DEF Bare
        <4>2. ASSUME NEW key \in GraceKeys(j.cached, Now(i))
              PROVE  clock <= LastPublished(u, key.version) + Reach(1, longest)
          <5>1. Now(i) - j.cached.fetchedAt < StaleTtl /\ key \in j.cached.keys
            BY <4>2 DEF Within, GraceKeys
          <5> HIDE DEF j
          <5> QED
            BY <1>0, <2>0, <2>1, <3>1, <5>1, TimesAssumption
        <4> QED
          BY <3>0, <3>3, <4>1, <4>2, SettleKept
      <3>4. CASE \E next \in Jobs :
                   /\ job' = [job EXCEPT ![i][u] = next] /\ UNCHANGED request /\ replies' = {}
                   /\ next.since = j.since
        BY <3>4, RunningKept
      <3> QED
        BY <2>3, <3>2, <3>3, <3>4, DecideMoves
    <2>4. CASE FetchOk(i, u)
      <3>1. PICK next \in Jobs :
              /\ job' = [job EXCEPT ![i][u] = next] /\ UNCHANGED request /\ replies' = {}
              /\ next.since = j.since
        BY <2>4, FetchOkMoves
      <3> QED
        BY <3>1, RunningKept
    <2>7. CASE Answer(i, u)
      <3>1. PICK next \in Jobs :
              /\ job' = [job EXCEPT ![i][u] = next] /\ UNCHANGED request /\ replies' = {}
              /\ next.since = j.since
        BY <2>7, AnswerMoves
      <3> QED
        BY <3>1, RunningKept
    <2>5. CASE FetchFails(i, u)
      <3>1. /\ j.step \in {"fetch", "body"} /\ UNCHANGED <<clock, version, retiredAt, longest>>
            /\ Settle(i, u, GraceKeys(j.cached, j.now))
        BY <2>5 DEF FetchFails
      <3>2. clock <= j.since + longest /\ j.since <= j.now
        BY <2>0, <3>1 DEF OnTime
      <3>3. GraceKeys(j.cached, j.now) \in SUBSET Keys /\ Bare(GraceKeys(j.cached, j.now), u)
        BY <2>0, JobFields, GraceFields DEF Bare
      <3>4. ASSUME NEW key \in GraceKeys(j.cached, j.now)
            PROVE  clock <= LastPublished(u, key.version) + Reach(1, longest)
        <4>1. j.now - j.cached.fetchedAt < StaleTtl /\ key \in j.cached.keys
          BY <3>4 DEF Within, GraceKeys
        <4> HIDE DEF j
        <4> QED
          BY <1>0, <2>0, <2>1, <3>2, <4>1, TimesAssumption
      <3> QED
        BY <3>1, <3>3, <3>4, SettleKept
    <2>6. CASE CachePut(i, u)
      <3>1. /\ j.step = "put" /\ UNCHANGED <<clock, version, retiredAt, longest>>
            /\ Settle(i, u, j.keys)
        BY <2>6 DEF CachePut
      <3>2. clock <= j.since + longest /\ j.since <= j.now /\ Seen(j.keys, u, j.now - Drift)
        BY <2>0, <3>1 DEF OnTime, Aged
      <3>3. ASSUME NEW key \in j.keys
            PROVE  clock <= LastPublished(u, key.version) + Reach(1, longest)
        <4>1. key.version \in Versions
          BY <2>0 DEF Keys
        <4>2. LastPublished(u, key.version) \in Nat /\ j.now - Drift <= LastPublished(u, key.version)
          BY <3>2, <4>1, PublishedIsTime DEF Seen
        <4> HIDE DEF j
        <4> QED
          BY <1>0, <2>0, <3>2, <4>2, TimesAssumption
      <3> QED
        BY <2>0, <3>1, <3>3, SettleKept
    <2> QED
      BY <1>4, <2>2, <2>3, <2>4, <2>5, <2>6, <2>7 DEF Resolve
  <1>5. ASSUME NEW i \in Followed, Restart(i)
        PROVE  Kept' /\ KeysWithinGrace'
    <2>1. \A a \in Sites : a # i => job'[a] = job[a]
      BY <1>0, <1>5, SitesAssumption DEF Restart
    <2>2. \A r \in Requests : request'[r] # NoRequest => request'[r] = request[r] /\ request[r].at # i
      BY <1>5 DEF Restart
    <2>3. \A r \in Requests : request'[r] # NoRequest => \A w \in request[r].open :
             job'[request[r].at][w].since = job[request[r].at][w].since
      BY <1>0, <1>1, <2>1, <2>2
    <2>4. replies' = {}
      BY <1>5 DEF Restart
    <2> QED
      BY <2>2, <2>3, <2>4, CarryKept
  <1>6. CASE UNCHANGED <<request, job>> /\ replies' = {}
    <2>1. \A r \in Requests : request[r] # NoRequest => \A w \in request[r].open :
             job'[request[r].at][w].since = job[request[r].at][w].since
      BY <1>0, <1>1, <1>6
    <2> QED
      BY <1>6, <2>1, CarryKept
  <1> QED
    BY <1>2, <1>3, <1>4, <1>5, <1>6 DEF Next, Expire, Rotate, Tick

-------------------------------------------------------------------------------
IInv == TypeOK /\ Served /\ Honest /\ Timely /\ Aged /\ Kept /\ KeysWithinGrace

\* It holds in the beginning: nothing is cached, asked or in flight.
LEMMA InitInv == Init => IInv
  <1> SUFFICES ASSUME Init PROVE IInv
    OBVIOUS
  <1>1. TypeOK
    <2>1. 1 \in Versions /\ 0 \in 0..MaxTime /\ Never \in Stamps /\ 0 \in 0..(MaxTime + Drift + RetryAfter)
      BY TimesAssumption DEF Versions, Stamps, Never
    <2> QED
      BY <2>1, Blank, Typed DEF Init
  <1>2. \A i \in Sites : \A u \in Sites : job[i][u] = Idle
    BY DEF Init
  <1>3. \A c \in Caches : \A u \in Sites : cache[c][u] = NoEntry /\ newest[c][u] = Never
    BY DEF Init
  <1>4. \A r \in Requests : request[r] = NoRequest
    BY DEF Init
  <1>5. Served /\ Kept
    BY <1>4 DEF Served, Kept
  <1>6. Honest
    BY <1>2, <1>3, <1>4 DEF Init, Honest, Bare, Trusted, DirectTrust, Idle, NoEntry, NoRequest
  <1>7. Timely
    <2>1. clock = 0 /\ Never <= 0 + Drift
      BY TimesAssumption DEF Init, Never
    <2> QED
      BY <1>2, <1>3, <2>1, IdleOnTime DEF Timely, LateAnswerBounded
  <1>8. Aged
    BY <1>2, <1>3 DEF Init, Aged, Dated, Seen, Idle, NoEntry
  <1>9. KeysWithinGrace
    BY DEF Init, KeysWithinGrace
  <1> QED
    BY <1>1, <1>5, <1>6, <1>7, <1>8, <1>9 DEF IInv

\* And after every step.
LEMMA StepInv == IInv /\ [Next]_vars => IInv'
  BY TypeStep, ServedStep, HonestStep, TimelyStep, AgedStep, KeptStep DEF IInv

\* And so always.
LEMMA Invariant == Spec => []IInv
  BY InitInv, StepInv, PTL DEF Spec

\* Every variable keeps its type, whatever the sites, caches and times.
THEOREM TypeCorrect == Spec => []TypeOK
  <1>1. IInv => TypeOK
    BY DEF IInv
  <1> QED
    BY <1>1, Invariant, PTL

\* A request that is not answered yet waits for resolutions that still run
\* (src/keys/peers.js:293-300).
THEOREM NobodyWaitsForNothing == Spec => []NobodyStranded
  <1>1. IInv => NobodyStranded
    BY DEF IInv, Served, NobodyStranded
  <1> QED
    BY <1>1, Invariant, PTL

\* No key is trusted through a peer, and no private one is published
\* (src/keys/peers.js:37-46, 81-90).
THEOREM TrustIsDirect == Spec => []DirectTrust
  <1>1. IInv => DirectTrust
    BY DEF IInv, Honest
  <1> QED
    BY <1>1, Invariant, PTL

\* A late answer takes a shared entry back by no more than a resolution was in
\* flight and the clocks' distance (src/keys/peers.js:310, 327).
THEOREM LateAnswerCostsLittle == Spec => []LateAnswerBounded
  <1>1. IInv => LateAnswerBounded
    BY DEF IInv, Timely
  <1> QED
    BY <1>1, Invariant, PTL

\* No answer holds a key its peer stopped publishing a grace period ago, give or
\* take how long resolutions were in flight and the clocks
\* (src/keys/peers.js:294-341).
THEOREM GraceHolds == Spec => []KeysWithinGrace
  <1>1. IInv => KeysWithinGrace
    BY DEF IInv
  <1> QED
    BY <1>1, Invariant, PTL
-------------------------------------------------------------------------------
\* What a late write may take an entry back by, when none took longer than l.
Cost(l) == l + Drift

\* A cache that was last refreshed at stamp may have lost the peer by t.
Overdue(stamp, t, l) == stamp = Never \/ t - stamp >= StaleTtl - Cost(l)

\* What a resolution remembers of its read: an entry with keys that is hardly
\* older than the newest, or none because there was none left to keep; and it
\* never writes an empty one.
Recalls(j, t, l) ==
    /\ j.step = "put" => j.keys # {}
    /\ j.step \in {"decide", "fetch", "body"} /\ ~j.blind =>
          /\ j.cached # NoEntry => j.cached.keys # {} /\ j.newest - j.cached.fetchedAt <= Cost(l)
          /\ j.cached = NoEntry => Overdue(j.newest, IF j.step = "decide" THEN t ELSE j.now, l)

\* No cache holds an empty entry or drops one early, and so no resolution saw one.
Remembered ==
    /\ \A c \in Caches : \A u \in Sites :
          /\ cache[c][u] # NoEntry => cache[c][u].keys # {}
          /\ cache[c][u] = NoEntry => Overdue(newest[c][u], clock, longest)
    /\ \A i \in Sites : \A u \in Sites : Recalls(job[i][u], clock, longest)

\* What is overdue stays it.
LEMMA OverdueLater ==
    ASSUME NEW stamp \in Int, NEW s \in Int, NEW t \in Int, s <= t,
           NEW l \in Nat, NEW m \in Nat, l <= m, Overdue(stamp, s, l)
    PROVE  Overdue(stamp, t, m)
  BY TimesAssumption DEF Overdue, Cost

\* A resolution that has not read anything remembers nothing wrong.
LEMMA UnreadRecalls ==
    ASSUME NEW j, j.step = "idle" \/ j.step = "get", NEW t, NEW l
    PROVE  Recalls(j, t, l)
  BY DEF Recalls

\* One resolution changes, and remembers rightly.
LEMMA RunningRemembers ==
    ASSUME TypeOK, Remembered, NEW i \in Sites, NEW u \in Sites, NEW next \in Jobs,
           Recalls(next, clock, longest), job' = [job EXCEPT ![i][u] = next],
           UNCHANGED <<cache, newest, clock, longest>>
    PROVE  Remembered'
  <1>1. job \in [Sites -> [Sites -> Jobs]]
    BY Typed
  <1>2. \A a \in Sites : \A w \in Sites : Recalls(job'[a][w], clock, longest)
    BY <1>1 DEF Remembered
  <1> QED
    BY <1>2 DEF Remembered

\* The caches and the resolutions stay right over every step.
LEMMA RememberedStep ==
    ASSUME TypeOK, Timely, Remembered, [Next]_vars
    PROVE  Remembered'
  <1>0. /\ clock \in Nat /\ longest \in Nat /\ job \in [Sites -> [Sites -> Jobs]]
        /\ cache \in [Caches -> [Sites -> Entries]] /\ newest \in [Caches -> [Sites -> Stamps]]
    BY Typed, TimesAssumption
  <1>1. \A c \in Caches : \A u \in Sites :
          cache[c][u] \in Entries /\ newest[c][u] \in Int /\ cache[c][u].fetchedAt \in Int
    BY <1>0, EntryFields, TimesAssumption DEF Stamps, Never
  <1>2. Cost(longest) \in Int /\ StaleTtl \in Int /\ Idle.step = "idle"
    BY <1>0, TimesAssumption DEF Cost, Idle
  <1>3. CASE UNCHANGED vars
    BY <1>3 DEF vars, Remembered
  <1>4. ASSUME NEW r \in Requests, NEW i \in Followed, Ask(r, i)
        PROVE  Remembered'
    <2> i \in Sites
      BY SitesAssumption
    <2> DEFINE first == [Idle EXCEPT !.step = "get", !.since = clock]
    <2>1. first.step = "get"
      BY DEF Idle
    <2>2. \A a \in Sites : \A w \in Sites : job'[a][w] = job[a][w] \/ job'[a][w] = first
      BY <1>0, <1>4 DEF Ask
    <2> HIDE DEF first
    <2>3. \A a \in Sites : \A w \in Sites : Recalls(job'[a][w], clock, longest)
      BY <2>1, <2>2, UnreadRecalls DEF Remembered
    <2> QED
      BY <1>4, <2>3 DEF Ask, Remembered
  <1>5. ASSUME NEW i \in Followed, NEW u \in PeersOf[i], Resolve(i, u)
        PROVE  Remembered'
    <2> i \in Sites /\ u \in Sites
      BY SitesAssumption
    <2>0. /\ job[i][u] \in Jobs /\ Recalls(job[i][u], clock, longest) /\ CacheOf[i] \in Caches
          /\ job[i][u].newest \in Int /\ job[i][u].now \in Int
      BY <1>0, JobFields, SitesAssumption, TimesAssumption DEF Remembered, Stamps, Never, Times
    <2>1. CASE CacheGet(i, u)
      <3> DEFINE e == cache[CacheOf[i]][u]
                 n == newest[CacheOf[i]][u]
      <3>1. PICK next \in Jobs :
              /\ job' = [job EXCEPT ![i][u] = next] /\ next.step = "decide"
              /\ \/ next.blind
                 \/ next.cached = e /\ next.newest = n
        BY <2>1, GetMoves
      <3>2. /\ e # NoEntry => e.keys # {} /\ n - e.fetchedAt <= Cost(longest)
            /\ e = NoEntry => Overdue(n, clock, longest)
        BY <2>0 DEF Remembered, Timely, LateAnswerBounded, Cost
      <3>3. Recalls(next, clock, longest)
        BY <3>1, <3>2 DEF Recalls
      <3> QED
        BY <2>1, <3>1, <3>3, RunningRemembers DEF CacheGet
    <2>2. CASE Decide(i, u)
      <3>1. CASE job' = [job EXCEPT ![i][u] = Idle]
        BY <1>2, <2>2, <3>1, Blank, UnreadRecalls, RunningRemembers DEF Decide
      <3>2. CASE \E next \in Jobs :
                    /\ job' = [job EXCEPT ![i][u] = next]
                    /\ next.step = "fetch" /\ next.now = Now(i) /\ next.cached = job[i][u].cached
                    /\ next.blind = job[i][u].blind /\ next.newest = job[i][u].newest
        <4>1. PICK next \in Jobs :
                    /\ job' = [job EXCEPT ![i][u] = next]
                    /\ next.step = "fetch" /\ next.now = Now(i) /\ next.cached = job[i][u].cached
                    /\ next.blind = job[i][u].blind /\ next.newest = job[i][u].newest
          BY <3>2
        <4>2. Now(i) \in Int /\ clock <= Now(i)
          BY NowIsTime, TimesAssumption DEF Times
        <4>3. Overdue(job[i][u].newest, clock, longest) => Overdue(job[i][u].newest, Now(i), longest)
          BY <1>0, <2>0, <4>2, OverdueLater
        <4>4. job[i][u].step = "decide"
          BY <2>2 DEF Decide
        <4>5. Recalls(next, clock, longest)
          BY <2>0, <4>1, <4>3, <4>4 DEF Recalls
        <4> QED
          BY <2>2, <4>1, <4>5, RunningRemembers DEF Decide
      <3> QED
        BY <2>2, <3>1, <3>2, DecideMoves DEF Settle
    <2>3. CASE FetchOk(i, u)
      <3>1. PICK next \in Jobs :
              job' = [job EXCEPT ![i][u] = next] /\ next.step = "put" /\ next.keys # {}
        BY <2>3, FetchOkMoves
      <3>2. Recalls(next, clock, longest)
        BY <3>1 DEF Recalls
      <3> QED
        BY <2>3, <3>1, <3>2, RunningRemembers DEF FetchOk
    <2>6. CASE Answer(i, u)
      <3>1. PICK next \in Jobs :
              /\ job' = [job EXCEPT ![i][u] = next]
              /\ next.step = "body" /\ next.now = job[i][u].now /\ next.cached = job[i][u].cached
              /\ next.blind = job[i][u].blind /\ next.newest = job[i][u].newest
        BY <2>6, AnswerMoves
      <3>2. job[i][u].step = "fetch"
        BY <2>6 DEF Answer
      <3>3. Recalls(next, clock, longest)
        BY <2>0, <3>1, <3>2 DEF Recalls
      <3> QED
        BY <2>6, <3>1, <3>3, RunningRemembers DEF Answer
    <2>4. CASE FetchFails(i, u)
      BY <1>2, <2>4, Blank, UnreadRecalls, RunningRemembers DEF FetchFails, Settle
    <2>5. CASE CachePut(i, u)
      <3>1. job[i][u].keys # {} /\ clock' = clock /\ longest' = longest
        BY <2>0, <2>5 DEF CachePut, Recalls
      <3>2. \A a \in Sites : \A w \in Sites : Recalls(job'[a][w], clock, longest)
        BY <1>0, <1>2, <2>5, UnreadRecalls DEF CachePut, Settle, Remembered
      <3>3. ASSUME NEW d \in Caches, NEW w \in Sites
            PROVE  /\ cache'[d][w] # NoEntry => cache'[d][w].keys # {}
                   /\ cache'[d][w] = NoEntry => Overdue(newest'[d][w], clock, longest)
        <4>1. CASE cache'[d][w] = cache[d][w] /\ newest'[d][w] = newest[d][w]
          BY <4>1 DEF Remembered
        <4>2. CASE cache'[d][w].keys = job[i][u].keys
          BY <3>1, <4>2 DEF NoEntry
        <4> QED
          BY <2>5, <4>1, <4>2, PutWrites
      <3> QED
        BY <3>1, <3>2, <3>3 DEF Remembered
    <2> QED
      BY <1>5, <2>1, <2>2, <2>3, <2>4, <2>5, <2>6 DEF Resolve
  <1>6. ASSUME NEW c \in Caches, NEW u \in Sites, Expire(c, u)
        PROVE  Remembered'
    <2>1. UNCHANGED <<clock, newest, job, longest>>
      BY <1>6 DEF Expire
    <2>2. Overdue(newest[c][u], clock, longest)
      <3>1. cache[c][u] # NoEntry /\ clock >= cache[c][u].fetchedAt + StaleTtl
        BY <1>6 DEF Expire
      <3>2. newest[c][u] - cache[c][u].fetchedAt <= Cost(longest)
        BY <3>1 DEF Timely, LateAnswerBounded, Cost
      <3> QED
        BY <1>0, <1>1, <1>2, <3>1, <3>2 DEF Overdue
    <2>3. \A d \in Caches : \A w \in Sites :
             cache'[d][w] = cache[d][w] \/ (d = c /\ w = u /\ cache'[d][w] = NoEntry)
      BY <1>0, <1>6 DEF Expire
    <2> QED
      BY <2>1, <2>2, <2>3 DEF Remembered
  <1>7. ASSUME NEW i \in Followed, Restart(i)
        PROVE  Remembered'
    <2> i \in Sites
      BY SitesAssumption
    <2>1. \A a \in Sites : \A w \in Sites : Recalls(job'[a][w], clock, longest)
      <3>1. \A a \in Sites : \A w \in Sites : job'[a][w] = Idle \/ job'[a][w] = job[a][w]
        BY <1>0, <1>7 DEF Restart
      <3> QED
        BY <1>2, <3>1, UnreadRecalls DEF Remembered
    <2>2. \A d \in Caches : \A w \in Sites :
            \/ cache'[d][w] = NoEntry /\ newest'[d][w] = Never
            \/ cache'[d][w] = cache[d][w] /\ newest'[d][w] = newest[d][w]
      BY <1>0, <1>7 DEF Restart
    <2>3. clock' = clock /\ longest' = longest
      BY <1>7 DEF Restart
    <2> QED
      BY <2>1, <2>2, <2>3 DEF Remembered, Overdue
  <1>8. ASSUME NEW u \in Sites, Rotate(u)
        PROVE  Remembered'
    BY <1>8 DEF Rotate, Remembered
  <1>9. CASE Tick
    <2>1. clock' = clock + 1 /\ UNCHANGED <<job, cache, newest>>
      BY <1>9 DEF Tick
    <2>2. ASSUME NEW a \in Sites, NEW w \in Sites
          PROVE  Recalls(job[a][w], clock + 1, longest')
      <3>1. /\ job[a][w].newest \in Int /\ job[a][w].now \in Int
            /\ job[a][w].cached.fetchedAt \in Int /\ Recalls(job[a][w], clock, longest)
        <4>1. job[a][w] \in Jobs /\ job[a][w].cached \in Entries
          BY <1>0, JobFields
        <4> QED
          BY <4>1, JobFields, EntryFields, TimesAssumption DEF Stamps, Never, Times, Remembered
      <3>2. /\ Overdue(job[a][w].newest, clock, longest)
                => Overdue(job[a][w].newest, clock + 1, longest')
            /\ Overdue(job[a][w].newest, job[a][w].now, longest)
                => Overdue(job[a][w].newest, job[a][w].now, longest')
        BY <1>0, <3>1, LongestGrows, OverdueLater
      <3>3. job[a][w].newest - job[a][w].cached.fetchedAt <= Cost(longest)
              => job[a][w].newest - job[a][w].cached.fetchedAt <= Cost(longest')
        BY <3>1, LongestGrows, TimesAssumption DEF Cost
      <3> QED
        BY <3>1, <3>2, <3>3 DEF Recalls
    <2>3. ASSUME NEW c \in Caches, NEW w \in Sites, cache[c][w] = NoEntry
          PROVE  Overdue(newest[c][w], clock + 1, longest')
      BY <1>0, <1>1, <2>3, LongestGrows, OverdueLater DEF Remembered
    <2> QED
      BY <2>1, <2>2, <2>3 DEF Remembered
  <1> QED
    BY <1>3, <1>4, <1>5, <1>6, <1>7, <1>8, <1>9, SitesAssumption DEF Next

\* And so they always are.
LEMMA AlwaysRemembered == Spec => []Remembered
  <1>1. Init => Remembered
    <2> SUFFICES ASSUME Init PROVE Remembered
      OBVIOUS
    <2>1. \A i \in Sites : \A u \in Sites : job[i][u] = Idle
      BY DEF Init
    <2>2. \A c \in Caches : \A u \in Sites : cache[c][u] = NoEntry /\ newest[c][u] = Never
      BY DEF Init
    <2>3. Idle.step = "idle"
      BY DEF Idle
    <2> QED
      BY <2>1, <2>2, <2>3, UnreadRecalls DEF Remembered, Overdue
  <1>2. IInv /\ Remembered /\ [Next]_vars => Remembered'
    BY RememberedStep DEF IInv
  <1> QED
    BY <1>1, <1>2, Invariant, PTL DEF Spec

\* A request is served with the outcome for a peer by the settling of its
\* resolution, and with at least the keys that it settles with.
LEMMA OnlySettledServes ==
    ASSUME TypeOK, Next, NEW i \in Sites, NEW u \in Sites, ServedWithout(i, u)
    PROVE  \/ Decide(i, u) /\ \E keys : Settle(i, u, keys)
           \/ FetchFails(i, u)
           \/ CachePut(i, u)
  <1>0. /\ job \in [Sites -> [Sites -> Jobs]] /\ request \in [Requests -> Asked]
    BY Typed
  <1>1. PICK r \in Requests :
          /\ request[r].at = i /\ u \in request[r].open
          /\ \/ request'[r].at = i /\ u \notin request'[r].open
             \/ request'[r] = NoRequest /\ replies' # {}
    BY DEF ServedWithout, Waiting
  <1>2. request[r] # NoRequest /\ NoRequest.at # i
    BY <1>1, SitesAssumption DEF NoRequest
  <1>3. request'[r] # request[r]
    BY <1>1, <1>2
  <1>4. ASSUME NEW q \in Requests, NEW a \in Followed, Ask(q, a)
        PROVE  FALSE
    BY <1>0, <1>2, <1>3, <1>4 DEF Ask
  <1>5. ASSUME NEW a \in Followed, Restart(a)
        PROVE  FALSE
    BY <1>1, <1>2, <1>3, <1>5 DEF Restart
  <1>6. ASSUME UNCHANGED request
        PROVE  FALSE
    BY <1>3, <1>6
  <1>7. ASSUME NEW a \in Sites, NEW w \in Sites, NEW keys, Settle(a, w, keys)
        PROVE  a = i /\ w = u
    <2>1. r \in Waiting(a, w)
      BY <1>3, <1>7 DEF Settle
    <2>2. a = i /\ w \in request[r].open
      BY <1>1, <2>1 DEF Waiting
    <2>3. CASE request[r].open = {w}
      BY <1>1, <2>2, <2>3
    <2>4. CASE request[r].open # {w}
      <3>1. request'[r] = With(r, w, keys)
        BY <1>7, <2>1, <2>4 DEF Settle
      <3>2. request'[r].open = request[r].open \ {w} /\ request'[r].at = i
        BY <1>0, <1>1, <3>1 DEF With, Asked
      <3> QED
        BY <1>1, <1>2, <2>2, <3>2
    <2> QED
      BY <2>3, <2>4
  <1>8. ASSUME NEW a \in Followed, NEW w \in PeersOf[a], Resolve(a, w)
        PROVE  \/ Decide(i, u) /\ \E keys : Settle(i, u, keys)
               \/ FetchFails(i, u)
               \/ CachePut(i, u)
    <2> a \in Sites /\ w \in Sites
      BY SitesAssumption
    <2>1. CASE CacheGet(a, w)
      BY <1>6, <2>1 DEF CacheGet
    <2>2. CASE FetchOk(a, w)
      BY <1>6, <2>2 DEF FetchOk
    <2>6. CASE Answer(a, w)
      BY <1>6, <2>6 DEF Answer
    <2>3. CASE Decide(a, w)
      <3>1. UNCHANGED request \/ \E keys : Settle(a, w, keys)
        BY <2>3, DecideMoves
      <3> QED
        BY <1>6, <1>7, <2>3, <3>1
    <2>4. CASE FetchFails(a, w)
      BY <1>7, <2>4 DEF FetchFails
    <2>5. CASE CachePut(a, w)
      BY <1>7, <2>5 DEF CachePut
    <2> QED
      BY <1>8, <2>1, <2>2, <2>3, <2>4, <2>5, <2>6 DEF Resolve
  <1> QED
    BY <1>4, <1>5, <1>6, <1>8 DEF Next, Expire, Rotate, Tick

\* Who is served without a peer was served an outcome without a key of it.
LEMMA ServedOutcome ==
    ASSUME TypeOK, NEW i \in Sites, NEW u \in Sites, NEW keys \in SUBSET Keys, Settle(i, u, keys),
           ServedWithout(i, u)
    PROVE  Lacks(keys, u)
  <1>0. request \in [Requests -> Asked]
    BY Typed
  <1>1. \A r \in Requests : keys \subseteq With(r, u, keys).keys
    BY <1>0 DEF With, Asked
  <1>2. PICK r \in Waiting(i, u) :
        \/ request'[r].at = i /\ u \notin request'[r].open /\ Lacks(request'[r].keys, u)
        \/ request'[r] = NoRequest /\ \E document \in replies' :
              document.at = i /\ Lacks(document.keys, u)
    BY DEF ServedWithout
  <1>3. CASE request'[r].at = i /\ Lacks(request'[r].keys, u)
    <2>1. request'[r] # NoRequest
      BY <1>3, SitesAssumption DEF NoRequest
    <2>2. request'[r] = With(r, u, keys) /\ r \in Requests
      BY <1>2, <2>1 DEF Settle, Waiting
    <2> QED
      BY <1>1, <1>3, <2>2 DEF Lacks
  <1>4. CASE \E document \in replies' : Lacks(document.keys, u)
    <2>1. PICK document \in replies' : Lacks(document.keys, u)
      BY <1>4
    <2>2. \E q \in Requests : document.keys = With(q, u, keys).keys
      BY <2>1 DEF Settle, Waiting
    <2> QED
      BY <1>1, <2>1, <2>2 DEF Lacks
  <1> QED
    BY <1>2, <1>3, <1>4

\* A peer that goes away stays published for its grace period, less what a late
\* write may cost (what a resolution was in flight, and the clocks): an answer is without it only when the cache could not be read,
\* never held it, or was not refreshed that long (src/keys/peers.js:92-100, 332-340).
THEOREM AbsentPeerIsKept == Spec => OutageSurvived
  <1> DEFINE Excused(i, u) ==
        \/ job[i][u].blind
        \/ job[i][u].newest = Never
        \/ AskedAt(i, u) - job[i][u].newest >= StaleTtl - (longest + Drift)
  <1>1. ASSUME IInv, Remembered, Next, NEW i \in Sites, NEW u \in PeersOf[i], ServedWithout(i, u)
        PROVE  Excused(i, u)
    <2> DEFINE j == job[i][u]
    <2> u \in Sites
      BY SitesAssumption
    <2>0. /\ TypeOK /\ Recalls(j, clock, longest) /\ Bare(j.cached.keys, u) /\ Bare(j.keys, u)
      BY <1>1 DEF IInv, Remembered, Honest
    <2>1. /\ j.cached \in Entries /\ j.cached.keys \in SUBSET Keys /\ j.keys \in SUBSET Keys
          /\ j.cached.fetchedAt \in Int /\ j.newest \in Int /\ j.now \in Times
      <3>1. j \in Jobs
        BY <2>0, Typed
      <3> QED
        BY <3>1, JobFields, EntryFields, TimesAssumption DEF Stamps, Never
    <2>2. ASSUME NEW keys, Bare(keys, u), keys # {}
          PROVE  ~Lacks(keys, u)
      BY <2>2 DEF Bare, Lacks
    <2>3. Now(i) \in Times /\ Cost(longest) \in Int /\ StaleTtl \in Int /\ clock \in Int
          /\ clock <= Now(i) /\ Times \subseteq Int /\ longest \in Nat /\ longest <= longest
      BY <2>0, Typed, NowIsTime, TimesAssumption DEF Cost, Times
    <2>4. ASSUME NEW t \in Times, Lacks(GraceKeys(j.cached, t), u), ~j.blind,
                 j.cached # NoEntry => j.cached.keys # {} /\ j.newest - j.cached.fetchedAt <= Cost(longest),
                 j.cached = NoEntry => Overdue(j.newest, t, longest)
          PROVE  Overdue(j.newest, t, longest)
      <3>1. CASE j.cached = NoEntry
        BY <2>4, <3>1
      <3>2. CASE j.cached # NoEntry
        <4>1. ~Within(j.cached, t, StaleTtl)
          BY <2>0, <2>2, <2>4, <3>2 DEF GraceKeys
        <4>2. t - j.cached.fetchedAt >= StaleTtl
          BY <2>1, <2>3, <3>2, <4>1 DEF Within
        <4> HIDE DEF j
        <4> QED
          BY <2>1, <2>3, <2>4, <3>2, <4>2 DEF Overdue
      <3> QED
        BY <3>1, <3>2
    <2>5. CASE Decide(i, u) /\ \E keys : Settle(i, u, keys)
      <3>1. j.step = "decide" /\ AskedAt(i, u) = Now(i)
        BY <2>5 DEF Decide, AskedAt
      <3>2. CASE j.blind
        BY <3>2
      <3>3. CASE ~j.blind
        <4>1. /\ j.cached # NoEntry => j.cached.keys # {} /\ j.newest - j.cached.fetchedAt <= Cost(longest)
              /\ j.cached = NoEntry => Overdue(j.newest, clock, longest)
          BY <2>0, <3>1, <3>3 DEF Recalls
        <4>2. Overdue(j.newest, clock, longest) => Overdue(j.newest, Now(i), longest)
          BY <2>1, <2>3, OverdueLater
        <4>3. \/ Within(j.cached, Now(i), CacheTtl) /\ Settle(i, u, j.cached.keys)
              \/ Settle(i, u, GraceKeys(j.cached, Now(i)))
          <5>1. ASSUME NEW next \in Jobs, job' = [job EXCEPT ![i][u] = next], next.step = "fetch"
                PROVE  FALSE
            <6>1. job \in [Sites -> [Sites -> Jobs]]
              BY <2>0, Typed
            <6>2. job'[i][u] = next /\ job'[i][u] = Idle
              BY <2>5, <5>1, <6>1 DEF Settle
            <6> QED
              BY <5>1, <6>2 DEF Idle
          <5> QED
            BY <2>0, <2>5, <5>1, DecideMoves
        <4>4. CASE Within(j.cached, Now(i), CacheTtl) /\ Settle(i, u, j.cached.keys)
          <5>1. Lacks(j.cached.keys, u)
            BY <1>1, <2>0, <2>1, <4>4, ServedOutcome
          <5> QED
            BY <2>0, <2>2, <4>1, <4>4, <5>1 DEF Within
        <4>5. CASE Settle(i, u, GraceKeys(j.cached, Now(i)))
          <5>1. GraceKeys(j.cached, Now(i)) \in SUBSET Keys
            BY <2>1, <2>3, GraceFields
          <5>2. Lacks(GraceKeys(j.cached, Now(i)), u)
            BY <1>1, <2>0, <4>5, <5>1, ServedOutcome
          <5>3. Overdue(j.newest, Now(i), longest)
            BY <2>3, <2>4, <3>3, <4>1, <4>2, <5>2
          <5> QED
            BY <3>1, <5>3 DEF Overdue, Cost
        <4> QED
          BY <4>3, <4>4, <4>5
      <3> QED
        BY <3>2, <3>3
    <2>6. CASE FetchFails(i, u)
      <3>1. /\ j.step \in {"fetch", "body"} /\ AskedAt(i, u) = j.now /\ Settle(i, u, GraceKeys(j.cached, j.now))
        BY <2>6 DEF FetchFails, AskedAt
      <3>2. CASE j.blind
        BY <3>2
      <3>3. CASE ~j.blind
        <4>1. /\ j.cached # NoEntry => j.cached.keys # {} /\ j.newest - j.cached.fetchedAt <= Cost(longest)
              /\ j.cached = NoEntry => Overdue(j.newest, j.now, longest)
          BY <2>0, <3>1, <3>3 DEF Recalls
        <4>2. GraceKeys(j.cached, j.now) \in SUBSET Keys
          BY <2>1, GraceFields
        <4>3. Lacks(GraceKeys(j.cached, j.now), u)
          BY <1>1, <2>0, <3>1, <4>2, ServedOutcome
        <4>4. Overdue(j.newest, j.now, longest)
          BY <2>1, <2>4, <3>3, <4>1, <4>3
        <4> QED
          BY <3>1, <4>4 DEF Overdue, Cost
      <3> QED
        BY <3>2, <3>3
    <2>7. CASE CachePut(i, u)
      <3>1. j.keys # {} /\ Settle(i, u, j.keys)
        BY <2>0, <2>7 DEF CachePut, Recalls
      <3>2. Lacks(j.keys, u)
        BY <1>1, <2>0, <2>1, <3>1, ServedOutcome
      <3> QED
        BY <2>0, <2>2, <3>1, <3>2
    <2> QED
      BY <1>1, <2>0, <2>5, <2>6, <2>7, OnlySettledServes
  <1>2. IInv /\ Remembered /\ [Next]_vars =>
          [\A i \in Sites : \A u \in PeersOf[i] : ServedWithout(i, u) => Excused(i, u)]_vars
    BY <1>1
  <1> QED
    BY <1>2, Invariant, AlwaysRemembered, PTL DEF Spec, OutageSurvived
===============================================================================
