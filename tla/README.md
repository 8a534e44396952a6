# A TLA+ model of the smart access gateway

The gateway is a small OpenID Connect provider that keeps almost nothing. Where
a sign-in stands is sealed into the page the browser holds, a session is a
sealed cookie, an authorisation code is a sealed string. What must not happen
twice is therefore decided in one of three places: the state store (claims and
counters), the record file of a local identity (compare-and-swap), and the
bindings inside the sealed values themselves. The rest of what an instance knows
is a copy of something elsewhere: keys of its peers, registrations of its clients,
a configuration derived from its environment. These modules model the three places,
the copies, and the handlers that rely on them. Paths below are relative to the
repository root.

## 1. Inventory

| Component | State it keeps | Operations | What is hard about it |
|---|---|---|---|
| State store (`src/store/index.js`) | a map of claims and a map of counters, each capped | `claim`, `has`, `increment`; sweep and eviction at the cap | full maps, the second in which an entry expires, best-effort counters that become protected |
| Durable Object, DynamoDB backends (`src/store/index.js`, `adapters/cloudflare/state-do.js`) | one object or item for each id | the same three calls over HTTP | whose clock ends a claim, an answer that is lost after the write |
| Limits (`src/store/limits.js`) | none of its own; counters in the store | `checkOtpSendAllowed`, `checkLocalAuthAllowed` | the bucket is computed before the awaits; failure half way through two counters; fail open for mail, closed for credentials |
| Token endpoint (`src/endpoints/token.js`, `src/oauth/code.js`, `src/oauth/clientauth.js`) | none; claims in the store | authenticate the client, redeem the code, re-read the local identity, sign | two instances with different clocks race for one code; the claim must outlive what it protects |
| Sessions (`src/session.js`) | sealed cookies, revocation markers in the store | create, read, touch, re-authenticate, revoke | every copy ever set may come back; a read and a sign-out interleave |
| Sign-out (`src/endpoints/logout.js`) | a sealed confirmation | ask, confirm, revoke one cookie after another | the confirmation comes back later with other cookies; one of several revocations fails |
| Interactive sign-in (`src/endpoints/authorize.js`, `src/oauth/transaction.js`, `src/otp.js`, `src/acr.js`) | sealed transactions and upstream states | nine POST handlers, `/authorize`, `/callback` | any page may be posted to any handler, in any order, any number of times |
| Upstream providers (`src/upstream/`) | metadata and JWKS caches | start a leg, exchange the answer | an address vouched for against the address asked for |
| Local identities (`src/local-identities/`) | one record for each identity | verify password and second factor, store a refresh token, validate a session | one-time factors verified concurrently, operator changes between two requests |
| Local identity files (`adapters/node/local-identities.js`) | files, a lock for each key | `replace` (compare-and-swap), `writeAtomic` | read, compare and write are several awaits; a crash between rename and flush |
| Argon2 semaphore (same file) | a count of permits and a queue | `acquire`, `release` | a permit is handed over without being counted |
| Peer JWKS (`src/keys/peers.js`, `handleJwks`) | a cache, perhaps shared; the fetches in flight; a retry time for each peer | resolve a peer from cache, fetch or stale entry; publish the merged document | requests share a fetch; a late answer overwrites a newer one; a peer is away, or answers nonsense |
| Client registry (`src/clients/`), caches of JWKS, provider metadata and mail records (`src/crypto/jose.js`, `src/upstream/`) | bounded maps in insertion order | look up, load, keep, sweep, evict | two lookups overlap while the source changes; the map is full |
| Authorisation request (`src/oauth/request.js`) | none | two stages of checks | what may be redirected, and on whose authority |
| Configuration (`src/config.js`) | none; a record derived from the environment and the first request | `loadConfig`, `assertUsable` | defaults depend on the mode, the mode on the issuer, the issuer on the request |
| Start and context (`src/context.js`, `src/router.js`, `src/util/cors.js`, `src/keys/registry.js`, `src/keys/sealedEnv.js`, `src/endpoints/discovery.js`, `adapters/`) | one slot for each isolate: configuration, signers, services | fill the slot, check, route, publish metadata | the first requests overlap; the listener opens before the check; an isolate is recycled |
| Email, pages, cryptography, identity and profile, remember-me, tools | none that the protocol depends on | | |

How they interact: `/authorize` and `/callback` produce codes and session
cookies; `/token` consumes codes and claims their ids in the store; every read
of a session asks the store for its revocation marker, and `/logout` claims it;
email codes and credential attempts pass the limits, which count in the store;
sign-in, validation of a session and `/token` read local identity records, and a
second factor or a refresh token writes them. Every request first gets its context
from the slot, and every authorisation request its client from the registry.
Relying parties verify tokens with `/jwks.json`, which merges the keys of the peers.
The store and a remote cache of peer keys are the only state shared between
instances. A handler can be interrupted at an `await` only, so the steps
of the concurrent modules run from one await on shared state to the next.

What makes each part correct, in a sentence: a code or an assertion is used
once; a sign-out that was reported holds for every copy; no sequence of pages
yields a code for an address, a record or a level of assurance that was not
proved; a limit is not passed within its bucket; a one-time factor works once,
even across a crash; a bounded structure stays bounded without forgetting what
it promised to keep; whoever waits is served; a key or a registration that was
withdrawn stops being trusted within its time, and one in use does not disappear
because its source is away; no instance serves with development defaults, and what
it publishes about itself is so.

`PROJECT.json` lists every component with what is and is not modelled, the
hazards with the line where each one bites, and for each definition the lines
it models.

## 2. Modules

    ClaimStore        what a state store promises (abstract)
      ^ refined by
    MemoryStore       createMemoryStore
    Limits            the two rate limits, over counters of the store
    TokenEndpoint     /token over claims of the store, several instances
    Sessions          session cookies and sign-out, several instances
    SignIn            /authorize, its POST handlers and /callback
    LocalIdentity     one record, its compare-and-swap, crash and restart
    Argon2Queue       the semaphore
    PeerJwks          /jwks.json of several sites that answer as one issuer
    AuthorizationRequest  parseAuthorizationRequest, a pure function of request and client
      ^ extended by
    ClientRegistry    resolveClient, the caches it reads through and others of their make
    Config            loadConfig and assertUsable, pure functions of the environment
      ^ extended by
    Startup           the slot of an isolate, signers, banner, routing and metadata

Each specification has an `MC...` module with the constants of its runs. The modules
whose names end in `Proofs` hold the theorems, those of the semaphore with those of the
local identities, and in `IsolateProofs` those about what a process keeps for itself: the
store in its memory and the slot.
A definition whose comment begins "Mutant of" is a deliberately wrong variant of
the definition that follows it; nothing uses it in a specification, it serves to
show that a property notices that mistake.

**ClaimStore** is the contract of `src/store/index.js:10-24`. A backend may fail a
call, may hold a claim longer than asked but never shorter, may forget a
best-effort counter when it needs room but never a protected one.

**MemoryStore** has `claims` and `counters` for the two JavaScript maps (an absent
entry is 0 or `NoCounter`) and `older` for the insertion order that eviction
follows. `Claim`, `Has` and `Increment` contain no await and are one action each,
with the sweep and the eviction they perform. The lifetime is at least one second,
and an entry is live in the second in which it expires, as in the code. Under the
refinement mapping an entry that has expired but was not swept counts as gone.

**Limits** takes a request through its check: `Begin` reads the clock and fixes
the keys, each `Increment` is one call to the store, `Fail` is a call that throws,
before or after the store counted. `form` says what each request is; it is chosen
in `Init` and left alone. One factor is modelled for local attempts: the code
keeps separate keys for each factor, which only separates the counts. `Evict` is a full
in-memory store that gives up a live counter which is not protected, to make room for
others (`src/store/index.js:98-107`): the next mail counts from one again. `evictions` is
a history variable that counts them. `Tick` does not let a check wait longer than
`MaxDelay`.

**TokenEndpoint** takes a request from `Present` through `ClaimAssertion`,
`Redeem`, `ClaimCode` and `Recheck` to `Sign`, one step for each await on shared
state. `Clock(i)` is the clock of instance `i`, rounded down to seconds as
`nowSeconds` does. `Backend` distinguishes the two kinds of store: `record` keeps an
expiry in seconds and compares it with the caller's clock, `alarm` is a Durable
Object which is emptied by its own clock that many seconds after the call.
`spentUnder` is a history variable. A state store is configured: without one
`src/oauth/code.js:108` and `src/oauth/clientauth.js:179` skip the claim, and nothing
stops a second redemption.

**Sessions** has `sealed`, every cookie that was ever set: whoever holds a
copy may present it, at any instance. `job[r]` is a request between two awaits.
`AskMarker` is the `has` of `readSessionByName`, wherever it was called from;
`RevokeRead`, `AskMarker` and `RevokeClaim` are the loop of `finish`: the number of
seconds is reckoned from the instance's clock before the claim is sent (`TtlLeft`), and
what the store makes of it depends on the `backend`. A record ends at a second, the one
the caller reckons; a Durable Object's alarm goes off that many seconds later, so that a
marker set by an instance whose clock is ahead is gone early for the others. A sign-out
that names a client the registry does not know is not modelled. `ended` is a history
variable: what the person was told, with the last second of a session's lifetime kept
apart.

**SignIn** has `pages` and `states`, the sealed transactions handed out so far. They
only grow, and any of them may be posted to any handler: this is the replay the design
has to withstand. A handler is one step, at the moment it reads the record of a local
identity: that, and what it renders, is all it shares with the others. One that signs
somebody in has a second step. `Complete` puts the session in hand into `completing`,
and `Issue` seals the code; between them the handler waits for Argon2, the store and the
seal, and an operator may change the record. An email code is the number of its
generation; its digest is the triple of transaction, address and code that `digestCode`
hashes. Ages are not counted: what may be too old may be refused at any time, and no
property depends on a refusal by age. A request without `prompt` is treated like
`prompt=consent`, as in `decide`. `issued` carries, besides the code's content, how the
sign-in was proved.

**LocalIdentity** has one record, as a reader sees it (`file`) and as a crash would
leave it (`durable`), the promise chain of the key's lock, and requests that verify
a second factor or store a refresh token (with its single retry). `flushes` says whether
the file system can flush a directory; where it cannot, `syncDirectory` goes on as if it
had (`SyncDirectory`). `WriteBack` is a rename that reaches the disk by itself. `Crash`
forgets requests and lock and takes an unflushed rename back; `takenBack` counts how
often it did.

**Argon2Queue** is `class Semaphore`: `AcquireNow`, `AcquireLater` and `Release`. An
`acquire` past the queue's bound throws and changes nothing. Its specification is
`QueueSpec`, so that one module can prove things about it and about `LocalIdentity`.

**PeerJwks** has `cache`, the entry of each peer in each backend (sites may share one);
`job[i][u]`, the one resolution that site `i` may have in flight for peer `u`, from
`get` over `decide`, `fetch` and `body` to `put`, one step for each await; `retryAfter`,
which lives in the isolate and goes with it; and `request[r]`, with the resolutions it
still waits for and the keys it has. A request that arrives while a resolution runs
joins it (`Ask`). A peer rotates its key, is away, or answers with a document that has
nothing usable in it. There are no deadlines: the timer of `fetchWithTimeout` is cleared
when the headers are there (`src/util/http.js:224`), the body (`src/keys/peers.js:70`)
and the cache (lines 135 and 142) are read and written without one. Instead `longest`
records the longest time for which a resolution has been in flight so far, and the
bounds are stated in terms of it. `newest`, `retiredAt` and `longest` are history
variables, and `replies` holds what was sent in the last step. A write of the cache that
was reported to have failed is taken not to land later.

**AuthorizationRequest** is `parseAuthorizationRequest` over parameters from small sets:
first client and redirect URI, where a failure is shown as a page, then everything else,
where a failure is redirected. **ClientRegistry** calls it with the client it found. A
cache is the sequence of its entries in insertion order. `Authorize` and `LookUp` answer
from the cache or become a job; `Load` is the source's answer, `Keep` what is done with
it once the job resumes: sweep, evict, insert. `LoadTime` bounds how long a load takes;
it is a parameter of the bounds proved, not something the code enforces, since bodies
and the client store are read without a timer. A source has a version before and after
its one change. `Filter` picks entries of a sequence in their order; it is `SelectSeq`
(`FilterSelects` in `MCClientRegistry` compares them on every short sequence), written
as a function of places so that it can be reasoned about. The same module stands for
five caches (client store, client metadata documents, JWKS, provider metadata, mail
records), which differ in lifetime, in what they keep of a failure and in how they
evict.

**Config** derives the configuration record from an environment, with every default
that depends on the mode, every problem `assertUsable` refuses and every reader that
throws. Upstreams and clients are sets: no property here tells their order apart. The
signers are a function from algorithms to keys, as the `Map` of `createSignerSet` is, with
the algorithm that is the default.

**Startup** fills an isolate's slot from it: `Arrive`, `Unseals`, `Resume` are a
request's way through `createContext`, between its awaits; `SignIdToken` and `Answer`
use what is in the slot. `Respond` is a request's way through the router: `Routes` holds
who may read an answer of each kind of path and the form of its success and its failure.
The metadata and the published keys say themselves that anybody may (`cachedJson`),
except to a peer and on failure; `/token` and `/userinfo` get the configured origins
from `finish`. `BannerLoads` and `BannerEnds` are the Node adapter's own pass
after the listener has opened; `Restart` starts a process again, or recycles an isolate.

Cryptography is idealised throughout: a sealed value is opened by the gateway only,
for its own purpose, and cannot be altered.

## 3. Runs

All passing runs explore the whole state space of their instance.

| Run | Instance | Checks |
|---|---|---|
| `memory_store` | 3 ids, 3 keys, cap 2, lifetimes 0 and 2, 4 seconds | `Bounded`, `ThrowsOnlyWhenFull`, `KeepsPromise` |
| `limits` | 3 requests of any of 5 forms, windows of 2 s, a day of 3 s, limits of 1 and 2, a store that fails or evicts once, or none | `WithinLimits`, `NetworkBoundsAddressKeys` |
| `token_record` | 2 requests, 2 instances a second apart, 1 code, 1 assertion, half-second ticks | `CodeSpentOnce`, `VersionChangeWins`, `OnlyEntitledSpend`, `GoodAssertionSpentOnce` |
| `sessions` | 2 requests at 2 instances a second apart, 2 sessions, 2 cookies, 2 relying parties with different cookies, 1 sign-out at a time, both kinds of store, 2 seconds | `CapIsFixed`, `ClientSignOutIsNarrow`, `SignedOutForGood` |
| `signin` | 2 requests, 4 pages, 2 email codes, a common provider, 1 local identity | `PagesAreSound`, `IssuedMeetsRequest`, `AddressIsProved`, `StaleAccountIssuesNothing` |
| `signin_local` | 1 request, 5 pages, 2 local identities with a second factor that change, a guest with 2 providers, no email codes | `IssuedMeetsRequest`, `AddressIsProved`, `StaleAccountIssuesNothing` |
| `local_identity` | 3 requests, 1 backup code, 2 time steps, 1 crash, directories that can and cannot be flushed | `FactorSpentOnce`, `AcceptedIsDurable`, `NoLostUpdate`, `LockIsServed` |
| `argon2` | 6 operations, 2 permits, a queue of 3 | `PermitsMatch`, `WaitsOnlyWhenFull`, `WaitEnds` |
| `peer_jwks` | 2 sites that share a cache and list a third, 2 requests, 2 keys, 3 seconds | `KeysWithinGrace`, `DirectTrust`, `LateAnswerBounded`, `NobodyStranded`, `OutageSurvived` |
| `registry` | 2 requests, caps of 1 and 2, six deployments of the caches, 3 seconds | `Bounded`, `ServedFresh`, `AnswersAreRegistered`, `LiveKept` |
| `startup` | 5448 environments, 2 requests, 2 starts | `NoDevelopmentDefaults`, `TokensVerify`, `HonestMetadata`, `CorsIsNarrow`, `BannerDecides` |
| `unusable_config` | as `startup` | `RefusesUnusable` is violated |

What the properties say, where the name does not: `AddressIsProved` joins three facts
about an issued code: an email code was mailed to that very address, a second
factor followed the password of the same record, a provider may vouch for the address.
`StaleAccountIssuesNothing` is about the moment at which a request reads the record: a
code is on the way only for one that is enabled and has the version the page or session
was sealed with, and it carries that version. An operator who disables the record while
the request waits does not stop the code; `/token` does, which reads the record again
(`VersionChangeWins`, for a new version, and the same reading refuses a disabled one).
`FactorSpentOnce` and `AcceptedIsDurable` say what is left where a directory cannot be
flushed: a crash that takes a write back may cost one more sign-in with the factor, and
nothing is said of what is on the disk. `SignedOutForGood` holds for records whatever the
clocks show; for a Durable Object until some clock has reached the session's cap.
`PagesAreSound` is what each handler relies on when it unseals a page or a state, and
that a silent request leaves neither. `OutageSurvived` is the other side of
`KeysWithinGrace`: a peer that is away keeps its keys published for the grace period.
`ServedFresh` bounds how long a registration that was replaced, or its absence, can be
served, although an older answer may be cached last. Type invariants are theorems where
there are proofs; in `Limits` and `ClientRegistry` they are conjuncts of `WithinLimits`
and `Bounded`.

Why the bounds are enough for the cases that matter:

- `memory_store`: three keys for two places is the least at which eviction has to
  choose, and a clock of four seconds lets an entry of one or two seconds expire,
  be swept and be made again. The ids, and the keys, are interchangeable
  (`Alike`); the properties are safety properties, so symmetry is sound.
- `limits`: two buckets of each window, one day and the start of the next, three
  requests against a limit of one or two, one live counter given up by a full store. A
  request may come from a network or without one, so that the limit on an address is
  reached both ways. `MaxDelay` is one second: it is the second in which an expired
  counter is still live, so that a check made at the end of a bucket finds it. With a
  longer delay, a check that read the clock in the last second of its bucket can find
  the counter expired and start it again at one, so the bounds count one limit for each
  life that a counter can have. `Lives` is that number: one for delays up to a second,
  two for those up to about a window. The code puts no timeout of its own on a store
  call.
- `token_record`: clocks a second apart, a delay of a second, a code of one second
  with a grace of one, two requests. The relation of the numbers is what counts and
  is stated as the assumption `MarginCovers`; the theorems cover all others.
- `sessions`: two requests suffice for a read that overlaps a sign-out, two sessions
  under two cookie names for a sign-out of one relying party and of everything, where
  the claim of one may fail after that of the other; lifetimes of one and two seconds
  make both the idle timeout and the absolute cap pass within the run. The clock that
  is ahead sets markers that a Durable Object ends early for the other.
- `signin`: the asks include one that an email code cannot meet, one that it can,
  and a silent one. Four pages allow a page to be carried from one address to the
  other and back, and the common provider may vouch for either of them whichever
  was asked for. The two transactions are interchangeable.
- `signin_local`: two accounts with second factors, so that a page with the second
  factor of one can be carried to the other, and two versions of each. The guest's
  two providers, which are interchangeable, serve no other address.
- `local_identity`: three writers make a lock with a holder and a queue of two; one
  crash at any point, with writes that fail, on either kind of file system.
- `argon2`: one operation more than run and wait together.
- `peer_jwks`: an entry is fresh for one second and of use for two, a peer is left alone
  for one second after a failure, and the clock runs to three: long enough to fetch,
  rotate, fail, serve the stale entry and outlive it, and for a resolution to be in
  flight throughout. Two sites share one cache, so that their answers overtake each
  other; the third lists both of them back, so that trust could travel. The clocks agree
  and each site that is asked lists one peer; the theorems cover the rest. The requests
  are interchangeable, and so are the two sites.
- `registry`: an answer is kept two seconds, a miss one, a load takes one, three
  seconds in all: an answer can be loaded before the change of its source, kept after
  it, and outlive its lifetime. Caps of one and two are the least at which eviction
  and sweeping differ.
- `startup`: an empty environment and a complete production one, on Node and in an
  isolate, each with every one and every two of some 45 changes: enough for a mistake
  that hides another. Two requests overlap while the slot is filled. One token is
  followed, since tokens do not interact.

`local_identity` and `limits` may stop: every request has been dealt with and the
clock is at its bound. So may `startup`: a Node process that has exited stays so.
Deadlock is checked in the other runs.

### Fairness

Only two liveness properties are claimed. `WaitEnds` assumes `WF(Release(o))`: a
password computation that runs returns or throws, and the `finally` of
`Semaphore.run` releases. `LockIsServed` assumes `WF(Proceed(r))`: an await
whose promise is settled is resumed, and a file operation ends. Nothing is assumed
about requests arriving, about failures or about the clock. `ClientRegistry` states its
bounds for loads of at most `LoadTime`: the clock does not pass that before the load has
ended. `PeerJwks` has no such limit and claims no liveness: `NobodyStranded` says that
whoever waits does so for a resolution that still runs, and that it ends rests on a peer
that does not keep its body open, which the code does not see to.

### Disagreements between documents and code

One run ends in a counterexample.

- `unusable_config`: `src/config.js:1330` says of `assertUsable` "Throw if the
  configuration is not safe to serve." `createContext` stores the configuration in the
  slot at `src/context.js:56` and checks it in the next line, inside the test that there
  is none yet. The request that finds the problem is refused; the next one of the same
  isolate finds the slot filled and is served. The trace has an isolate in development
  mode whose `SESSION_MAX_LIFETIME` is shorter than its `SESSION_TTL`; the two lines do
  not depend on which problem was found. On Node the banner ends the process before
  that matters, if the issuer is named (`BannerDecides`); a Worker and a Lambda have no
  banner.

Others were met while modelling and have no run:

- `docs/relying-parties.md:171` calls `CLIENT_<SLUG>_ACR_VALUES` "a floor that applies
  whether or not the client asks" (line 30 likewise, and `docs/configuration.md:335` of
  `ACR_DEFAULT_REQUIRED`, which counts only where the client asks for nothing).
  `src/oauth/request.js:135` appends it to what the client asks, and `satisfies` accepts
  any one value of the list, so that it is one more alternative.
  `docs/rfcs/0016-trusted-authentication-assurance.md:15-19` records this as known.
  `AnswersAreRegistered` therefore says nothing about acr values.
- `test/flow.test.js:140` says "prompt=login forces re-authentication even with a
  session". `handleContinue` (`src/endpoints/authorize.js:791`) looks neither at the
  stage nor at the prompt of the transaction it is handed.
- `docs/state-and-limits.md:125-126` says a second presentation of a client assertion
  "gets `invalid_client`". The claim lives for `exp - now + clockSkew` seconds
  (`src/oauth/clientauth.js:183`) from a clock that has rounded a fraction away; a
  Durable Object's alarm, that many seconds later by its own clock, can empty the
  object in the last second in which `validateClaims` still accepts the assertion. A
  code's claim has a margin of 60 seconds for this, an assertion's has none. Over a
  store that keeps seconds the property proved as `GoodAssertionOnce` holds.
- `src/keys/sealedEnv.js:13-15` says a sealed environment works on a bare Node process.
  The Node adapter's banner runs `loadConfig` on the environment as it is, so that a
  sealed variable with a reader of its own makes the process exit.
- `src/endpoints/discovery.js:226-227` says of a document that lacks a peer that it is
  cached "Never shorter than this instance's own retry interval"; with a
  `PEER_JWKS_RETRY_AFTER` above 300 it is.
- `docs/state-and-limits.md:152` speaks of "any `OTP_SEND_WINDOW` seconds";
  `src/store/limits.js:65` counts fixed buckets, so up to twice the burst fits across
  an edge. `WithinLimits` is the bound that holds.
- `docs/state-and-limits.md:100-101` says every later use of a revoked cookie is
  refused; `src/session.js:164` writes no marker in the last second of the absolute
  lifetime. `SignedOutForGood` speaks of sign-outs before that second.
- the comment at `src/endpoints/logout.js:71-72` calls a generic sign-out under a
  shared instance a global one; it is global only if it was confirmed
  (lines 80-86 and 104-110).
- `docs/configuration.md:63` says that `PROMPT_CONSENT_MODE=off` "ignores consent
  requests"; `decide` (`src/endpoints/authorize.js:145`) never reads the setting.

Three observations contradict no document. An additional signing algorithm without a
key of its own gets a generated one in production too, and the health endpoint warns
about the primary only; `NoDevelopmentDefaults` and `TokensVerify` say what holds
nevertheless. `REQUIRE_POST_QUANTUM` is met by naming such an algorithm, also when the
runtime then skips it. While `SAG_ISSUER` is unset, the configuration of an isolate
comes from the URL of its first request.

## 4. Proofs

Each theorem holds for every value of the constants that meets the named
assumptions, not only for the instance of a run.

**TokenEndpointProofs**, from `TokenAssumption` and `MarginCovers`. `TypeCorrect` first.
For `SpentOnce`, `CodeSpentOnce` alone is not inductive: one must know that while any
request can still be granted the code the first claim is alive. `SafeInv` adds that a
request that was presented names a code that was minted (`Begun`), that one waiting for
its claim began to wait while the code was good and has waited no longer than `MaxDelay`
(`Waiting`), and that the claim on a spent code outlives the code by the grace
(`HeldLong`, `Covered`). With `MarginCovers`, whoever claims next finds the claim alive.
The arithmetic of clocks that are rounded to seconds is in lemmas of its own. The same
module proves `VersionWins` (a code whose claim was granted under another
`security_version` than it carries yields no tokens), `EntitledSpend` and, for stores
that keep seconds, `GoodAssertionOnce`.

**IsolateProofs** on `MemoryStore`, from `StoreAssumption`. `BoundedInv` is the type,
finiteness of both maps, and `Bounded`; finiteness is needed since `Ids` and `Keys` may
be infinite and cardinality means nothing otherwise. `AlwaysBounded` follows.
`Implements` shows that every step is a step of `ClaimStore` or a stutter under the
mapping that hides expired entries; the one difficult case is a counter that is full:
the eviction has to be one the abstract store allows, which rests on `FullEvictsNothing`
(if the call throws, nothing live was lost on the way). `OutageOnlyWhenFull` is the
converse of that lemma: a call that throws met a full map of live, protected records. It
needs that eviction finds the oldest of those it may take, hence the invariant
`Ordered`: the insertion order is irreflexive and transitive, and so has a least element
in any finite set.

**IsolateProofs** on `Startup`, from `EnvironmentsAssumption` (a variable has one of the
values its reader tells apart, the list of algorithms is not empty, a named issuer is
`http` or `https`, which `resolveIssuer` sees to) and `QuestionsAssumption`; nothing is
assumed about how often anything happens. `SlotInv` says that what is in the slot was
read under the URL of a request, and built by one of the signer sets made so far
(`SlotTyped`); that signers come after a configuration, and a request past a point has
what is there from that point on, although another request may have put it there
(`SlotOrdered`); that a token of this boot carries the issuer and a key of the slot, and
any token a key of some set and the named issuer (`TokensKept`); and that a Node process
is up only after its banner found the configuration usable (`BannerPassed`). The one
step with several cases is `ConfigureStep`: a request that finds a configuration cannot
be refused for it, so that a refusal leaves no signers, no request and no token of this
boot behind. The rest is about functions. `FirstIsBuilt`: the algorithm used by default has
a signer. `SignerSetsAgree`: two sets differ in generated keys only, hence
`TokensAlwaysVerify` across restarts. `NothingOfTheDeveloper` and `SomebodyCanSignIn` read
off the empty list of problems what `DefaultsStayInDevelopment` says; `OriginsAreNamed`
and `AnswersAllow` give `CorsStaysNarrow`, `MethodsAreKnown` and `SelectedIsPublished` give
`MetadataIsHonest`. For `BannerAlwaysDecides`, the banner reads the bag as it is, so one
that passed has nothing sealed, and under a named issuer the URL makes no difference.

**LimitsProofs**, from `LimitsAssumption`, with no bound on the delay. `WithinLimits`
counts requests, the store counts calls, and a counter may have expired and begun again,
so that no state holds what has to be counted. The invariant says that there is a
`ledger`, a set of pairs of a request and a counter's key, which could have been kept:
whoever was let through is in it for every limit that applies to it, and what it holds
for a key is accounted for by the counter's value and by the lives it can have had so
far (`Account`). An evicted counter leaves its share behind in `evictions`, which no
protected key has any of (`Sound`, `Gone`). Every step extends the ledger or leaves it.
`LimitsHold` then counts the ledger's pairs of one bucket. For `NetworkLimitsKeys`,
`Owner` gives each address counter a request that made the store keep it, and that the
network's limit had let through.

**SessionsProofs**, from `SessionsAssumption`. The invariant says that every cookie,
also those held by a request, has the cap of its session (`CapNeverMoves`), that a
marker, once written, covers that cap (`Covers`: a record ends with it, and an alarm goes
off no earlier than some instance's clock shows it), that a claim about to be made asks
for enough seconds (`TtlIsRight`), that during a sign-out every cookie already
dealt with is either unreadable or covered, and that a session reported ended in time
has a marker. Then a session that is accepted is not ended, unless its marker was an
alarm and a clock has reached the cap (`SignOutIsFinal`).

`SessionsProofs` also shows `SignOutIsNarrow`: the loop of `finish` keeps the cookies
it was started for, which are those of one relying party unless none was named.

**LocalIdentityProofs**, from `IdentityAssumption`. The invariant says that what a
request has read is the file or an earlier revision of it, that the record it means to
write was made from what it read with its factor used up, that only the head of the
lock's chain is past the lock and then has read what is in the file, that what a crash
would leave is behind the file, never ahead of it, and that a factor accepted more often
than the crashes which took a write back account for (`Allowance`, none where
directories are flushed) is used up in the file (`Spent`). So a write replaces exactly
what its writer has read (`NothingLost`), where directories are flushed a factor that
was accepted is gone from what a crash would leave (`Durable`), and no factor is
accepted twice, or where they are not, no more than once more for each such crash
(`SpentOnce`). The same module has the theorems about the semaphore, from
`QueueAssumption`: `PermitsTyped`, `PermitsAlwaysMatch` and `NobodyWaitsForNothing`.
Their invariant adds that the set of running operations is finite and that the queue
contains exactly the operations that wait, each once.

**PeerJwksProofs**, from `SitesAssumption` and `TimesAssumption`; nothing is assumed about
how long a call takes. Type and `Served` come first: a request
waits for running resolutions of its own site only, hence `NobodyWaitsForNothing`.
`Honest`: every key anywhere belongs to a peer whose list it came from, and is public,
hence `TrustIsDirect`, and with it that the keys of an entry or a job were
published no earlier than their stamp. `Timely`: a resolution has been in flight no longer
than `longest`, and its stamp was taken meanwhile, hence `LateAnswerCostsLittle`. `Aged`
dates the keys of an entry and of a resolution by its stamp. `Kept` dates those that a
request holds by the beginning of the resolutions it still waits for: this is where a key
resolved early waits for a slow other peer, and why a site with several peers gets the
longest resolution twice. `GraceHolds` follows
when the document is sent. For the other direction, `Remembered` says that no cache
holds an empty entry and that one which holds nothing of a peer never did or held it
longer ago than an entry is of use, and the same of what each resolution has read.
`AbsentPeerIsKept` looks at the step in which a resolution settles without keys.

**ClientRegistryProofs**, from `RegistryAssumption`. First what `Filter` does, by counting
the places up to each one that is selected: what is left of a cache is a `Part` of it,
its entries in their order, and a part inherits that keys are distinct and that entries
are ordered by age. `Fits` is what a cache owes when it takes an entry in, and `KeptFits`
shows it of all five: at most `Cap` entries, the new one among them, and, but for mail
records, no live entry lost unless `Cap` are live. The invariant is about time. `Good`:
an entry was stored no later than now, and its lifetime ends no later than one load and
one lifetime after its version was last true. `Waiting`: a job that holds an answer will
be done within one load of the moment when that answer was true, which is why an answer
may overtake a newer one and be cached last without being served for longer. `Later`
carries both through a tick and through the change of a source. `ParseMeets` is about
`AuthorizationRequest` alone: what is parsed with a registration keeps to it.
`CachesStayBounded`, `NothingStaleIsServed` and `AnswersKeepToOneRegistration` follow from
the invariant, `GoodEntriesStay` from `Fits`.

**SignInProofs**, from `SignInAssumption`. The invariant describes what is sealed: every
page and state is typed and not silent, a record it names is one whose password was
passed in that transaction, one at the stage of a second factor has a request that the
second factor satisfies, and its digest is of a code that was generated, and mailed to
the digest's address only. A page carries no leg of a provider, and at the stage of an
email code does not require federation if its address may get codes. What a code rests
on is proved from the moment it is decided upon, before it is sealed (`CodesProved`).
Replays need no argument of their own, since pages and states only grow and the
invariant speaks about all of them. `SealedIsSound`, `IssuedOnMerit` and `AddressProved`
follow; `StaleIssuesNothing` is a fact about each step that decides upon a code or seals
one.

Checked by TLC only: the two liveness properties, since the prover has no rules for
fairness, and that `Filter` is `SelectSeq`, on short sequences. Every invariant and
every action property of a passing run is a theorem.

## 5. Not modelled

- The HTTP calls of the DynamoDB and Durable Object stores, other than how long they
  keep a claim.
- A token endpoint, sessions or client assertions without a state store, where nothing is
  claimed and nothing is revoked.
- Ages in `SignIn`, and whether a person can go on after a mail that was accepted but
  reported as failed: the properties are about what a code proves, not about getting one.
- That a request for `/jwks.json` is answered in the end: a peer that keeps its body open,
  or a cache that does not answer, holds it up for ever.
- The number of attempts at an email code after a page is replayed: the count is in
  the page (`src/otp.js:84`), so an older page restores it. `docs/limitations.md:26`
  accepts that.
- More than one process on a directory of local identities, which
  `docs/local-identities.md:155` rules out.
- A remote cache of peer keys that is read inconsistently (Workers KV may serve an older
  value for a while), and a peer of an older version that answers with its merged
  document.
- In `ClientRegistry`, the validation of a record field by field (it is usable or not),
  and the fragment of a redirect URI, which the comparison for loopback addresses
  ignores.
- In `Startup` and `Config`: settings that are only copied (interface, profile, DNS,
  lifetimes), base paths and `/.well-known` rewriting, extra public keys, a `HOST` other
  than the default, the liveness probe, userinfo beyond its cross-origin headers.
- Choosing a provider from a mail record and mapping its claims; the protocols of remote
  signers and mail providers, which are network I/O.
- Sealing and signing (idealised), pages and styles (formatting), identity, profile and
  remember-me (pure functions of an address and a cookie that grants nothing),
  command-line tools and the example relying party (outside the service).

## 6. What is left

1. The Durable Object and DynamoDB backends as refinements of `ClaimStore`, with lost
   answers and late alarms; then `TokenEndpoint` and `Sessions` over `ClaimStore` itself.
2. The offline rekey of local identities and the creation of new records.
