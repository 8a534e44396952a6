-------------------------------- MODULE Startup --------------------------------
(***************************************************************************)
(* How an instance comes up and what every request is then handled with:    *)
(* createContext (src/context.js) and the slot it fills once per isolate,   *)
(* the signer set (src/keys/registry.js), the banner of the Node adapter     *)
(* (adapters/node/server.js), routing (src/router.js) and what discovery     *)
(* says of it all (src/endpoints/discovery.js).                             *)
(*                                                                          *)
(* A slot is filled by the first requests, which may overlap: unsealing and  *)
(* the services are awaited, everything between two awaits is one step.     *)
(***************************************************************************)
EXTENDS Config, FiniteSets

CONSTANTS
    Environments,   \* the environment bags an instance may be started with
    Requests,       \* the requests in flight
    Questions,      \* what a request may ask for, once it has its context
    MaxBoots,       \* bound: how often the process or isolate is started
    MaxTokens       \* bound: the id_tokens that are followed

ASSUME BootsAssumption == MaxBoots \in Nat \ {0} /\ MaxTokens \in Nat

\* What the readers leave of a variable, and what a request is: SIGNING_ALG has a
\* default, and a named issuer is an http or an https URL (resolveIssuer).
ASSUME EnvironmentsAssumption ==
    \A e \in Environments :
        /\ e \in Bags
        /\ e.set.secret \in Texts /\ e.set.previous \in Texts /\ e.set.salt \in Texts
        /\ e.set.code \in {"unset", "six", "twelve", "malformed"}
        /\ e.issuer = NoUrl \/ e.issuer.scheme \in {"http", "https"}
        /\ e.algs # <<>>

ASSUME QuestionsAssumption ==
    Questions \subseteq [path : STRING, method : STRING, origin : Places, outcome : STRING]

VARIABLES
    env,        \* the environment bag, which no step changes
    proc,       \* the process: "starting", "probing", "up" or "exited"
    boot,       \* which start of the process this is
    sets,       \* how many signer sets have been built, over all starts
    slot,       \* what this isolate has cached against the environment bag
    req,        \* the requests
    signed      \* the id_tokens out there: issuer, key and boot of each

vars == <<env, proc, boot, sets, slot, req, signed>>

------------------------------------------------------------------------------
(* Signers *)

KmsAlgs == {"ES256", "ES384", "RS256", "PS256"}

\* Whether createSigner returns one.  No backend is called to find out.
CreateSigner(e, alg) ==
    CASE e.set.backend = "unset" -> alg \notin e.unreadable
      [] e.set.backend = "cloudflare-hsm" -> e.bound /\ e.set.hsmSecret # "unset"
      [] e.set.backend = "aws-kms" -> alg \in KmsAlgs /\ alg \in e.keyed /\ e.set.region # "unset"

\* Mutant of KeyOf: every signer is given the key of the primary.
KeyOfPrimary(e, alg, set) ==
    [alg |-> alg, made |-> IF e.set.backend = "unset" /\ (alg # Primary(e) \/ alg \notin e.keyed)
                           THEN set ELSE 0]

\* A key that is not configured is generated, and is another one in every set.
KeyOf(e, alg, set) ==
    [alg |-> alg, made |-> IF e.set.backend = "unset" /\ alg \notin e.keyed THEN set ELSE 0]

NoSigners == [built |-> FALSE, ok |-> FALSE]
FailedSigners == [built |-> TRUE, ok |-> FALSE]

\* An algorithm the runtime lacks is skipped, the primary too.
Probed(e) == {a \in ToSet(e.algs) : e.set.backend = "unset" => a \in e.runtime}

\* The algorithm that is used unless another is asked for: the first of the list that
\* has a signer, which is the primary when it has one.
FirstOf(algs, built) ==
    algs[CHOOSE i \in DOMAIN algs :
            algs[i] \in built /\ \A j \in DOMAIN algs : algs[j] \in built => i <= j]

\* One whose signer fails is skipped, unless it is the primary.
CreateSignerSet(e, set) ==
    LET built == {a \in Probed(e) : CreateSigner(e, a)}
    IN  IF Primary(e) \in Probed(e) \ built \/ built = {}
        THEN FailedSigners
        ELSE [built |-> TRUE, ok |-> TRUE, primaryAlg |-> FirstOf(e.algs, built),
              keys |-> [a \in built |-> KeyOf(e, a, set)]]

Algs(signers) == DOMAIN signers.keys

\* The keys a relying party's algorithm selects: one, or none.
Select(signers, alg) ==
    IF alg = "unset" THEN {signers.keys[signers.primaryAlg]}
    ELSE {signers.keys[a] : a \in Algs(signers) \cap {alg}}

Jwks(signers) == Range(signers.keys)

------------------------------------------------------------------------------
(* The context of a request *)

Idle == [at |-> "idle", url |-> NoUrl]
Unsealing(url) == [at |-> "unsealing", url |-> url]
Awaiting == [at |-> "awaiting", url |-> NoUrl]
Serving == [at |-> "serving", url |-> NoUrl]

EmptySlot == [unsealed |-> FALSE, config |-> NoConfig, signers |-> NoSigners]

SenderCreated(e, config) ==
    CASE config.settings.mail = "unset" -> TRUE
      [] config.settings.mail = "ses" -> e.set.region # "unset" /\ config.settings.from # "unset"
      [] config.settings.mail = "cloudflare" -> e.bound /\ config.settings.from # "unset"

StateStoreCreated(e, config) ==
    CASE config.settings.store \in {"unset", "memory"} -> TRUE
      [] config.settings.store = "cf-durable-object" -> e.bound
      [] config.settings.store = "dynamodb" -> e.set.table # "unset" /\ e.set.region # "unset"

ClientStoreCreated(e, config) == config.settings.clientStore = "unset" \/ e.bound

\* The file store is a binding of the Node adapter.
LocalStoreCreated(e, config) == config.settings.local = "unset" \/ e.platform = "node"

PeerJwksCreated(e, config) ==
    config.peers = {} \/ e.set.peerCache = "unset" \/ e.bound

\* unsealEnv leaves no reference in the bag it returns.
Unsealed(e) == [e EXCEPT !.sealed = FALSE]

\* Mutant of Read: every request reads the configuration.
ReadAfresh(s, url) == LoadConfig(Unsealed(env), url)

Read(s, url) == IF s.config.loaded THEN s.config ELSE LoadConfig(Unsealed(env), url)

\* The slot has its configuration before assertUsable looks at it.
Configure(r, s, url) ==
    LET config == Read(s, url)
        refused == ~config.loaded \/ (~s.config.loaded /\ ~Usable(config))
    IN  \/ /\ refused
           /\ slot' = [s EXCEPT !.config = config]
           /\ req' = [req EXCEPT ![r] = Idle]
           /\ UNCHANGED sets
        \/ /\ ~refused
           /\ sets' = IF s.signers.built THEN sets ELSE sets + 1
           /\ slot' = [s EXCEPT !.config = config,
                                !.signers = IF @.built THEN @ ELSE CreateSignerSet(env, sets')]
           /\ req' = [req EXCEPT ![r] = IF LocalStoreCreated(env, config) THEN Awaiting ELSE Idle]

Accepts == proc \in {"probing", "up"}

\* The URLs requests arrive under: the Node adapter speaks http.
Urls == {Loopback, IF env.platform = "node" THEN Url("http", "public") ELSE Production}

\* A request arrives.  Unsealing is waited for only when something is sealed.
Arrive(r, url) ==
    /\ Accepts /\ req[r] = Idle
    /\ IF env.sealed /\ ~slot.unsealed
       THEN /\ req' = [req EXCEPT ![r] = Unsealing(url)]
            /\ UNCHANGED <<slot, sets>>
       ELSE Configure(r, [slot EXCEPT !.unsealed = TRUE], url)
    /\ UNCHANGED <<env, proc, boot, signed>>

Unseals(r) ==
    /\ Accepts /\ req[r].at = "unsealing"
    /\ Configure(r, [slot EXCEPT !.unsealed = TRUE], req[r].url)
    /\ UNCHANGED <<env, proc, boot, signed>>

\* A secret service that fails is asked again by the next request.
UnsealFails(r) ==
    /\ Accepts /\ req[r].at = "unsealing"
    /\ req' = [req EXCEPT ![r] = Idle]
    /\ UNCHANGED <<env, proc, boot, sets, slot, signed>>

\* The services are there, or one of them is not and the request fails.
Resume(r) ==
    /\ Accepts /\ req[r].at = "awaiting"
    /\ req' = [req EXCEPT ![r] =
                 IF /\ slot.signers.ok
                    /\ SenderCreated(env, slot.config) /\ StateStoreCreated(env, slot.config)
                    /\ ClientStoreCreated(env, slot.config) /\ PeerJwksCreated(env, slot.config)
                 THEN Serving ELSE Idle]
    /\ UNCHANGED <<env, proc, boot, sets, slot, signed>>

\* signIdToken, with the algorithm the client asks for; another one is refused.
SignIdToken(r, alg) ==
    /\ Accepts /\ req[r].at = "serving" /\ Cardinality(signed) < MaxTokens
    /\ signed' = signed \cup {[iss |-> slot.config.issuer, key |-> key, boot |-> boot] :
                                 key \in Select(slot.signers, alg)}
    /\ req' = [req EXCEPT ![r] = Idle]
    /\ UNCHANGED <<env, proc, boot, sets, slot>>

\* Every other answer, a failure of the backend that signs included.
Answer(r) ==
    /\ Accepts /\ req[r].at = "serving"
    /\ req' = [req EXCEPT ![r] = Idle]
    /\ UNCHANGED <<env, proc, boot, sets, slot, signed>>

------------------------------------------------------------------------------
(* Answers *)

\* The route table, by what its entries have in common: who may read an answer
\* (anybody, the allowed origins or only the gateway's own pages), and its form.
Route(methods, readers, success, failure) ==
    [methods |-> methods, readers |-> readers, success |-> success, failure |-> failure]

Routes ==
    [metadata |-> Route({"GET"}, "anybody", "json", "json"),
     jwks     |-> Route({"GET"}, "anybody", "json", "html"),
     health   |-> Route({"GET"}, "own", "json", "html"),
     asset    |-> Route({"GET"}, "own", "file", "html"),
     page     |-> Route({"GET", "POST"}, "own", "html", "html"),
     form     |-> Route({"POST"}, "own", "html", "html"),
     callback |-> Route({"GET"}, "own", "html", "html"),
     token    |-> Route({"POST"}, "allowed", "json", "json"),
     userinfo |-> Route({"GET", "POST"}, "allowed", "json", "json")]

AllowedOrigin(config, origin) ==
    CASE origin = NoUrl -> NoUrl
      [] origin # NoUrl /\ AnyOrigin \in config.allowedOrigins -> AnyOrigin
      [] origin # NoUrl /\ AnyOrigin \notin config.allowedOrigins ->
            IF origin \in config.allowedOrigins THEN origin ELSE NoUrl

\* A failure is JSON for a machine and a page with a policy for a browser; what is
\* meant for a person is a page everywhere.
HandleFailure(route, outcome) ==
    [status |-> IF outcome = "fails" THEN 500 ELSE 400,
     body |-> IF outcome = "explained" THEN "html" ELSE route.failure]

\* The documents for everybody say so themselves, but for the keys a peer asks for;
\* finish says it of the two endpoints that scripts call.
Readers(route, outcome, allow) ==
    CASE route.readers = "allowed" -> allow
      [] route.readers = "anybody" -> IF outcome = "ok" THEN AnyOrigin ELSE NoUrl
      [] route.readers = "own" -> NoUrl

\* handleRequest, once there is a context.
Respond(config, q) ==
    LET plain(status) == [status |-> status, body |-> "text", allow |-> NoUrl]
        allow == AllowedOrigin(config, q.origin)
    IN  IF q.path \notin DOMAIN Routes THEN plain(404)
        ELSE LET route == Routes[q.path]
                 handled == IF q.outcome \in {"ok", "peer"}
                            THEN [status |-> 200, body |-> route.success]
                            ELSE HandleFailure(route, q.outcome)
             IN  IF q.method = "OPTIONS" /\ route.readers = "allowed"
                 THEN [status |-> 204, body |-> "none", allow |-> allow]
                 ELSE IF q.method \notin route.methods THEN plain(405)
                 ELSE [status |-> handled.status, body |-> handled.body,
                       allow |-> Readers(route, q.outcome, allow)]

\* Mutant of Advertised: what is configured, not what could be built.
AdvertisedAsConfigured(signers) == ToSet(env.algs)

Advertised(signers) == Algs(signers)

AcrValuesFor(config) ==
    LET local == config.settings.local # "unset"
        federated == config.upstreams # {}
    IN  If(config.settings.otp, "otp")
        \cup (IF local THEN {"local-password", "local-mfa"} ELSE {})
        \cup (IF federated THEN {"federated", "federated-mfa"} ELSE {})
        \cup If(local \/ federated, "mfa")

\* Exactly the methods in use, unless a client can come from elsewhere or there is none.
ClientCapabilities(config) ==
    LET used == {c.method : c \in config.clients}
                \cup If(\E c \in config.clients : c.keys, "private_key_jwt")
    IN  IF config.settings.cimd \/ config.settings.clientStore # "unset" \/ used = {}
        THEN AuthMethods ELSE used

PromptValuesFor(config) ==
    {"none", "login", "select_account"} \cup If(config.settings.consent # "off", "consent")

CommonMetadata(config, signers) ==
    [issuer |-> config.issuer, algs |-> Advertised(signers), acr |-> AcrValuesFor(config),
     methods |-> ClientCapabilities(config), prompts |-> PromptValuesFor(config),
     postQuantum |-> Algs(signers) \cap PostQuantum]

\* /healthz warns of a key that the next start replaces, when it is the default one.
HealthWarns(signers) == signers.keys[signers.primaryAlg].made # 0

------------------------------------------------------------------------------
(* The process *)

Launched(e) == IF e.platform = "node" THEN "starting" ELSE "up"

\* The listener is open from here on.
BannerLoads ==
    /\ proc = "starting"
    /\ proc' = IF /\ LoadConfig(env, Loopback).loaded
                  /\ env.set.local = "unset" \/ "argon2" \in env.runtime
               THEN "probing" ELSE "exited"
    /\ UNCHANGED <<env, boot, sets, slot, req, signed>>

\* Mutant of BannerEnds: the problems are printed, and that is all.
BannerReports ==
    /\ proc = "probing"
    /\ sets' = sets + 1
    /\ proc' = IF CreateSignerSet(env, sets').ok THEN "up" ELSE "exited"
    /\ UNCHANGED <<env, boot, slot, req, signed>>

BannerEnds ==
    /\ proc = "probing"
    /\ \/ /\ ~Usable(LoadConfig(env, Loopback))
          /\ proc' = "exited"
          /\ UNCHANGED sets
       \/ /\ Usable(LoadConfig(env, Loopback))
          /\ sets' = sets + 1
          /\ proc' = IF CreateSignerSet(env, sets').ok THEN "up" ELSE "exited"
    /\ UNCHANGED <<env, boot, slot, req, signed>>

\* A new isolate, or a process started again; nothing of the old one is left.
Restart ==
    /\ boot < MaxBoots
    /\ boot' = boot + 1
    /\ proc' = Launched(env)
    /\ slot' = EmptySlot
    /\ req' = [r \in Requests |-> Idle]
    /\ UNCHANGED <<env, sets, signed>>

Init ==
    /\ env \in Environments
    /\ proc = Launched(env)
    /\ boot = 1
    /\ sets = 0
    /\ slot = EmptySlot
    /\ req = [r \in Requests |-> Idle]
    /\ signed = {}

Next ==
    \/ \E r \in Requests :
          \/ \E url \in Urls : Arrive(r, url)
          \/ Unseals(r)
          \/ UnsealFails(r)
          \/ Resume(r)
          \/ \E alg \in ToSet(env.algs) \cup {"unset"} : SignIdToken(r, alg)
          \/ Answer(r)
    \/ BannerLoads
    \/ BannerEnds
    \/ Restart

Spec == Init /\ [][Next]_vars

------------------------------------------------------------------------------
(* Properties *)

\* "Throw if the configuration is not safe to serve" (src/config.js:1330): no request
\* is handled with a configuration that has problems.
RefusesUnusable == \A r \in Requests : req[r].at \in {"awaiting", "serving"} => Usable(slot.config)

\* What assertUsable lets through outside development has none of the development
\* defaults: the secret that seals is the current one and long, the salt and the key
\* are configured, the issuer is named and https, the client of the developer is not
\* there, codes reach a mailbox, and somebody can sign in (src/config.js:4-6).
NoDevelopmentDefaults ==
    LET config == slot.config
    IN  Usable(config) =>
          /\ \/ config.dev
             \/ /\ config.secrets # <<>> /\ Head(config.secrets) = [of |-> "current", length |-> "long"]
                /\ \A i \in DOMAIN config.secrets : config.secrets[i].length = "long"
                /\ config.issuer.scheme = "https" /\ env.issuer = config.issuer
                /\ config.settings.salt \in {"short", "long"}
                /\ config.settings.hostCookie
                /\ \A c \in config.clients : c.source = "static"
                /\ \A p \in config.peers : p.scheme = "https"
                /\ config.settings.otp => config.settings.mail # "unset"
                /\ slot.signers.ok /\ Primary(env) \in Algs(slot.signers) => ~HealthWarns(slot.signers)
          /\ AcrValuesFor(config) # {}
          /\ config.settings.local # "unset" =>
                config.settings.store # "unset" /\ config.settings.salt = "long"
          /\ config.settings.codeLength >= 9

\* A request that has its context has signers to answer with, and an id_token of an
\* isolate verifies there ever after: the issuer it names is the one that is served,
\* and its key is published, however the first requests overlapped while a secret was
\* opened and whichever of them brought configuration and keys; and of a later isolate
\* too, when its key is configured (src/context.js:52-66, src/keys/registry.js:36-40).
TokensVerify ==
    /\ \A r \in Requests : req[r].at = "serving" => slot.config.loaded /\ slot.signers.ok
    /\ slot.signers.ok =>
         \A t \in signed :
           /\ t.boot = boot \/ ~slot.config.derived => t.iss = slot.config.issuer
           /\ t.boot = boot \/ env.set.backend # "unset" \/ t.key.alg \in env.keyed
                => t.key \in Jwks(slot.signers)

\* Discovery promises nothing that fails mid-sign-in (src/endpoints/discovery.js:14-19):
\* an algorithm that is advertised can be selected and its key is published, and the
\* method of every client is listed.
HonestMetadata ==
    slot.signers.ok =>
      LET document == CommonMetadata(slot.config, slot.signers)
      IN  /\ document.algs # {}
          /\ \A alg \in document.algs :
                Select(slot.signers, alg) # {} /\ Select(slot.signers, alg) \subseteq Jwks(slot.signers)
          /\ document.postQuantum \subseteq document.algs
          /\ \A c \in slot.config.clients : c.method \in document.methods

\* Any page may read the metadata and the published keys.  Of the rest, a page of
\* another origin reads only answers of /token and /userinfo, and once an operator has
\* named origins, only if its own is among them or is a client's; what a preflight
\* promises there holds for the answer, a failure included (src/util/cors.js,
\* src/util/http.js:29, readCorsOrigins).
CorsIsNarrow ==
    slot.config.loaded =>
      \A q \in Questions :
        LET answer == Respond(slot.config, q)
            preflight == Respond(slot.config, [q EXCEPT !.method = "OPTIONS"])
            registered == {c.origin : c \in env.clients}
                          \cup If(slot.config.dev, DevClient.origin)
        IN  /\ answer.allow # NoUrl =>
                 \/ q.path \in {"metadata", "jwks"} /\ answer.status = 200
                 \/ /\ q.path \in {"token", "userinfo"} /\ env.set.cors # "off"
                    /\ env.origins = {} \/ AnyOrigin \in env.origins
                         \/ q.origin \in env.origins \cup registered
            /\ q.path \in {"token", "userinfo"} /\ q.method \in Routes[q.path].methods =>
                 answer.allow = preflight.allow

\* Once its banner has ended, a Node process with a named issuer handles requests with
\* a usable configuration only (adapters/node/server.js, "Fail fast").
BannerDecides ==
    proc = "up" /\ env.platform = "node" /\ env.issuer # NoUrl /\ slot.config.loaded
      => Usable(slot.config)
===============================================================================
