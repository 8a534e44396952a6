-------------------------------- MODULE Config --------------------------------
(***************************************************************************)
(* loadConfig (src/config.js): what an environment bag amounts to once the  *)
(* host of a request is known.  A variable is a value of a small set:       *)
(* "unset", or what the code tells apart about it; "malformed" is any value  *)
(* its reader refuses.  A URL is a transport and a kind of host.            *)
(*                                                                          *)
(* An environment e is a record:                                            *)
(*   set        the variables read one by one                               *)
(*   algs       SIGNING_ALG and SIGNING_ADDITIONAL_ALGS; keyed, the ones with *)
(*              key material of their own; unreadable, of those the ones    *)
(*              whose key does not import                                   *)
(*   upstreams, clients   the entries, grouped by their slug; their order is *)
(*              not told apart                                              *)
(*   peers, origins   PEER_JWKS_URLS and CORS_ALLOWED_ORIGINS               *)
(*   platform   "node", or "isolate" for a Worker and a Lambda              *)
(*   runtime    the algorithms the runtime can sign with, and argon2        *)
(*   bound      the platform binds what the configuration names             *)
(*   sealed     some value is a reference to a secret                       *)
(***************************************************************************)
EXTENDS Integers, Sequences, SequencesExt

PostQuantum == {"ML-DSA-44", "ML-DSA-65"}
Symmetric == {"HS256"}

Url(scheme, host) == [scheme |-> scheme, host |-> host]
NoUrl == Url("unset", "unset")
Production == Url("https", "public")
Loopback == Url("http", "localhost")
Places == [scheme : STRING, host : STRING]

Variables ==
    {"dev", "other", "secret", "previous", "salt", "backend", "hsmSecret", "region",
     "requirePostQuantum", "store", "requireStore", "table", "otp", "mail", "from", "local",
     "localDomains", "peerCache", "requirePeerCache", "endpoint", "css", "lifetime",
     "cookie", "cimd", "cors", "clientStore", "code", "consent"}

\* What is told apart of a secret text.
Texts == {"unset", "short", "long"}

Bags ==
    [set : [Variables -> STRING], issuer : Places, algs : Seq(STRING),
     keyed : SUBSET STRING, unreadable : SUBSET STRING,
     upstreams : SUBSET [enabled : BOOLEAN, fault : STRING],
     clients : SUBSET [fault : STRING, method : STRING, keys : BOOLEAN, secret : BOOLEAN,
                       origin : Places],
     peers : SUBSET Places, origins : SUBSET Places,
     platform : {"node", "isolate"}, runtime : SUBSET STRING,
     bound : BOOLEAN, sealed : BOOLEAN]

------------------------------------------------------------------------------
(* Reading *)

\* The variables with a reader of their own: bool, int, jsonValue, oneOf, schemes,
\* identityDomains, awsEndpoint; "other" stands for those that are only stored.
Malformed(e) == \E name \in DOMAIN e.set : e.set[name] = "malformed"

On(e, name, fallback) == IF e.set[name] = "unset" THEN fallback ELSE e.set[name] = "on"

\* Codes are never shorter than nine characters.
CodeLength(e) ==
    CASE e.set.code = "unset" -> 9
      [] e.set.code = "six" -> 9
      [] e.set.code = "twelve" -> 12

ResolveIssuer(e, url) ==
    [url |-> IF e.issuer = NoUrl THEN url ELSE e.issuer, derived |-> e.issuer = NoUrl]

DevMode(e, issuer) == On(e, "dev", issuer.host = "localhost")

------------------------------------------------------------------------------
(* Secrets: the first seals, all of them open. *)

Secrets(e, dev) ==
    (IF e.set.secret # "unset" THEN <<[of |-> "current", length |-> e.set.secret]>>
     ELSE IF dev THEN <<[of |-> "development", length |-> "long"]>> ELSE <<>>)
    \o (IF e.set.previous # "unset" /\ (e.set.secret # "unset" \/ dev)
        THEN <<[of |-> "previous", length |-> e.set.previous]>> ELSE <<>>)

If(condition, name) == IF condition THEN {name} ELSE {}

\* Mutant of SecretProblems: a previous secret will do.
SecretProblemsOfEither(e, dev) ==
    IF dev THEN {}
    ELSE If(e.set.secret = "unset" /\ e.set.previous = "unset", "SAG_SECRET is required")
         \cup If(e.set.secret = "short", "SAG_SECRET is short")
         \cup If(e.set.previous = "short", "SAG_SECRET_PREVIOUS is short")

SecretProblems(e, dev) ==
    IF dev THEN {}
    ELSE If(e.set.secret = "unset", "SAG_SECRET is required")
         \cup If(e.set.secret = "short", "SAG_SECRET is short")
         \cup If(e.set.previous # "unset" /\ e.set.secret = "unset", "SAG_SECRET_PREVIOUS alone")
         \cup If(e.set.previous = "short", "SAG_SECRET_PREVIOUS is short")

------------------------------------------------------------------------------
(* Signing *)

Primary(e) == Head(e.algs)

\* A symmetric algorithm is refused, and so is a demand nothing named can meet.
SigningRefused(e) ==
    \/ \E i \in DOMAIN e.algs : e.algs[i] \in Symmetric
    \/ On(e, "requirePostQuantum", FALSE) /\ \A i \in DOMAIN e.algs : e.algs[i] \notin PostQuantum

SigningProblems(e, dev) ==
    If(e.set.backend = "unset" /\ Primary(e) \notin e.keyed /\ ~dev, "no signing key")
    \cup If(e.set.backend = "cloudflare-hsm" /\ e.set.hsmSecret = "unset", "no HSM_SHARED_SECRET")
    \cup If(e.set.backend = "aws-kms" /\ Primary(e) \notin e.keyed, "no SIGNING_KMS_KEY_ID")
    \cup If(e.set.backend = "aws-kms" /\ e.set.region = "unset", "no SIGNING_KMS_REGION")

------------------------------------------------------------------------------
(* Entries, where one bad one costs only itself. *)

\* A record without a known field, a client id or a domain it serves is ignored.
ReadUpstreams(e) == {u \in e.upstreams : u.enabled /\ u.fault = "none"}

AuthMethods == {"none", "client_secret_basic", "client_secret_post", "private_key_jwt"}

AuthMethod(entry) ==
    CASE entry.method # "unset" -> entry.method
      [] entry.method = "unset" /\ entry.keys -> "private_key_jwt"
      [] entry.method = "unset" /\ ~entry.keys /\ entry.secret -> "client_secret_basic"
      [] OTHER -> "none"

\* fault is a missing id, no redirect URIs or a bad session scope.
ReadStaticClients(e) ==
    {[method |-> AuthMethod(c), keys |-> c.keys, origin |-> c.origin, source |-> "static"] :
        c \in {c \in e.clients : c.fault = "none" /\ AuthMethod(c) \in AuthMethods}}

DevClient == [method |-> "none", keys |-> FALSE, origin |-> Loopback, source |-> "dev-default"]

StaticClients(e, dev) ==
    IF dev /\ ReadStaticClients(e) = {} THEN {DevClient} ELSE ReadStaticClients(e)

\* Only over TLS outside development, and never this issuer's own origin.
Travels(url, dev) == url.scheme = "https" \/ (url.scheme = "http" /\ dev)
ReadPeerJwksUrls(e, dev, issuer) == {p \in e.peers : Travels(p, dev) /\ p # issuer}

AnyOrigin == Url("any", "any")

CorsOriginsFromClients(clients, dev) ==
    {o \in {c.origin : c \in clients} : Travels(o, dev)}

\* Mutant of ReadCorsOrigins: a list of which nothing is usable reads as no list.
ReadCorsOriginsLoosely(e, dev, clients) ==
    LET usable == {o \in e.origins : o = AnyOrigin \/ Travels(o, dev)}
    IN  IF ~On(e, "cors", TRUE) THEN {}
        ELSE IF usable = {} THEN {AnyOrigin}
        ELSE CorsOriginsFromClients(clients, dev) \cup usable

\* Naming an origin narrows, even when what is named turns out to be unusable.
ReadCorsOrigins(e, dev, clients) ==
    IF ~On(e, "cors", TRUE) THEN {}
    ELSE IF e.origins = {} THEN {AnyOrigin}
    ELSE CorsOriginsFromClients(clients, dev)
         \cup {o \in e.origins : o = AnyOrigin \/ Travels(o, dev)}

------------------------------------------------------------------------------
(* The rest of loadConfig *)

\* A REQUIRE_ flag turns a fallback into an error.
RequirementUnmet(e, dev, issuer) ==
    \/ On(e, "requireStore", FALSE) /\ e.set.store = "unset"
    \/ /\ On(e, "requirePeerCache", FALSE)
       /\ ReadPeerJwksUrls(e, dev, issuer) = {} \/ e.set.peerCache = "unset"

SignInProblems(e, dev) ==
    If(On(e, "otp", TRUE) /\ e.set.mail = "unset" /\ ~dev, "console email")
    \cup If(ReadUpstreams(e) = {} /\ ~On(e, "otp", TRUE) /\ e.set.local = "unset", "nobody could sign in")

LocalProblems(e) ==
    IF e.set.local = "unset" THEN {}
    ELSE If(e.set.localDomains = "unset", "no LOCAL_IDENTITY_DOMAINS")
         \cup If(e.set.store = "unset", "local passwords without a store")
         \cup If(e.set.salt # "long", "local identities without a salt")

TransportProblems(e, issuer, dev) ==
    IF dev THEN {}
    ELSE If(issuer.url.scheme = "http", "http issuer")
         \cup If(issuer.derived, "derived issuer")
         \cup If(e.set.endpoint = "http", "http endpoint")
         \cup If(e.set.css = "http", "http stylesheet")

SettingProblems(e, dev) ==
    If(e.set.salt = "unset" /\ ~dev, "no SUBJECT_SALT")
    \cup If(e.set.lifetime = "shorter", "SESSION_MAX_LIFETIME is shorter than SESSION_TTL")

\* The part of the record whose defaults depend on the mode or on each other.
Settings(e, dev) ==
    [hostCookie |-> ~dev \/ e.set.cookie = "prefixed",
     salt |-> IF e.set.salt = "unset" /\ dev THEN "development" ELSE e.set.salt,
     cimd |-> On(e, "cimd", dev),
     store |-> e.set.store,
     otp |-> On(e, "otp", TRUE),
     mail |-> e.set.mail,
     from |-> IF e.set.from = "unset" /\ dev THEN "development" ELSE e.set.from,
     codeLength |-> CodeLength(e),
     local |-> e.set.local,
     clientStore |-> e.set.clientStore,
     consent |-> e.set.consent]

NoConfig == [loaded |-> FALSE]

LoadConfig(e, url) ==
    LET issuer == ResolveIssuer(e, url)
        dev == DevMode(e, issuer.url)
        clients == StaticClients(e, dev)
    IN  IF \/ e.sealed \/ Malformed(e) \/ SigningRefused(e)
           \/ RequirementUnmet(e, dev, issuer.url)
        THEN NoConfig
        ELSE [loaded |-> TRUE, issuer |-> issuer.url, derived |-> issuer.derived, dev |-> dev,
              secrets |-> Secrets(e, dev), upstreams |-> ReadUpstreams(e), clients |-> clients,
              peers |-> ReadPeerJwksUrls(e, dev, issuer.url),
              allowedOrigins |-> ReadCorsOrigins(e, dev, clients),
              settings |-> Settings(e, dev),
              problems |-> SecretProblems(e, dev) \cup SigningProblems(e, dev)
                           \cup SignInProblems(e, dev) \cup LocalProblems(e)
                           \cup TransportProblems(e, issuer, dev) \cup SettingProblems(e, dev)]

\* assertUsable
Usable(config) == config.loaded /\ config.problems = {}
===============================================================================
