------------------------------- MODULE MCStartup -------------------------------
(* Startup for TLC: an empty environment and a complete production one, on     *)
(* either platform, and what one or two mistakes make of them.                 *)
EXTENDS Startup

Empty(on) ==
    [set |-> [dev |-> "unset", other |-> "unset", secret |-> "unset", previous |-> "unset",
              salt |-> "unset", backend |-> "unset", hsmSecret |-> "unset", region |-> "unset",
              requirePostQuantum |-> "unset", store |-> "unset", requireStore |-> "unset",
              table |-> "unset", otp |-> "unset", mail |-> "unset", from |-> "unset",
              local |-> "unset", localDomains |-> "unset", peerCache |-> "unset",
              requirePeerCache |-> "unset", endpoint |-> "unset", css |-> "unset",
              lifetime |-> "unset", cookie |-> "unset", cimd |-> "unset", cors |-> "unset",
              clientStore |-> "unset", code |-> "unset", consent |-> "unset"],
     issuer |-> NoUrl, algs |-> <<"ES256">>, keyed |-> {}, unreadable |-> {},
     upstreams |-> {}, clients |-> {}, peers |-> {}, origins |-> {},
     platform |-> on, runtime |-> {"ES256", "ML-DSA-44", "argon2"}, bound |-> FALSE, sealed |-> FALSE]

Entry(fault, method, origin) ==
    [fault |-> fault, method |-> method, keys |-> method = "unset", secret |-> TRUE, origin |-> origin]
Upstream(enabled, fault) == [enabled |-> enabled, fault |-> fault]

Relying == Url("https", "rp")

Complete(on) ==
    [Empty(on) EXCEPT !.issuer = Production, !.keyed = {"ES256"}, !.bound = TRUE,
                      !.algs = <<"ES256", "ML-DSA-44">>,
                      !.clients = {Entry("none", "none", Relying)},
                      !.set.secret = "long", !.set.salt = "long", !.set.mail = "ses",
                      !.set.from = "set", !.set.region = "set"]

\* Variables with another value.
Values ==
    {<<"dev", "on">>, <<"dev", "off">>, <<"other", "malformed">>,
     <<"secret", "unset">>, <<"secret", "short">>, <<"secret", "long">>,
     <<"previous", "short">>, <<"previous", "long">>, <<"salt", "unset">>, <<"salt", "short">>,
     <<"backend", "aws-kms">>, <<"backend", "cloudflare-hsm">>, <<"hsmSecret", "set">>,
     <<"region", "unset">>, <<"requirePostQuantum", "on">>, <<"store", "memory">>,
     <<"store", "dynamodb">>, <<"table", "set">>, <<"requireStore", "on">>, <<"otp", "off">>,
     <<"mail", "unset">>, <<"mail", "cloudflare">>, <<"from", "unset">>, <<"local", "file">>,
     <<"localDomains", "set">>, <<"peerCache", "cf-kv">>, <<"requirePeerCache", "on">>,
     <<"endpoint", "http">>, <<"css", "http">>, <<"lifetime", "shorter">>,
     <<"cimd", "on">>, <<"cors", "off">>, <<"clientStore", "cf-kv">>, <<"code", "six">>}

\* The environments one change away.
Changed(e) ==
    {[e EXCEPT !.set[v[1]] = v[2]] : v \in Values}
    \cup {[e EXCEPT !.issuer = url] : url \in {NoUrl, Production, Url("http", "public"), Loopback}}
    \cup {[e EXCEPT !.algs = algs] : algs \in {<<"HS256">>, <<"ML-DSA-44", "ES256">>}}
    \cup {[e EXCEPT !.keyed = keyed] : keyed \in {{}, {"ES256", "ML-DSA-44"}}}
    \cup {[e EXCEPT !.unreadable = {"ES256"}], [e EXCEPT !.runtime = {"ES256"}],
          [e EXCEPT !.sealed = TRUE], [e EXCEPT !.bound = FALSE]}
    \cup {[e EXCEPT !.upstreams = {Upstream(enabled, "none"), Upstream(TRUE, "noDomain")}] :
             enabled \in BOOLEAN}
    \cup {[e EXCEPT !.clients = {Entry(fault, method, Relying)}] :
             fault \in {"none", "noId"}, method \in {"unset", "misspelt"}}
    \cup {[e EXCEPT !.peers = {Url(scheme, "peer"), Production}] : scheme \in {"http", "https"}}
    \cup {[e EXCEPT !.origins = {o}] : o \in {AnyOrigin, Url("http", "spa"), Url("https", "spa")}}

Two(e) == {e} \cup Changed(e) \cup UNION {Changed(x) : x \in Changed(e)}

TheEnvironments == UNION {Two(Empty(on)) \cup Two(Complete(on)) : on \in {"node", "isolate"}}

Ask(path, method, origin, outcome) ==
    [path |-> path, method |-> method, origin |-> origin, outcome |-> outcome]

TheQuestions ==
    {Ask("token", "OPTIONS", Url("https", "other"), "ok"),
     Ask("token", "POST", Relying, "refused"),
     Ask("userinfo", "GET", Url("https", "other"), "fails"),
     Ask("token", "POST", Url("https", "spa"), "explained"),
     Ask("page", "GET", Relying, "ok"),
     Ask("metadata", "GET", Url("https", "other"), "ok"),
     Ask("metadata", "OPTIONS", Relying, "ok"),
     Ask("jwks", "GET", Url("https", "other"), "peer"),
     Ask("jwks", "GET", Url("https", "other"), "fails"),
     Ask("health", "GET", Url("https", "other"), "ok"),
     Ask("nowhere", "GET", NoUrl, "ok")}
===============================================================================
