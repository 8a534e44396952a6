--------------------------- MODULE MCClientRegistry ---------------------------
(* ClientRegistry for TLC: an opaque client, one with a metadata document, one *)
(* that does not change and one in the environment; sources that appear,      *)
(* disappear, change or break.                                                *)
EXTENDS ClientRegistry, TLC

CONSTANTS opaque, document, steady, fixed

Uri(host, port) == [host |-> host, port |-> port, scheme |-> "https", path |-> "cb"]
Client(uri, scopes, alg) ==
    [scopes |-> scopes, alg |-> alg, redirectUris |-> {uri}, requirePkce |-> TRUE,
     acrValues |-> {"mfa"}]

Before == Client(Uri("rp", 443), {}, "absent")
After == Client(Uri("localhost", 1), {"openid"}, "ES256")
Environment == [k \in {fixed} |-> [Before EXCEPT !.requirePkce = FALSE]]

TheHistories == {<<Before, After>>, <<Absent, Before>>, <<Before, Broken>>, <<Before, Before>>}

Form(id, uri) ==
    [alg |-> "absent", clientId |-> id, redirectUri |-> uri, responseType |-> "code",
     responseMode |-> "absent", scope |-> {"openid"}, challenge |-> "digest",
     method |-> "S256", prompt |-> {}, maxAge |-> "absent", acr |-> {}]

TheForms ==
    {Form(opaque, Uri("rp", 443)),
     [Form(opaque, Uri("localhost", 2)) EXCEPT !.alg = "EdDSA"],
     [Form(document, Uri("rp", 443)) EXCEPT !.responseType = "token"],
     Form(steady, NoUri),
     [Form(fixed, Uri("rp", 443)) EXCEPT !.challenge = "absent", !.method = "absent"]}

Deploy(kinds, cap, keys, urls, changing) ==
    [kinds |-> kinds, cap |-> cap, keys |-> keys, urls |-> urls, changing |-> changing]

TheDeployments ==
    {Deploy({"store"}, 2, {opaque, document, steady}, {}, opaque),
     Deploy({"store", "cimd"}, 2, {opaque, document, fixed}, {document}, document),
     Deploy({"cimd"}, 1, {opaque, document}, {opaque, document}, document),
     Deploy({"jwks"}, 1, {opaque, steady}, {}, opaque),
     Deploy({"metadata"}, 1, {opaque, steady}, {}, opaque),
     Deploy({"dns"}, 1, {opaque, steady}, {}, opaque)}

\* Filter is SelectSeq, on every short sequence of three entries.
ASSUME FilterSelects ==
    \A n \in 0..4 : \A c \in [1..n -> 1..3] : \A S \in SUBSET (1..3) :
        Filter(c, S) = SelectSeq(c, LAMBDA e : e \in S)

\* Two requests differ in nothing.
Alike == Permutations(Requests)
===============================================================================
