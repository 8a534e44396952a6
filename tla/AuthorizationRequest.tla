------------------------- MODULE AuthorizationRequest -------------------------
(***************************************************************************)
(* What parseAuthorizationRequest makes of the parameters of a request and *)
(* the client it names (src/oauth/request.js), with the comparison of      *)
(* redirect URIs (src/clients/index.js).  Parameters are values of small    *)
(* sets; "absent" is a parameter that is missing or blank.                 *)
(***************************************************************************)
EXTENDS Integers, FiniteSets

CONSTANTS
    RedirectSchemes,    \* CLIENT_REDIRECT_URI_SCHEMES, or {"*"}
    DefaultRequired     \* the acr values required of everybody

NoUri == [host |-> "absent", port |-> 0, scheme |-> "absent", path |-> "absent"]

Loopback == {"localhost", "127.0.0.1"}

\* Exact, but for the port of a loopback address.
RedirectUriAllowed(client, uri) ==
    /\ RedirectSchemes = {"*"} \/ uri.scheme \in RedirectSchemes
    /\ \E registered \in client.redirectUris :
          \/ registered = uri
          \/ /\ registered.host \in Loopback
             /\ registered = [uri EXCEPT !.port = registered.port]

\* A registration as every source of it is normalised: no scopes is no limit.
Normalise(record) ==
    [record EXCEPT !.scopes = IF @ = {} THEN {"absent"} ELSE @]

SupportedScopes == {"openid", "email", "profile", "offline_access"}
Prompts == {"none", "login", "consent", "select_account"}

\* Which check of stage two a request fails.
Fails(client, form) ==
    \/ form.responseType # "code"
    \/ form.responseMode \notin {"absent", "query", "form_post"}
    \/ "openid" \notin form.scope
    \/ ~(form.scope \subseteq SupportedScopes)
    \/ client.scopes # {"absent"} /\ ~(form.scope \subseteq client.scopes)
    \/ client.requirePkce /\ form.challenge = "absent"
    \/ /\ form.challenge # "absent"
       /\ form.method \notin {"absent", "S256"} \/ form.challenge = "malformed"
    \/ ~(form.prompt \subseteq Prompts)
    \/ "none" \in form.prompt /\ Cardinality(form.prompt) > 1
    \/ form.maxAge = "malformed"
    \/ /\ client.alg # "absent" /\ form.alg # "absent"
       /\ form.alg # client.alg

\* An error is shown on a page of the gateway, or taken to the client.
Page == [kind |-> "page"]
Redirect(uri) == [kind |-> "error", uri |-> uri]

\* The request that goes into the transaction.
Request(client, form) ==
    [kind |-> "accepted", uri |-> form.redirectUri,
     scope |-> form.scope,
     prompt |-> IF form.prompt = {} THEN {"consent"} ELSE form.prompt,
     acr |-> (IF form.acr = {} THEN DefaultRequired ELSE form.acr) \cup client.acrValues,
     alg |-> IF client.alg # "absent" THEN client.alg ELSE form.alg,
     pkce |-> form.challenge # "absent"]

\* Mutant of ParseRequest: the cheap checks come first.
ParseChecksFirst(client, form) ==
    IF form.redirectUri # NoUri /\ Fails(client, form) THEN Redirect(form.redirectUri)
    ELSE IF ~RedirectUriAllowed(client, form.redirectUri) THEN Page
    ELSE Request(client, form)

\* Mutant of ParseRequest: what is asked for wins over what is registered.
ParseDowngrades(client, form) ==
    IF form.redirectUri = NoUri \/ ~RedirectUriAllowed(client, form.redirectUri) THEN Page
    ELSE [Request(client, form) EXCEPT !.alg = IF form.alg # "absent" THEN form.alg ELSE client.alg]

\* Nothing is sent to a redirect URI before the client is known to have it.
ParseRequest(client, form) ==
    IF form.redirectUri = NoUri THEN Page
    ELSE IF ~RedirectUriAllowed(client, form.redirectUri) THEN Page
    ELSE IF Fails(client, form) THEN Redirect(form.redirectUri)
    ELSE Request(client, form)
===============================================================================
