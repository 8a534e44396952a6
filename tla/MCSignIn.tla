------------------------------- MODULE MCSignIn -------------------------------
(* SignIn for TLC.  In one run an address that is mailed codes and a local     *)
(* identity are both served by a common provider.  In the other, two local     *)
(* identities have a second factor, and a guest is of a domain with two        *)
(* providers of its own.                                                      *)
EXTENDS SignIn, TLC

CONSTANTS mail, decoy, staff, chief, guest, corp, hq, goog

Ask(acr, prompt) == [acr |-> acr, prompt |-> prompt]

LocalAsks == {Ask({}, "consent"), Ask({"fed"}, "consent")}
UpstreamAsks == {Ask({"fed"}, "consent"), Ask({"otp"}, "consent"), Ask({"fedMfa"}, "none")}

CommonForAll == [e \in Emails |-> {goog}]
NoneWithin == [u \in Upstreams |-> {}]
GuestWithin == [u \in Upstreams |-> {guest, chief}]
OwnForGuest == [e \in Emails |-> IF e = guest THEN {corp, hq} ELSE {}]

\* Two requests, or the two providers that are not common, differ in nothing.
AlikeRequests == Permutations(TxIds)
AlikeProviders == Permutations({corp, hq})
================================================================================
