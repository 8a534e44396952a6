------------------------------ MODULE MCSessions ------------------------------
(* Sessions for TLC: one relying party with a cookie of its own, one that uses *)
(* the shared cookie, and two instances whose clocks are a second apart.       *)
EXTENDS Sessions, TLC

CONSTANTS i1, i2, own, other, ownName

TwoCookies == (own :> ownName) @@ (other :> Shared) @@ (NoClient :> Shared)
AskAuto == [c \in Clients \cup {NoClient} |-> "auto"]
ApartClocks == (i1 :> 0) @@ (i2 :> 1)

\* Two requests differ in nothing, nor do two sessions before they begin.
Alike == Permutations(Requests) \cup Permutations(Sids)
================================================================================
