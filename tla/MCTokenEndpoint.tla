---------------------------- MODULE MCTokenEndpoint ----------------------------
(* TokenEndpoint for TLC: one code, for a local identity or not, one assertion, *)
(* and two instances whose clocks are a second apart.                           *)
EXTENDS TokenEndpoint, TLC

CONSTANTS i1, i2, a1

ApartClocks == (i1 :> 0) @@ (i2 :> 2)
ShortAssertion == a1 :> 2
================================================================================
