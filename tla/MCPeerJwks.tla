------------------------------ MODULE MCPeerJwks ------------------------------
(* PeerJwks for TLC: two sites that share a cache and list the same third one, *)
(* which lists them in turn.                                                    *)
EXTENDS PeerJwks, TLC

CONSTANTS east, west, third, table

Mesh == (east :> {third}) @@ (west :> {third}) @@ (third :> {east, west})
OneTable == [i \in Sites |-> table]
SameClocks == [i \in Sites |-> 0]

Alike == Permutations(Requests) \cup Permutations({east, west})
===============================================================================
