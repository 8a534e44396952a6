---------------------------- MODULE MCMemoryStore ----------------------------
(* MemoryStore for TLC.  Neither the ids nor the keys differ among themselves. *)
EXTENDS MemoryStore, TLC

Alike == Permutations(Ids) \cup Permutations(Keys)
================================================================================
