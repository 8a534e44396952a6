---------------------------- MODULE MCLocalIdentity ----------------------------
(* LocalIdentity for TLC. *)
EXTENDS LocalIdentity
================================================================================
