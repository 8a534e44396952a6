----------------------------- MODULE MCArgon2Queue -----------------------------
(* Argon2Queue for TLC. *)
EXTENDS Argon2Queue
================================================================================
