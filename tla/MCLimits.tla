------------------------------- MODULE MCLimits -------------------------------
(* Limits for TLC: requests that mail a code to one mailbox, spelt with and     *)
(* without a plus tag, or try a credential on it or on a second one, from a     *)
(* network that may make one attempt or with no network known.  Which request   *)
(* is which is left open, so the requests are alike.                            *)
EXTENDS Limits, TLC

CONSTANTS mailA, mailATagged, mailB, net1

Form(kind, address, network) == [kind |-> kind, address |-> address, network |-> network]

SomeForms == {Form("otp", mailA, net1), Form("otp", mailATagged, net1),
              Form("local", mailA, net1), Form("local", mailB, net1),
              Form("local", mailATagged, NoNetwork)}
SomeMailbox == (mailA :> mailA) @@ (mailATagged :> mailA) @@ (mailB :> mailB)

Alike == Permutations(Requests)
================================================================================
