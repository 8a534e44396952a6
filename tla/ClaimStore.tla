------------------------------ MODULE ClaimStore ------------------------------
(***************************************************************************)
(* What every state store backend promises to the rest of the gateway      *)
(* (src/store/index.js:10-24), with no word about how it keeps the promise. *)
(*                                                                         *)
(*   claim(id, ttl)      true the first time, false while the claim lives  *)
(*   has(id)             whether a live claim exists                       *)
(*   increment(key, ttl, failClosed)   the running count of the key        *)
(*                                                                         *)
(* A backend may fail any call and change nothing the promise speaks of.   *)
(* It may keep a claim longer than asked, never shorter.  It may forget a  *)
(* best-effort counter when it counts a new key, never a protected one.    *)
(***************************************************************************)
EXTENDS Naturals

CONSTANTS
    Ids,        \* identifiers that are claimed: codes, assertions, sessions
    Keys,       \* counter keys: one per purpose, address and time bucket
    Ttls,       \* lifetimes a caller asks for, in seconds
    MaxTime,    \* bound: the clock stops here
    Horizon,    \* bound: no deadline lies beyond it
    MaxCount    \* bound: no counter is driven past it

VARIABLES
    now,        \* nowSeconds()
    held,       \* held[id]: last second of the live claim on id, 0 if none
    counted,    \* counted[key]: the live counter of key, or NoCount
    reply       \* what the last call returned

vars == <<now, held, counted, reply>>

NoCount == [expiresAt |-> 0, count |-> 0, failClosed |-> FALSE]

Counts == [expiresAt : 0..Horizon, count : 0..MaxCount, failClosed : BOOLEAN]

NoReply == [op |-> "none", result |-> "none", count |-> 0]

Answer(op, result, count) == reply' = [op |-> op, result |-> result, count |-> count]

Init ==
    /\ now = 1
    /\ held = [id \in Ids |-> 0]
    /\ counted = [key \in Keys |-> NoCount]
    /\ reply = NoReply

\* A claim is granted only when none is live, and then lives for ttl at least.
Claim(id, ttl) ==
    /\ \/ held[id] # 0 /\ Answer("claim", "claimed", 0) /\ UNCHANGED held
       \/ Answer("claim", "failed", 0) /\ UNCHANGED held
       \/ /\ held[id] = 0
          /\ \E deadline \in (now + ttl) .. Horizon :
                held' = [held EXCEPT ![id] = deadline]
          /\ Answer("claim", "fresh", 0)
    /\ UNCHANGED <<now, counted>>

Has(id) ==
    /\ \/ Answer("has", IF held[id] # 0 THEN "claimed" ELSE "unclaimed", 0)
       \/ Answer("has", "failed", 0)
    /\ UNCHANGED <<now, held, counted>>

Forgettable == {key \in Keys : ~counted[key].failClosed}

Increment(key, ttl, failClosed) ==
    /\ \/ /\ counted[key] # NoCount
          /\ counted' = [counted EXCEPT ![key].count = @ + 1,
                                        ![key].failClosed = @ \/ failClosed]
          /\ Answer("increment", "counted", counted[key].count + 1)
       \/ Answer("increment", "failed", 0) /\ UNCHANGED counted
       \/ /\ counted[key] = NoCount
          /\ \E lost \in SUBSET Forgettable, deadline \in (now + ttl) .. Horizon :
                counted' = [k \in Keys |->
                    IF k = key
                    THEN [expiresAt |-> deadline, count |-> 1, failClosed |-> failClosed]
                    ELSE IF k \in lost THEN NoCount ELSE counted[k]]
          /\ Answer("increment", "counted", 1)
    /\ UNCHANGED <<now, held>>

\* The clock moves on, and what has expired is no longer there.
Tick ==
    /\ now < MaxTime
    /\ now' = now + 1
    /\ held' = [id \in Ids |-> IF held[id] < now + 1 THEN 0 ELSE held[id]]
    /\ counted' = [key \in Keys |->
                     IF counted[key].expiresAt < now + 1 THEN NoCount ELSE counted[key]]
    /\ reply' = NoReply

Next ==
    \/ \E id \in Ids, ttl \in Ttls : Claim(id, ttl)
    \/ \E id \in Ids : Has(id)
    \/ \E key \in Keys, ttl \in Ttls, failClosed \in BOOLEAN :
          Increment(key, ttl, failClosed)
    \/ Tick

Spec == Init /\ [][Next]_vars
================================================================================
