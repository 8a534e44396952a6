------------------------------ MODULE MemoryStore ------------------------------
(***************************************************************************)
(* The single-process state store, createMemoryStore of src/store/index.js: *)
(* a map of claims and a map of counters, both capped at MaxEntries.       *)
(* Every operation runs without an await, so each is one step.             *)
(***************************************************************************)
EXTENDS Naturals, FiniteSets

CONSTANTS
    Ids,        \* identifiers that are claimed
    Keys,       \* counter keys
    Ttls,       \* lifetimes callers ask for (seconds)
    MaxEntries, \* STATE_STORE_MAX_ENTRIES: the cap of each map
    MaxTime,    \* bound: the clock stops here
    MaxTtl,     \* the longest lifetime in Ttls (and at least 1)
    MaxCount    \* bound: a counter is not incremented past this

ASSUME StoreAssumption ==
    /\ MaxEntries \in Nat \ {0}
    /\ MaxTime \in Nat \ {0}
    /\ MaxTtl \in Nat \ {0}
    /\ MaxCount \in Nat \ {0}
    /\ Ttls \subseteq 0..MaxTtl

VARIABLES
    now,        \* nowSeconds(), at least 1
    claims,     \* claims[id]: expiry, 0 when id is not in the map
    counters,   \* counters[key]: the entry, NoCounter when key is not in the map
    older,      \* the counters map's insertion order: <<k, l>> when k is before l
    reply       \* what the last call returned

storeVars == <<now, claims, counters, older, reply>>

NoCounter == [expiresAt |-> 0, count |-> 0, failClosed |-> FALSE]

Horizon == MaxTime + MaxTtl

Counters == [expiresAt : 0..Horizon, count : 0..MaxCount, failClosed : BOOLEAN]

NoReply == [op |-> "none", result |-> "none", count |-> 0]

Replies == [op : {"none", "claim", "has", "increment"},
            result : {"none", "fresh", "claimed", "unclaimed", "counted", "failed"},
            count : 0..MaxCount]

Returns(op, result, count) == reply' = [op |-> op, result |-> result, count |-> count]

Lifetime(ttl) == IF ttl < 1 THEN 1 ELSE ttl

StoreInit ==
    /\ now = 1
    /\ claims = [id \in Ids |-> 0]
    /\ counters = [key \in Keys |-> NoCounter]
    /\ older = {}
    /\ reply = NoReply

--------------------------------------------------------------------------------
(* Claims *)

ClaimsIn(map) == {id \in Ids : map[id] # 0}

SweepClaims == [id \in Ids |-> IF claims[id] < now THEN 0 ELSE claims[id]]

\* The map a new claim is put into: swept first when it is at the cap.
RoomForClaim ==
    IF Cardinality(ClaimsIn(claims)) >= MaxEntries THEN SweepClaims ELSE claims

ClaimRefused(id) ==
    /\ claims[id] >= now
    /\ UNCHANGED claims
    /\ Returns("claim", "claimed", 0)

\* Full of live claims even after the sweep: the call throws.
ClaimFull(id) ==
    /\ claims[id] < now
    /\ Cardinality(ClaimsIn(RoomForClaim)) >= MaxEntries
    /\ claims' = RoomForClaim
    /\ Returns("claim", "failed", 0)

\* Mutant of ClaimGranted: an off-by-one at the cap.
ClaimGrantedPastCap(id, ttl) ==
    /\ claims[id] < now
    /\ Cardinality(ClaimsIn(RoomForClaim)) <= MaxEntries
    /\ claims' = [RoomForClaim EXCEPT ![id] = now + Lifetime(ttl)]
    /\ Returns("claim", "fresh", 0)

ClaimGranted(id, ttl) ==
    /\ claims[id] < now
    /\ Cardinality(ClaimsIn(RoomForClaim)) < MaxEntries
    /\ claims' = [RoomForClaim EXCEPT ![id] = now + Lifetime(ttl)]
    /\ Returns("claim", "fresh", 0)

Claim(id, ttl) ==
    /\ ClaimRefused(id) \/ ClaimFull(id) \/ ClaimGranted(id, ttl)
    /\ UNCHANGED <<now, counters, older>>

Has(id) ==
    /\ claims' = [claims EXCEPT ![id] = IF @ < now THEN 0 ELSE @]
    /\ Returns("has", IF claims[id] < now THEN "unclaimed" ELSE "claimed", 0)
    /\ UNCHANGED <<now, counters, older>>

--------------------------------------------------------------------------------
(* Counters *)

CountersIn(map) == {key \in Keys : map[key] # NoCounter}

Without(map, gone) == [key \in Keys |-> IF key \in gone THEN NoCounter ELSE map[key]]

SweepCounters == Without(counters, {key \in Keys : counters[key].expiresAt < now})

\* Mutant of OldestUnprotected: evicts protected counters too.
OldestOfAll(map) ==
    {key \in CountersIn(map) : \A other \in CountersIn(map) : <<other, key>> \notin older}

\* The first entry, in insertion order, that is not protected.
OldestUnprotected(map) ==
    {key \in CountersIn(map) :
        /\ ~map[key].failClosed
        /\ \A other \in CountersIn(map) :
              ~map[other].failClosed => <<other, key>> \notin older}

\* Mutant of RoomForCounter: sweeps, but evicts nothing.
RoomBySweepOnly ==
    IF Cardinality(CountersIn(counters)) < MaxEntries THEN counters ELSE SweepCounters

\* At the cap: sweep, and if that is not enough drop the oldest best-effort
\* counter.  The loop's budget of a tenth of the cap never runs out, because
\* the map is never past its cap and one deletion is enough.
RoomForCounter ==
    IF Cardinality(CountersIn(counters)) < MaxEntries THEN counters
    ELSE IF Cardinality(CountersIn(SweepCounters)) < MaxEntries THEN SweepCounters
    ELSE Without(SweepCounters, OldestUnprotected(SweepCounters))

\* Deleting a key takes it out of the order; setting a present key leaves it
\* where it is; setting an absent one appends it.
OrderWith(map, key) ==
    {pair \in older : {pair[1], pair[2]} \subseteq CountersIn(map)}
        \cup (IF key \in CountersIn(map) THEN {} ELSE CountersIn(map) \X {key})

CountAgain(key, failClosed) ==
    /\ counters[key].expiresAt >= now
    /\ counters[key].count < MaxCount
    /\ counters' = [counters EXCEPT ![key].failClosed = @ \/ failClosed,
                                    ![key].count = @ + 1]
    /\ Returns("increment", "counted", counters[key].count + 1)
    /\ UNCHANGED older

\* Full of live protected counters: the call throws.
CountFull(key) ==
    /\ counters[key].expiresAt < now
    /\ Cardinality(CountersIn(RoomForCounter)) >= MaxEntries
    /\ counters' = RoomForCounter
    /\ older' = {pair \in older : {pair[1], pair[2]} \subseteq CountersIn(RoomForCounter)}
    /\ Returns("increment", "failed", 0)

CountFirst(key, ttl, failClosed) ==
    /\ counters[key].expiresAt < now
    /\ Cardinality(CountersIn(RoomForCounter)) < MaxEntries
    /\ counters' = [RoomForCounter EXCEPT
                      ![key] = [expiresAt |-> now + Lifetime(ttl), count |-> 1,
                                failClosed |-> failClosed]]
    /\ older' = OrderWith(RoomForCounter, key)
    /\ Returns("increment", "counted", 1)

Increment(key, ttl, failClosed) ==
    /\ \/ CountAgain(key, failClosed)
       \/ CountFull(key)
       \/ CountFirst(key, ttl, failClosed)
    /\ UNCHANGED <<now, claims>>

--------------------------------------------------------------------------------

Tick ==
    /\ now < MaxTime
    /\ now' = now + 1
    /\ reply' = NoReply
    /\ UNCHANGED <<claims, counters, older>>

StoreNext ==
    \/ \E id \in Ids, ttl \in Ttls : Claim(id, ttl)
    \/ \E id \in Ids : Has(id)
    \/ \E key \in Keys, ttl \in Ttls, failClosed \in BOOLEAN :
          Increment(key, ttl, failClosed)
    \/ Tick

StoreSpec == StoreInit /\ [][StoreNext]_storeVars

--------------------------------------------------------------------------------
(* Properties *)

\* The maps, the order and the clock have the shapes the code gives them.
TypeOK ==
    /\ now \in 1..MaxTime
    /\ claims \in [Ids -> 0..Horizon]
    /\ counters \in [Keys -> Counters]
    /\ older \subseteq Keys \X Keys
    /\ reply \in Replies

\* Neither map ever holds more than STATE_STORE_MAX_ENTRIES records
\* (src/store/index.js:37-40), whatever is claimed and counted.
Bounded ==
    /\ Cardinality(ClaimsIn(claims)) <= MaxEntries
    /\ Cardinality(CountersIn(counters)) <= MaxEntries

\* A call throws only at a map that holds its cap of records, each of them live,
\* and for a counter only when every one of them is protected as well: expired
\* records, best-effort counters and a map with a place left never cause an
\* outage (src/store/index.js:26-40, 76-81, 108-112).
ThrowsOnlyWhenFull ==
    [][/\ reply'.op = "claim" /\ reply'.result = "failed" =>
             /\ Cardinality(ClaimsIn(claims')) >= MaxEntries
             /\ \A id \in ClaimsIn(claims') : claims[id] >= now
       /\ reply'.op = "increment" /\ reply'.result = "failed" =>
             /\ Cardinality(CountersIn(counters')) >= MaxEntries
             /\ \A key \in CountersIn(counters') :
                   counters[key].expiresAt >= now /\ counters[key].failClosed]_storeVars

\* An expired record still in a map is no longer held as far as the promise is
\* concerned.
LiveClaims == [id \in Ids |-> IF claims[id] >= now THEN claims[id] ELSE 0]

LiveCounters ==
    [key \in Keys |-> IF counters[key].expiresAt >= now THEN counters[key] ELSE NoCounter]

Promise == INSTANCE ClaimStore WITH held <- LiveClaims, counted <- LiveCounters

\* The store keeps the promise of ClaimStore (src/store/index.js:10-24): a claim
\* lives as long as was asked for, a counter until its deadline, sweeps take away
\* nothing that is live, and evictions only best-effort counters.
KeepsPromise == Promise!Spec
================================================================================
