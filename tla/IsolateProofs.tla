------------------------------ MODULE IsolateProofs ------------------------------
(***************************************************************************)
(* What a process or an isolate keeps for itself: proofs about the store in *)
(* its memory (MemoryStore), for any set of identifiers and keys (they need *)
(* not be finite: the maps are), any lifetimes and any cap; and about the   *)
(* slot its first requests fill (Startup), for any environments, requests  *)
(* and questions and any number of boots and tokens.                       *)
(***************************************************************************)
EXTENDS MemoryStore, Startup, FiniteSetTheorems, TLAPS

\* A lifetime is at least a second and at most the longest that is asked for.
LEMMA LifetimeBounds ==
    ASSUME NEW ttl \in Ttls
    PROVE  Lifetime(ttl) \in 1..MaxTtl /\ ttl <= Lifetime(ttl)
  BY StoreAssumption DEF Lifetime

\* A deadline lies within the horizon.
LEMMA DeadlineBounds ==
    ASSUME TypeOK, NEW ttl \in Ttls
    PROVE  now + Lifetime(ttl) \in 0..Horizon
  BY LifetimeBounds, StoreAssumption DEF TypeOK, Horizon

--------------------------------------------------------------------------------
(* Type correctness *)

\* Sweeping and evicting leave the maps well-formed.
LEMMA RoomType ==
    ASSUME TypeOK
    PROVE  /\ RoomForClaim \in [Ids -> 0..Horizon]
           /\ SweepCounters \in [Keys -> Counters]
           /\ RoomForCounter \in [Keys -> Counters]
  <1>1. SweepClaims \in [Ids -> 0..Horizon]
    BY StoreAssumption DEF TypeOK, SweepClaims, Horizon
  <1>2. NoCounter \in Counters
    BY StoreAssumption DEF NoCounter, Counters, Horizon
  <1>3. ASSUME NEW map \in [Keys -> Counters], NEW gone
        PROVE  Without(map, gone) \in [Keys -> Counters]
    BY <1>2 DEF Without
  <1>4. SweepCounters \in [Keys -> Counters]
    BY <1>3 DEF TypeOK, SweepCounters
  <1> QED
    BY <1>1, <1>3, <1>4 DEF TypeOK, RoomForClaim, RoomForCounter

\* The initial maps are empty.
LEMMA TypeInitially == StoreInit => TypeOK
  BY StoreAssumption DEF StoreInit, TypeOK, NoCounter, Counters, NoReply, Replies, Horizon

\* Every operation leaves the state well-formed.
LEMMA TypeStep == TypeOK /\ [StoreNext]_storeVars => TypeOK'
  <1> SUFFICES ASSUME TypeOK, [StoreNext]_storeVars PROVE TypeOK'
    OBVIOUS
  <1>1. ASSUME NEW id \in Ids, NEW ttl \in Ttls, Claim(id, ttl)
        PROVE  TypeOK'
    <2>1. claims' \in [Ids -> 0..Horizon]
      BY <1>1, RoomType, DeadlineBounds
         DEF Claim, ClaimRefused, ClaimFull, ClaimGranted, TypeOK
    <2>2. reply' \in Replies
      BY <1>1, StoreAssumption
         DEF Claim, ClaimRefused, ClaimFull, ClaimGranted, Returns, Replies
    <2> QED
      BY <1>1, <2>1, <2>2 DEF Claim, TypeOK
  <1>2. ASSUME NEW id \in Ids, Has(id)
        PROVE  TypeOK'
    <2>1. claims' \in [Ids -> 0..Horizon]
      BY <1>2, StoreAssumption DEF Has, TypeOK, Horizon
    <2>2. reply' \in Replies
      BY <1>2, StoreAssumption DEF Has, Returns, Replies
    <2> QED
      BY <1>2, <2>1, <2>2 DEF Has, TypeOK
  <1>3. ASSUME NEW key \in Keys, NEW ttl \in Ttls, NEW failClosed \in BOOLEAN,
               Increment(key, ttl, failClosed)
        PROVE  TypeOK'
    <2>1. CASE CountAgain(key, failClosed)
      <3>1. /\ counters[key] \in Counters
            /\ counters[key].count + 1 \in 0..MaxCount
            /\ (counters[key].failClosed \/ failClosed) \in BOOLEAN
        BY <2>1, StoreAssumption DEF CountAgain, TypeOK, Counters
      <3>2. counters' \in [Keys -> Counters]
        BY <2>1, <3>1 DEF CountAgain, TypeOK, Counters
      <3>3. reply' \in Replies
        BY <2>1, <3>1 DEF CountAgain, Returns, Replies
      <3> QED
        BY <1>3, <2>1, <3>2, <3>3 DEF Increment, CountAgain, TypeOK
    <2>2. CASE CountFull(key)
      <3>1. reply' \in Replies
        BY <2>2, StoreAssumption DEF CountFull, Returns, Replies
      <3> QED
        BY <1>3, <2>2, <3>1, RoomType DEF Increment, CountFull, TypeOK
    <2>3. CASE CountFirst(key, ttl, failClosed)
      <3>1. [expiresAt |-> now + Lifetime(ttl), count |-> 1, failClosed |-> failClosed]
               \in Counters
        BY DeadlineBounds, StoreAssumption DEF Counters
      <3>2. counters' \in [Keys -> Counters]
        BY <2>3, <3>1, RoomType DEF CountFirst
      <3>3. reply' \in Replies
        BY <2>3, StoreAssumption DEF CountFirst, Returns, Replies
      <3>4. older' \subseteq Keys \X Keys
        BY <2>3 DEF CountFirst, OrderWith, CountersIn, TypeOK
      <3> QED
        BY <1>3, <3>2, <3>3, <3>4 DEF Increment, TypeOK
    <2> QED
      BY <1>3, <2>1, <2>2, <2>3 DEF Increment
  <1>4. ASSUME Tick
        PROVE  TypeOK'
    BY <1>4, StoreAssumption DEF Tick, TypeOK, NoReply, Replies
  <1>5. ASSUME UNCHANGED storeVars
        PROVE  TypeOK'
    BY <1>5 DEF storeVars, TypeOK
  <1> QED
    BY <1>1, <1>2, <1>3, <1>4, <1>5 DEF StoreNext

\* Every sequence of operations keeps both maps, the order and the clock well-formed.
THEOREM TypeCorrect == StoreSpec => []TypeOK
  BY TypeInitially, TypeStep, PTL DEF StoreSpec

--------------------------------------------------------------------------------
(* The cap *)

\* Both maps are finite, whatever Ids and Keys are.
Finite == IsFiniteSet(ClaimsIn(claims)) /\ IsFiniteSet(CountersIn(counters))

BoundedInv == TypeOK /\ Finite /\ Bounded

\* Making room only takes entries away.
LEMMA RoomShrinks ==
    ASSUME TypeOK
    PROVE  /\ ClaimsIn(RoomForClaim) \subseteq ClaimsIn(claims)
           /\ CountersIn(SweepCounters) \subseteq CountersIn(counters)
           /\ CountersIn(RoomForCounter) \subseteq CountersIn(counters)
  <1>1. ClaimsIn(RoomForClaim) \subseteq ClaimsIn(claims)
    BY DEF ClaimsIn, RoomForClaim, SweepClaims
  <1>2. ASSUME NEW map, NEW gone
        PROVE  CountersIn(Without(map, gone)) \subseteq CountersIn(map)
    BY DEF CountersIn, Without
  <1>3. CountersIn(SweepCounters) \subseteq CountersIn(counters)
    BY <1>2 DEF SweepCounters
  <1>4. CountersIn(RoomForCounter) \subseteq CountersIn(counters)
    BY <1>2, <1>3 DEF RoomForCounter
  <1> QED
    BY <1>1, <1>3, <1>4

\* Every operation keeps both maps finite and within the cap.
LEMMA BoundedStep == BoundedInv /\ [StoreNext]_storeVars => BoundedInv'
  <1> SUFFICES ASSUME BoundedInv, [StoreNext]_storeVars PROVE BoundedInv'
    OBVIOUS
  <1>t. TypeOK /\ TypeOK' /\ Finite /\ Bounded
    BY TypeStep DEF BoundedInv
  <1>m. MaxEntries \in Nat
    BY StoreAssumption
  <1> DEFINE OkClaims(map) == IsFiniteSet(ClaimsIn(map)) /\ Cardinality(ClaimsIn(map)) <= MaxEntries
             OkCounters(map) == IsFiniteSet(CountersIn(map)) /\ Cardinality(CountersIn(map)) <= MaxEntries
  <1>c. OkClaims(claims) /\ OkCounters(counters)
    BY <1>t DEF Finite, Bounded
  <1>d. SUFFICES OkClaims(claims') /\ OkCounters(counters')
    BY <1>t DEF BoundedInv, Finite, Bounded
  \* A smaller map is as good, and so is one with a single entry more than a map
  \* that has room.
  <1>s. ASSUME NEW S, NEW T, IsFiniteSet(S), Cardinality(S) <= MaxEntries, T \subseteq S
        PROVE  IsFiniteSet(T) /\ Cardinality(T) <= MaxEntries
    BY <1>s, <1>m, FS_Subset, FS_CardinalityType
  <1>a. ASSUME NEW S, NEW T, NEW x, IsFiniteSet(S), Cardinality(S) < MaxEntries,
               T \subseteq S \cup {x}
        PROVE  IsFiniteSet(T) /\ Cardinality(T) <= MaxEntries
    <2>1. IsFiniteSet(S \cup {x}) /\ Cardinality(S \cup {x}) <= MaxEntries
      <3>1. Cardinality(S) \in Nat
        BY <1>a, FS_CardinalityType
      <3>2. /\ IsFiniteSet(S \cup {x})
            /\ Cardinality(S \cup {x}) = IF x \in S THEN Cardinality(S) ELSE Cardinality(S) + 1
        BY <1>a, FS_AddElement
      <3> QED
        BY <1>a, <1>m, <3>1, <3>2
    <2> QED
      BY <1>a, <2>1, <1>s
  <1>1. ASSUME NEW id \in Ids, NEW ttl \in Ttls, Claim(id, ttl)
        PROVE  OkClaims(claims') /\ OkCounters(counters')
    <2>1. CASE ClaimRefused(id)
      BY <1>1, <1>c, <2>1 DEF Claim, ClaimRefused
    <2>2. CASE ClaimFull(id)
      BY <1>1, <1>c, <1>s, <1>t, <2>2, RoomShrinks DEF Claim, ClaimFull
    <2>3. CASE ClaimGranted(id, ttl)
      <3>1. ClaimsIn(claims') \subseteq ClaimsIn(RoomForClaim) \cup {id}
        BY <2>3, RoomType, <1>t DEF ClaimGranted, ClaimsIn
      <3>2. IsFiniteSet(ClaimsIn(RoomForClaim))
        BY <1>c, <1>s, <1>t, RoomShrinks
      <3> QED
        BY <1>1, <1>c, <1>a, <2>3, <3>1, <3>2 DEF Claim, ClaimGranted
    <2> QED
      BY <1>1, <2>1, <2>2, <2>3 DEF Claim
  <1>2. ASSUME NEW id \in Ids, Has(id)
        PROVE  OkClaims(claims') /\ OkCounters(counters')
    <2>1. ClaimsIn(claims') \subseteq ClaimsIn(claims)
      BY <1>2, <1>t DEF Has, ClaimsIn, TypeOK
    <2> QED
      BY <1>2, <1>c, <1>s, <2>1 DEF Has
  <1>3. ASSUME NEW key \in Keys, NEW ttl \in Ttls, NEW failClosed \in BOOLEAN,
               Increment(key, ttl, failClosed)
        PROVE  OkClaims(claims') /\ OkCounters(counters')
    <2>1. CASE CountAgain(key, failClosed)
      <3>1. counters[key] # NoCounter
        BY <2>1, <1>t, StoreAssumption DEF CountAgain, NoCounter, TypeOK
      <3>2. CountersIn(counters') \subseteq CountersIn(counters)
        BY <2>1, <3>1, <1>t DEF CountAgain, CountersIn, TypeOK
      <3> QED
        BY <1>3, <1>c, <1>s, <3>2 DEF Increment
    <2>2. CASE CountFull(key)
      BY <1>3, <1>c, <1>s, <1>t, <2>2, RoomShrinks DEF Increment, CountFull
    <2>3. CASE CountFirst(key, ttl, failClosed)
      <3>1. CountersIn(counters') \subseteq CountersIn(RoomForCounter) \cup {key}
        BY <2>3, RoomType, <1>t DEF CountFirst, CountersIn
      <3>2. IsFiniteSet(CountersIn(RoomForCounter))
        BY <1>c, <1>s, <1>t, RoomShrinks
      <3> QED
        BY <1>3, <1>c, <1>a, <2>3, <3>1, <3>2 DEF Increment, CountFirst
    <2> QED
      BY <1>3, <2>1, <2>2, <2>3 DEF Increment
  <1>4. ASSUME Tick \/ UNCHANGED storeVars
        PROVE  OkClaims(claims') /\ OkCounters(counters')
    BY <1>4, <1>c DEF Tick, storeVars
  <1> QED
    BY <1>1, <1>2, <1>3, <1>4 DEF StoreNext

\* The empty maps are finite and within the cap.
LEMMA BoundedInitially == StoreInit => BoundedInv
  <1> SUFFICES ASSUME StoreInit PROVE BoundedInv
    OBVIOUS
  <1>1. ClaimsIn(claims) = {} /\ CountersIn(counters) = {}
    BY DEF StoreInit, ClaimsIn, CountersIn
  <1> QED
    BY <1>1, TypeInitially, FS_EmptySet, StoreAssumption DEF BoundedInv, Finite, Bounded

\* No sequence of claims and counts drives either map past the cap.
THEOREM AlwaysBounded == StoreSpec => []Bounded
  BY BoundedInitially, BoundedStep, PTL DEF StoreSpec, BoundedInv

--------------------------------------------------------------------------------
(* The promise *)

\* Sweeping touches nothing that is live.
LEMMA SweepKeepsLive ==
    ASSUME TypeOK
    PROVE  /\ [id \in Ids |-> IF RoomForClaim[id] >= now THEN RoomForClaim[id] ELSE 0] = LiveClaims
           /\ [key \in Keys |-> IF SweepCounters[key].expiresAt >= now
                                THEN SweepCounters[key] ELSE NoCounter] = LiveCounters
  <1>1. \A id \in Ids : claims[id] \in Nat /\ now \in Nat \ {0}
    BY StoreAssumption DEF TypeOK, Horizon
  <1>2. \A key \in Keys : counters[key].expiresAt \in Nat
    BY StoreAssumption DEF TypeOK, Counters, Horizon
  <1>3. now \in Nat \ {0} /\ ~(NoCounter.expiresAt >= now)
    BY StoreAssumption DEF TypeOK, NoCounter
  <1>4. \A id \in Ids : (IF RoomForClaim[id] >= now THEN RoomForClaim[id] ELSE 0)
                           = IF claims[id] >= now THEN claims[id] ELSE 0
    BY <1>1 DEF RoomForClaim, SweepClaims
  <1>5. \A key \in Keys : (IF SweepCounters[key].expiresAt >= now THEN SweepCounters[key] ELSE NoCounter)
                             = IF counters[key].expiresAt >= now THEN counters[key] ELSE NoCounter
    BY <1>2, <1>3 DEF SweepCounters, Without
  <1> QED
    BY <1>4, <1>5 DEF LiveClaims, LiveCounters

\* A count that throws has evicted nothing: had it evicted an entry there would
\* have been room.
LEMMA FullEvictsNothing ==
    ASSUME BoundedInv, Cardinality(CountersIn(RoomForCounter)) >= MaxEntries
    PROVE  RoomForCounter = SweepCounters
  <1>t. TypeOK /\ Finite /\ Bounded /\ MaxEntries \in Nat
    BY StoreAssumption DEF BoundedInv
  <1>1. IsFiniteSet(CountersIn(SweepCounters)) /\ Cardinality(CountersIn(SweepCounters)) <= MaxEntries
    BY <1>t, RoomShrinks, FS_Subset, FS_CardinalityType DEF Finite, Bounded
  <1>2. CASE ~(Cardinality(CountersIn(counters)) < MaxEntries)
    <2> DEFINE gone == OldestUnprotected(SweepCounters)
               less == CountersIn(Without(SweepCounters, gone))
    <2>1. CASE Cardinality(CountersIn(SweepCounters)) < MaxEntries
      BY <1>2, <2>1 DEF RoomForCounter
    <2>2. CASE ~(Cardinality(CountersIn(SweepCounters)) < MaxEntries)
      <3>1. RoomForCounter = Without(SweepCounters, gone)
        BY <1>2, <2>2 DEF RoomForCounter
      <3>2. less \subseteq CountersIn(SweepCounters)
        BY DEF CountersIn, Without
      <3>3. gone \subseteq CountersIn(SweepCounters) /\ gone \cap less = {}
        BY DEF OldestUnprotected, CountersIn, Without
      <3>4. IsFiniteSet(less) /\ Cardinality(less) <= Cardinality(CountersIn(SweepCounters))
            /\ (Cardinality(CountersIn(SweepCounters)) = Cardinality(less)
                  => CountersIn(SweepCounters) = less)
        BY <1>1, <3>2, FS_Subset
      <3>5. Cardinality(less) \in Nat /\ Cardinality(CountersIn(SweepCounters)) \in Nat
        BY <1>1, <3>4, FS_CardinalityType
      <3>6. Cardinality(less) >= MaxEntries
        BY <3>1
      <3> HIDE DEF less
      <3>7. CountersIn(SweepCounters) = less
        BY <1>t, <1>1, <3>4, <3>5, <3>6
      <3>8. gone = {}
        BY <3>3, <3>7
      <3>9. Without(SweepCounters, {}) = SweepCounters
        BY <1>t, RoomType DEF Without
      <3> QED
        BY <3>1, <3>8, <3>9
    <2> QED
      BY <2>1, <2>2
  <1>3. CASE Cardinality(CountersIn(counters)) < MaxEntries
    <2>1. RoomForCounter = counters
      BY <1>3 DEF RoomForCounter
    <2>2. Cardinality(CountersIn(counters)) \in Nat
      BY <1>t, FS_CardinalityType DEF Finite
    <2> QED
      BY <1>3, <1>t, <2>1, <2>2
  <1> QED
    BY <1>2, <1>3

\* Every step of the store is a step of the promise, or changes nothing it speaks of.
LEMMA PromiseStep == BoundedInv /\ [StoreNext]_storeVars => [Promise!Next]_(Promise!vars)
  <1> SUFFICES ASSUME BoundedInv, [StoreNext]_storeVars PROVE [Promise!Next]_(Promise!vars)
    OBVIOUS
  <1>t. TypeOK /\ now \in Nat \ {0}
    BY StoreAssumption DEF BoundedInv, TypeOK
  <1>n. NoCounter = Promise!NoCount
    BY DEF NoCounter, Promise!NoCount
  <1>c. \A id \in Ids : claims[id] \in Nat
    BY <1>t, StoreAssumption DEF TypeOK, Horizon
  <1>k. \A key \in Keys : counters[key] \in Counters /\ counters[key].expiresAt \in Nat
    BY <1>t, StoreAssumption DEF TypeOK, Counters, Horizon
  <1>r. RoomForClaim \in [Ids -> 0..Horizon] /\ RoomForCounter \in [Keys -> Counters]
    BY <1>t, RoomType
  <1>1. ASSUME NEW id \in Ids, NEW ttl \in Ttls, Claim(id, ttl)
        PROVE  Promise!Claim(id, ttl)
    <2>1. UNCHANGED <<now, counters>> /\ LiveCounters' = LiveCounters
      BY <1>1 DEF Claim, LiveCounters
    <2>2. CASE ClaimRefused(id)
      <3>1. LiveClaims[id] # 0
        BY <2>2, <1>t, <1>c DEF ClaimRefused, LiveClaims
      <3>2. LiveClaims' = LiveClaims
        BY <2>1, <2>2 DEF ClaimRefused, LiveClaims
      <3> QED
        BY <2>1, <2>2, <3>1, <3>2 DEF ClaimRefused, Returns, Promise!Claim, Promise!Answer
    <2>3. CASE ClaimFull(id)
      <3>1. LiveClaims' = LiveClaims
        BY <1>t, <2>1, <2>3, SweepKeepsLive DEF ClaimFull, LiveClaims
      <3> QED
        BY <2>1, <2>3, <3>1 DEF ClaimFull, Returns, Promise!Claim, Promise!Answer
    <2>4. CASE ClaimGranted(id, ttl)
      <3> DEFINE deadline == now + Lifetime(ttl)
      <3>1. LiveClaims[id] = 0
        BY <2>4, <1>t, <1>c DEF ClaimGranted, LiveClaims
      <3>2. deadline \in (now + ttl) .. Horizon /\ deadline \in Nat /\ deadline >= now
        BY <1>t, LifetimeBounds, DeadlineBounds, StoreAssumption DEF Horizon
      <3>3. claims' = [RoomForClaim EXCEPT ![id] = deadline]
        BY <2>4 DEF ClaimGranted
      <3> HIDE DEF deadline
      <3>4. LiveClaims' = [[i \in Ids |-> IF RoomForClaim[i] >= now THEN RoomForClaim[i] ELSE 0]
                              EXCEPT ![id] = deadline]
        BY <1>r, <2>1, <3>2, <3>3 DEF LiveClaims
      <3>5. LiveClaims' = [LiveClaims EXCEPT ![id] = deadline]
        BY <1>t, <3>4, SweepKeepsLive
      <3> QED
        BY <2>1, <2>4, <3>1, <3>2, <3>5 DEF ClaimGranted, Returns, Promise!Claim, Promise!Answer
    <2> QED
      BY <1>1, <2>2, <2>3, <2>4 DEF Claim
  <1>2. ASSUME NEW id \in Ids, Has(id)
        PROVE  Promise!Has(id)
    <2>1. LiveCounters' = LiveCounters /\ LiveClaims' = LiveClaims
      BY <1>2, <1>t, <1>c DEF Has, LiveCounters, LiveClaims, TypeOK
    <2>2. LiveClaims[id] # 0 <=> ~(claims[id] < now)
      BY <1>t, <1>c DEF LiveClaims
    <2> QED
      BY <1>2, <2>1, <2>2 DEF Has, Returns, Promise!Has, Promise!Answer
  <1>3. ASSUME NEW key \in Keys, NEW ttl \in Ttls, NEW failClosed \in BOOLEAN,
               Increment(key, ttl, failClosed)
        PROVE  Promise!Increment(key, ttl, failClosed)
    <2>1. UNCHANGED <<now, claims>> /\ LiveClaims' = LiveClaims
      BY <1>3 DEF Increment, LiveClaims
    <2>2. CASE CountAgain(key, failClosed)
      <3>1. LiveCounters[key] = counters[key] /\ counters[key] # NoCounter
        BY <2>2, <1>t, <1>k DEF CountAgain, LiveCounters, NoCounter
      <3>2. LiveCounters' = [LiveCounters EXCEPT ![key].count = @ + 1,
                                                 ![key].failClosed = @ \/ failClosed]
        BY <2>1, <2>2, <3>1, <1>t, <1>k DEF CountAgain, LiveCounters, TypeOK, Counters
      <3> QED
        BY <2>1, <2>2, <3>1, <3>2, <1>n DEF CountAgain, Returns, Promise!Increment, Promise!Answer
    <2>3. CASE CountFull(key)
      <3>1. counters' = SweepCounters
        BY <2>3, FullEvictsNothing DEF CountFull
      <3>2. LiveCounters' = LiveCounters
        BY <1>t, <2>1, <3>1, SweepKeepsLive DEF LiveCounters
      <3> QED
        BY <2>1, <2>3, <3>2 DEF CountFull, Returns, Promise!Increment, Promise!Answer
    <2>4. CASE CountFirst(key, ttl, failClosed)
      <3> DEFINE deadline == now + Lifetime(ttl)
                 entry == [expiresAt |-> deadline, count |-> 1, failClosed |-> failClosed]
                 lost == {k \in Keys : LiveCounters[k] # NoCounter /\ RoomForCounter[k] = NoCounter}
      <3>1. deadline \in (now + ttl) .. Horizon /\ deadline >= now
        BY <1>t, LifetimeBounds, DeadlineBounds, StoreAssumption DEF Horizon
      <3>2. LiveCounters[key] = NoCounter
        BY <2>4, <1>t, <1>k DEF CountFirst, LiveCounters
      <3>3. \A k \in Keys : SweepCounters[k] = LiveCounters[k]
        BY <1>t, <1>k DEF SweepCounters, Without, LiveCounters
      <3>4. lost \in SUBSET Promise!Forgettable
        <4> SUFFICES ASSUME NEW k \in Keys, LiveCounters[k] # NoCounter, RoomForCounter[k] = NoCounter
                     PROVE  ~LiveCounters[k].failClosed
          BY DEF Promise!Forgettable
        <4>1. counters[k] # NoCounter /\ SweepCounters[k] # NoCounter
          BY <3>3 DEF LiveCounters
        <4>2. k \in OldestUnprotected(SweepCounters)
          BY <4>1 DEF RoomForCounter, Without
        <4> QED
          BY <3>3, <4>2 DEF OldestUnprotected
      <3>5. \A k \in Keys : RoomForCounter[k] \in {counters[k], SweepCounters[k], NoCounter}
        BY DEF RoomForCounter, Without
      <3>6. \A k \in Keys : k # key =>
               (IF RoomForCounter[k].expiresAt >= now THEN RoomForCounter[k] ELSE NoCounter)
                  = IF k \in lost THEN NoCounter ELSE LiveCounters[k]
        <4> SUFFICES ASSUME NEW k \in Keys
                     PROVE  (IF RoomForCounter[k].expiresAt >= now THEN RoomForCounter[k] ELSE NoCounter)
                               = IF k \in lost THEN NoCounter ELSE LiveCounters[k]
          OBVIOUS
        <4>1. ~(NoCounter.expiresAt >= now)
          BY <1>t DEF NoCounter
        <4>2. CASE RoomForCounter[k] = NoCounter
          BY <4>1, <4>2
        <4>3. CASE RoomForCounter[k] # NoCounter
          <5>1. CASE RoomForCounter[k] = counters[k]
            BY <4>3, <5>1 DEF LiveCounters
          <5>2. CASE RoomForCounter[k] = SweepCounters[k]
            BY <3>3, <4>3, <5>2, <4>1 DEF LiveCounters
          <5> QED
            BY <3>5, <4>3, <5>1, <5>2
        <4> QED
          BY <4>2, <4>3
      <3>7. counters' = [RoomForCounter EXCEPT ![key] = entry]
        BY <2>4 DEF CountFirst
      <3>8. entry.expiresAt >= now
        BY <3>1
      <3> HIDE DEF entry, lost
      <3>9. LiveCounters' = [k \in Keys |-> IF k = key THEN entry
                                            ELSE IF k \in lost THEN NoCounter ELSE LiveCounters[k]]
        BY <1>r, <2>1, <3>6, <3>7, <3>8 DEF LiveCounters
      <3>10. reply' = [op |-> "increment", result |-> "counted", count |-> 1]
        BY <2>4 DEF CountFirst, Returns
      <3> HIDE DEF deadline
      <3> QED
        BY <2>1, <3>1, <3>2, <3>4, <3>9, <3>10, <1>n DEF entry, Promise!Increment, Promise!Answer
    <2> QED
      BY <1>3, <2>2, <2>3, <2>4 DEF Increment
  <1>4. ASSUME Tick
        PROVE  Promise!Tick
    <2>1. LiveClaims' = [id \in Ids |-> IF LiveClaims[id] < now + 1 THEN 0 ELSE LiveClaims[id]]
      BY <1>4, <1>t, <1>c DEF Tick, LiveClaims
    <2>2. ~(NoCounter.expiresAt >= now) /\ ~(NoCounter.expiresAt >= now + 1)
          /\ NoCounter.expiresAt < now + 1
      BY <1>t DEF NoCounter
    <2>3. \A key \in Keys :
            (IF counters[key].expiresAt >= now + 1 THEN counters[key] ELSE NoCounter)
              = IF LiveCounters[key].expiresAt < now + 1 THEN NoCounter ELSE LiveCounters[key]
      BY <1>t, <1>k, <2>2 DEF LiveCounters
    <2>4. LiveCounters' = [key \in Keys |->
            IF LiveCounters[key].expiresAt < now + 1 THEN NoCounter ELSE LiveCounters[key]]
      BY <1>4, <2>3 DEF Tick, LiveCounters
    <2> QED
      BY <1>4, <2>1, <2>4, <1>n DEF Tick, NoReply, Promise!Tick, Promise!NoReply
  <1>5. ASSUME UNCHANGED storeVars
        PROVE  UNCHANGED Promise!vars
    BY <1>5 DEF storeVars, Promise!vars, LiveClaims, LiveCounters
  <1> QED
    BY <1>1, <1>2, <1>3, <1>4, <1>5 DEF StoreNext, Promise!Next

\* The store implements ClaimStore, for any cap, lifetimes, identifiers and keys.
THEOREM Implements == StoreSpec => KeepsPromise
  <1>1. StoreInit => Promise!Init
    <2> SUFFICES ASSUME StoreInit PROVE Promise!Init
      OBVIOUS
    <2>1. LiveClaims = [id \in Ids |-> 0]
      BY DEF StoreInit, LiveClaims
    <2>2. LiveCounters = [key \in Keys |-> NoCounter]
      BY DEF StoreInit, LiveCounters, NoCounter
    <2> QED
      BY <2>1, <2>2 DEF StoreInit, NoCounter, NoReply, Promise!Init, Promise!NoCount, Promise!NoReply
  <1> QED
    BY <1>1, BoundedInitially, BoundedStep, PromiseStep, PTL DEF StoreSpec, KeepsPromise, Promise!Spec
--------------------------------------------------------------------------------
(* When a call throws *)

\* The insertion order is a strict order.
Ordered ==
    /\ \A k \in Keys : <<k, k>> \notin older
    /\ \A k, l, m \in Keys : <<k, l>> \in older /\ <<l, m>> \in older => <<k, m>> \in older

\* Deleting and appending keep it one.
LEMMA OrderedStep ==
    ASSUME TypeOK, Ordered, [StoreNext]_storeVars
    PROVE  Ordered'
  <1>1. ASSUME NEW map, NEW key \in Keys, older' = OrderWith(map, key)
        PROVE  Ordered'
    <2> DEFINE in == CountersIn(map)
    <2>0. in \subseteq Keys
      BY DEF CountersIn
    <2>1. \A k \in Keys, l \in Keys : <<k, l>> \in older' <=>
            \/ <<k, l>> \in older /\ k \in in /\ l \in in
            \/ k \in in /\ l = key /\ key \notin in
      BY <1>1 DEF OrderWith
    <2> HIDE DEF in
    <2> QED
      BY <2>0, <2>1 DEF Ordered
  <1>2. ASSUME NEW map, older' = {pair \in older : {pair[1], pair[2]} \subseteq CountersIn(map)}
        PROVE  Ordered'
    <2>1. \A k \in Keys, l \in Keys : <<k, l>> \in older' <=>
            <<k, l>> \in older /\ k \in CountersIn(map) /\ l \in CountersIn(map)
      BY <1>2
    <2> QED
      BY <2>1 DEF Ordered
  <1>3. CASE UNCHANGED older
    BY <1>3 DEF Ordered
  <1>4. ASSUME NEW key \in Keys, NEW ttl \in Ttls, NEW failClosed \in BOOLEAN,
               Increment(key, ttl, failClosed)
        PROVE  Ordered'
    BY <1>1, <1>2, <1>3, <1>4 DEF Increment, CountAgain, CountFull, CountFirst
  <1> QED
    BY <1>3, <1>4 DEF StoreNext, Claim, Has, Tick, storeVars

\* A finite set that is not empty has a first element in a strict order: one with
\* the least set of predecessors.
LEMMA FirstExists ==
    ASSUME NEW U, IsFiniteSet(U), U # {}, NEW before,
           \A k \in U : <<k, k>> \notin before,
           \A k, l, m \in U : <<k, l>> \in before /\ <<l, m>> \in before => <<k, m>> \in before
    PROVE  \E k \in U : \A o \in U : <<o, k>> \notin before
  <1> DEFINE Pred(k) == {o \in U : <<o, k>> \in before}
             Preds == {Pred(k) : k \in U}
  <1>1. Preds \subseteq FiniteSubsetsOf(U)
    BY FS_Subset DEF FiniteSubsetsOf
  <1>2. Preds # {}
    <2>1. PICK k : k \in U
      OBVIOUS
    <2>2. Pred(k) \in Preds
      BY <2>1
    <2> QED
      BY <2>2
  <1>3. \E x \in Preds : \A y \in Preds : ~(<<y, x>> \in StrictSubsetOrdering(U))
    <2> HIDE DEF Preds
    <2> QED
      BY <1>1, <1>2, FS_StrictSubsetOrderingWellFounded, WFMin
  <1>4. PICK k \in U : \A y \in Preds : ~(<<y, Pred(k)>> \in StrictSubsetOrdering(U))
    BY <1>3
  <1>5. ASSUME NEW o \in U, <<o, k>> \in before
        PROVE  FALSE
    <2>1. Pred(o) \in Preds
      OBVIOUS
    <2>2. Pred(o) \subseteq Pred(k) /\ o \in Pred(k) /\ o \notin Pred(o)
      BY <1>5
    <2>3. Pred(o) \in SUBSET U /\ Pred(k) \in SUBSET U /\ Pred(o) # Pred(k)
      BY <2>2
    <2>4. <<Pred(o), Pred(k)>> \in StrictSubsetOrdering(U)
      <3> HIDE DEF Pred
      <3> QED
        BY <2>2, <2>3 DEF StrictSubsetOrdering
    <2> QED
      BY <1>4, <2>1, <2>4
  <1> QED
    BY <1>5

\* When a count throws, everything that is not live has been swept, and nothing
\* was left to evict.
LEMMA FullOfProtected ==
    ASSUME BoundedInv, Ordered, Cardinality(CountersIn(RoomForCounter)) >= MaxEntries
    PROVE  \A key \in CountersIn(RoomForCounter) :
              counters[key].expiresAt >= now /\ counters[key].failClosed
  <1>t. TypeOK /\ Finite /\ Bounded /\ MaxEntries \in Nat
    BY StoreAssumption DEF BoundedInv
  <1>n. now \in Nat /\ \A key \in Keys : counters[key].expiresAt \in Nat
    BY <1>t, StoreAssumption DEF TypeOK, Counters, Horizon
  <1>1. RoomForCounter = SweepCounters
    BY FullEvictsNothing
  <1>2. \A key \in CountersIn(SweepCounters) :
           key \in Keys /\ counters[key].expiresAt >= now /\ SweepCounters[key] = counters[key]
    BY <1>n DEF CountersIn, SweepCounters, Without
  <1>3. RoomForCounter = Without(SweepCounters, OldestUnprotected(SweepCounters))
    <2>1. IsFiniteSet(CountersIn(counters)) /\ IsFiniteSet(CountersIn(SweepCounters))
      BY <1>t, RoomShrinks, FS_Subset DEF Finite
    <2>2. Cardinality(CountersIn(counters)) \in Nat /\ Cardinality(CountersIn(SweepCounters)) \in Nat
      BY <2>1, FS_CardinalityType
    <2>3. Cardinality(CountersIn(SweepCounters)) <= Cardinality(CountersIn(counters))
      BY <1>t, <2>1, RoomShrinks, FS_Subset
    <2>4. ~(Cardinality(CountersIn(SweepCounters)) < MaxEntries)
          /\ ~(Cardinality(CountersIn(counters)) < MaxEntries)
      BY <1>1, <1>t, <2>2, <2>3
    <2> QED
      BY <2>4 DEF RoomForCounter
  <1>4. OldestUnprotected(SweepCounters) = {}
    <2> SUFFICES ASSUME NEW key \in OldestUnprotected(SweepCounters)
                 PROVE  FALSE
      OBVIOUS
    <2>1. key \in Keys /\ SweepCounters[key] # NoCounter
      BY DEF OldestUnprotected, CountersIn
    <2>2. RoomForCounter[key] = NoCounter
      BY <1>3, <2>1 DEF Without
    <2> QED
      BY <1>1, <2>1, <2>2
  <1>5. SUFFICES ASSUME NEW key \in CountersIn(SweepCounters), ~counters[key].failClosed
                 PROVE  FALSE
    BY <1>1, <1>2
  <1> DEFINE U == {k \in CountersIn(SweepCounters) : ~SweepCounters[k].failClosed}
  <1>6. IsFiniteSet(U) /\ key \in U /\ U \subseteq Keys
    <2>1. U \subseteq CountersIn(counters) /\ U \subseteq Keys
      BY <1>t, RoomShrinks DEF CountersIn
    <2> QED
      BY <1>t, <1>2, <1>5, <2>1, FS_Subset DEF Finite
  <1>7. \E k \in U : \A o \in U : <<o, k>> \notin older
    <2> HIDE DEF U
    <2> QED
      BY <1>6, FirstExists DEF Ordered
  <1>8. \E k \in U : k \in OldestUnprotected(SweepCounters)
    BY <1>7 DEF OldestUnprotected
  <1> QED
    BY <1>4, <1>8

\* When a claim throws, everything that is not live has been swept.
LEMMA FullOfLive ==
    ASSUME BoundedInv, Cardinality(ClaimsIn(RoomForClaim)) >= MaxEntries
    PROVE  \A id \in ClaimsIn(RoomForClaim) : claims[id] >= now
  <1>t. TypeOK /\ Finite /\ MaxEntries \in Nat
    BY StoreAssumption DEF BoundedInv
  <1>1. Cardinality(ClaimsIn(claims)) \in Nat
    BY <1>t, FS_CardinalityType DEF Finite
  <1>2. RoomForClaim = SweepClaims
    BY <1>t, <1>1 DEF RoomForClaim
  <1>3. now \in Nat /\ \A id \in Ids : claims[id] \in Nat
    BY <1>t, StoreAssumption DEF TypeOK, Horizon
  <1> QED
    BY <1>2, <1>3 DEF ClaimsIn, SweepClaims

\* A call throws only at a map that holds its cap of records, all of them live,
\* and for a counter all of them protected as well: a sweep always finds the
\* expired ones, an eviction a best-effort counter when there is one
\* (src/store/index.js:57-120).
THEOREM OutageOnlyWhenFull == StoreSpec => ThrowsOnlyWhenFull
  <1> DEFINE Honest ==
        /\ reply'.op = "claim" /\ reply'.result = "failed" =>
             /\ Cardinality(ClaimsIn(claims')) >= MaxEntries
             /\ \A id \in ClaimsIn(claims') : claims[id] >= now
        /\ reply'.op = "increment" /\ reply'.result = "failed" =>
             /\ Cardinality(CountersIn(counters')) >= MaxEntries
             /\ \A key \in CountersIn(counters') :
                   counters[key].expiresAt >= now /\ counters[key].failClosed
  <1>1. ASSUME BoundedInv, Ordered, StoreNext
        PROVE  Honest
    <2>1. ASSUME NEW id \in Ids, NEW ttl \in Ttls, Claim(id, ttl)
          PROVE  Honest
      <3>1. CASE ClaimFull(id)
        BY <1>1, <3>1, FullOfLive DEF ClaimFull, Returns
      <3>2. CASE ClaimRefused(id) \/ ClaimGranted(id, ttl)
        BY <3>2 DEF ClaimRefused, ClaimGranted, Returns
      <3> QED
        BY <2>1, <3>1, <3>2 DEF Claim
    <2>2. ASSUME NEW id \in Ids, Has(id)
          PROVE  Honest
      BY <2>2 DEF Has, Returns
    <2>3. ASSUME NEW key \in Keys, NEW ttl \in Ttls, NEW failClosed \in BOOLEAN,
                 Increment(key, ttl, failClosed)
          PROVE  Honest
      <3>1. CASE CountFull(key)
        BY <1>1, <3>1, FullOfProtected DEF CountFull, Returns
      <3>2. CASE CountAgain(key, failClosed) \/ CountFirst(key, ttl, failClosed)
        BY <3>2 DEF CountAgain, CountFirst, Returns
      <3> QED
        BY <2>3, <3>1, <3>2 DEF Increment
    <2>4. CASE Tick
      BY <2>4 DEF Tick, NoReply
    <2> QED
      BY <1>1, <2>1, <2>2, <2>3, <2>4 DEF StoreNext
  <1>2. BoundedInv /\ Ordered /\ [StoreNext]_storeVars => [Honest]_storeVars
    BY <1>1
  <1>3. StoreInit => Ordered
    BY DEF StoreInit, Ordered
  <1>4. BoundedInv /\ Ordered /\ [StoreNext]_storeVars => Ordered'
    BY OrderedStep DEF BoundedInv
  <1> QED
    BY <1>2, <1>3, <1>4, BoundedInitially, BoundedStep, PTL DEF StoreSpec, ThrowsOnlyWhenFull

--------------------------------------------------------------------------------
(* Startup: what a configuration is *)

\* What EnvironmentsAssumption says of a bag, sealed or not.
WellFormed(e) ==
    /\ e \in Bags
    /\ e.set.secret \in Texts /\ e.set.previous \in Texts /\ e.set.salt \in Texts
    /\ e.set.code \in {"unset", "six", "twelve", "malformed"}
    /\ e.issuer = NoUrl \/ e.issuer.scheme \in {"http", "https"}
    /\ e.algs # <<>>

\* Unsealing changes nothing but the references.
LEMMA UnsealedIsWellFormed ==
    ASSUME NEW e \in Environments
    PROVE  /\ WellFormed(e) /\ WellFormed(Unsealed(e))
           /\ Unsealed(e).set = e.set /\ Unsealed(e).issuer = e.issuer
           /\ Unsealed(e).algs = e.algs /\ Unsealed(e).keyed = e.keyed
           /\ Unsealed(e).clients = e.clients /\ Unsealed(e).origins = e.origins
           /\ e.sealed = FALSE => Unsealed(e) = e
  <1>1. WellFormed(e)
    BY EnvironmentsAssumption DEF WellFormed
  <1>2. e \in Bags
    BY <1>1 DEF WellFormed
  <1>3. /\ Unsealed(e) \in Bags
        /\ Unsealed(e).set = e.set /\ Unsealed(e).issuer = e.issuer
        /\ Unsealed(e).algs = e.algs /\ Unsealed(e).keyed = e.keyed
        /\ Unsealed(e).clients = e.clients /\ Unsealed(e).origins = e.origins
    BY <1>2 DEF Bags, Unsealed
  <1>4. e.sealed = FALSE => Unsealed(e) = e
    BY <1>2 DEF Bags, Unsealed
  <1> QED
    BY <1>1, <1>3, <1>4 DEF WellFormed

\* A configuration that was read is made by the readers, in its own mode.
LEMMA ConfigRead ==
    ASSUME NEW e, NEW url, LoadConfig(e, url).loaded
    PROVE  LET c == LoadConfig(e, url)
           IN  /\ c.issuer = (IF e.issuer = NoUrl THEN url ELSE e.issuer)
               /\ c.derived = (e.issuer = NoUrl)
               /\ c.dev = DevMode(e, c.issuer)
               /\ c.secrets = Secrets(e, c.dev)
               /\ c.upstreams = ReadUpstreams(e)
               /\ c.clients = StaticClients(e, c.dev)
               /\ c.peers = ReadPeerJwksUrls(e, c.dev, c.issuer)
               /\ c.allowedOrigins = ReadCorsOrigins(e, c.dev, c.clients)
               /\ c.settings = Settings(e, c.dev)
               /\ c.problems = SecretProblems(e, c.dev) \cup SigningProblems(e, c.dev)
                               \cup SignInProblems(e, c.dev) \cup LocalProblems(e)
                               \cup TransportProblems(e, [url |-> c.issuer, derived |-> c.derived], c.dev)
                               \cup SettingProblems(e, c.dev)
               /\ ~Malformed(e) /\ ~e.sealed
  BY DEF LoadConfig, NoConfig, ResolveIssuer

\* A named issuer is the issuer, and one that is not derived was named.
LEMMA IssuerRead ==
    ASSUME NEW e, NEW url, LoadConfig(e, url).loaded
    PROVE  /\ e.issuer # NoUrl => LoadConfig(e, url).issuer = e.issuer
           /\ ~LoadConfig(e, url).derived => e.issuer # NoUrl
  BY ConfigRead

\* No problem of a kind is reported exactly when its condition does not hold.
LEMMA NoProblem == \A condition, name : If(condition, name) = {} <=> ~condition
  BY DEF If

\* The mode is a Boolean.
LEMMA OnIsBoolean ==
    ASSUME NEW e, NEW name, NEW fallback \in BOOLEAN
    PROVE  On(e, name, fallback) \in BOOLEAN
  BY DEF On

LEMMA DevIsBoolean ==
    ASSUME NEW e, NEW issuer
    PROVE  DevMode(e, issuer) \in BOOLEAN
  BY DEF On, DevMode
--------------------------------------------------------------------------------
(* Startup: the signers *)

\* Of the algorithms of a list that are built, one is first.
LEMMA FirstIsBuilt ==
    ASSUME NEW algs \in Seq(STRING), NEW built, NEW a \in built, a \in ToSet(algs)
    PROVE  /\ FirstOf(algs, built) \in built
           /\ algs[1] \in built => FirstOf(algs, built) = algs[1]
  <1> DEFINE places == {i \in 1..Len(algs) : algs[i] \in built}
             before == {p \in Int \X Int : p[1] < p[2]}
  <1>1. places # {}
    BY DEF ToSet
  <1>2. IsFiniteSet(places)
    BY FS_Interval, FS_Subset
  <1>3. \A i, j \in Int : <<i, j>> \in before <=> i < j
    OBVIOUS
  <1>4. places \subseteq Int
    OBVIOUS
  <1>5. \E i \in places : \A j \in places : <<j, i>> \notin before
    <2> HIDE DEF places, before
    <2>1. \A k \in places : <<k, k>> \notin before
      BY <1>3, <1>4
    <2>2. \A k, l, m \in places :
            <<k, l>> \in before /\ <<l, m>> \in before => <<k, m>> \in before
      BY <1>3, <1>4
    <2> QED
      BY <1>1, <1>2, <2>1, <2>2, FirstExists
  <1>6. PICK i \in places : \A j \in places : i <= j
    <2> HIDE DEF places, before
    <2>1. \A i, j \in places : <<j, i>> \notin before => i <= j
      BY <1>3, <1>4
    <2> QED
      BY <1>5, <2>1
  <1> DEFINE First(k) == algs[k] \in built /\ \A j \in DOMAIN algs : algs[j] \in built => k <= j
  <1>7. DOMAIN algs = 1..Len(algs)
    OBVIOUS
  <1>8. \E k \in DOMAIN algs : First(k)
    BY <1>6, <1>7
  <1>9. First(CHOOSE k \in DOMAIN algs : First(k)) /\ (CHOOSE k \in DOMAIN algs : First(k)) \in DOMAIN algs
    BY <1>8
  <1>10. FirstOf(algs, built) = algs[CHOOSE k \in DOMAIN algs : First(k)]
    BY DEF FirstOf
  <1> DEFINE first == CHOOSE k \in DOMAIN algs : First(k)
  <1>11. algs[1] \in built => first = 1
    <2>1. first \in 1..Len(algs) /\ (algs[1] \in built /\ 1 \in 1..Len(algs) => first <= 1)
      BY <1>7, <1>9
    <2> HIDE DEF first
    <2> QED
      BY <2>1
  <1> QED
    BY <1>9, <1>10, <1>11

\* A signer set that was made has a signer for its default algorithm, which is the
\* primary if that has one; and one key for each of its algorithms.
LEMMA SignerSetMade ==
    ASSUME NEW e, WellFormed(e), NEW n, CreateSignerSet(e, n).ok
    PROVE  LET s == CreateSignerSet(e, n)
           IN  /\ Algs(s) # {}
               /\ s.primaryAlg \in Algs(s)
               /\ Primary(e) \in Algs(s) => s.primaryAlg = Primary(e)
               /\ \A a \in Algs(s) : s.keys[a] = KeyOf(e, a, n)
               /\ Jwks(s) = {s.keys[a] : a \in Algs(s)}
  <1> DEFINE s == CreateSignerSet(e, n)
             built == {a \in Probed(e) : CreateSigner(e, a)}
  <1>1. /\ built # {}
        /\ s = [built |-> TRUE, ok |-> TRUE, primaryAlg |-> FirstOf(e.algs, built),
                keys |-> [a \in built |-> KeyOf(e, a, n)]]
    BY DEF CreateSignerSet, FailedSigners
  <1>2. Algs(s) = built /\ s.primaryAlg = FirstOf(e.algs, built)
    BY <1>1 DEF Algs
  <1>3. e.algs \in Seq(STRING)
    BY DEF WellFormed, Bags
  <1>4. PICK a \in built : a \in ToSet(e.algs)
    BY <1>1 DEF Probed
  <1>5. Primary(e) = e.algs[1]
    BY DEF WellFormed, Bags, Primary
  <1>6. s.primaryAlg \in built /\ (Primary(e) \in built => s.primaryAlg = Primary(e))
    <2> HIDE DEF built
    <2> QED
      BY <1>2, <1>3, <1>4, <1>5, FirstIsBuilt
  <1>7. \A x \in Algs(s) : s.keys[x] = KeyOf(e, x, n)
    BY <1>1, <1>2
  <1>8. Jwks(s) = {s.keys[x] : x \in Algs(s)}
    BY DEF Jwks, Range, Algs
  <1> QED
    BY <1>1, <1>2, <1>6, <1>7, <1>8

\* What can be made does not depend on when, and neither does a key that is configured.
LEMMA SignerSetsAgree ==
    ASSUME NEW e, WellFormed(e), NEW m, NEW n, CreateSignerSet(e, m).ok
    PROVE  /\ CreateSignerSet(e, n).ok
           /\ \A key \in Jwks(CreateSignerSet(e, m)) :
                 e.set.backend # "unset" \/ key.alg \in e.keyed
                   => key \in Jwks(CreateSignerSet(e, n))
  <1> DEFINE s == CreateSignerSet(e, m)
             t == CreateSignerSet(e, n)
  <1>1. t.ok /\ Algs(t) = Algs(s)
    BY DEF CreateSignerSet, FailedSigners, Algs
  <1>2. ASSUME NEW key \in Jwks(s), e.set.backend # "unset" \/ key.alg \in e.keyed
        PROVE  key \in Jwks(t)
    <2>1. PICK a \in Algs(s) : key = KeyOf(e, a, m)
      BY SignerSetMade
    <2>2. key = KeyOf(e, a, n)
      BY <1>2, <2>1 DEF KeyOf
    <2> QED
      BY <1>1, <2>1, <2>2, SignerSetMade
  <1> QED
    BY <1>1, <1>2

\* Whatever algorithm is asked for, what is selected is published; an algorithm that
\* has a signer selects a key.
LEMMA SelectedIsPublished ==
    ASSUME NEW e, WellFormed(e), NEW n, CreateSignerSet(e, n).ok, NEW alg
    PROVE  LET s == CreateSignerSet(e, n)
           IN  /\ Select(s, alg) \subseteq Jwks(s)
               /\ alg \in Algs(s) => Select(s, alg) # {}
  BY SignerSetMade DEF Select
--------------------------------------------------------------------------------
(* Startup: what the problems rule out *)

\* Sequences of one and of two elements.
LEMMA ShortSequences ==
    ASSUME NEW S, NEW x \in S, NEW y \in S
    PROVE  /\ <<x>> # <<>> /\ Head(<<x>>) = x /\ DOMAIN <<x>> = {1} /\ <<x>>[1] = x
           /\ <<x>> \o <<>> = <<x>>
           /\ LET both == <<x>> \o <<y>>
              IN  /\ both # <<>> /\ Head(both) = x /\ DOMAIN both = {1, 2}
                  /\ both[1] = x /\ both[2] = y
  OBVIOUS

\* Outside development, the current secret seals and every secret is long.
LEMMA SecretsAreLong ==
    ASSUME NEW e, WellFormed(e), SecretProblems(e, FALSE) = {}
    PROVE  LET secrets == Secrets(e, FALSE)
           IN  /\ secrets # <<>> /\ Head(secrets) = [of |-> "current", length |-> "long"]
               /\ \A i \in DOMAIN secrets : secrets[i].length = "long"
  <1> DEFINE current == [of |-> "current", length |-> "long"]
             previous == [of |-> "previous", length |-> "long"]
  <1>1. e.set.secret # "unset" /\ e.set.secret # "short" /\ e.set.previous # "short"
    BY NoProblem DEF SecretProblems
  <1>2. e.set.secret = "long" /\ e.set.previous \in {"unset", "long"}
    BY <1>1 DEF WellFormed, Texts
  <1>3. current.length = "long" /\ previous.length = "long"
    OBVIOUS
  <1>4. /\ <<current>> \o <<>> = <<current>>
        /\ <<current>> # <<>> /\ Head(<<current>>) = current
        /\ DOMAIN <<current>> = {1} /\ <<current>>[1] = current
        /\ LET both == <<current>> \o <<previous>>
           IN  /\ both # <<>> /\ Head(both) = current /\ DOMAIN both = {1, 2}
               /\ both[1] = current /\ both[2] = previous
    <2> HIDE DEF current, previous
    <2>1. current \in {current, previous} /\ previous \in {current, previous}
      OBVIOUS
    <2> QED
      BY <2>1, ShortSequences, Zenon
  <1>5. CASE e.set.previous = "unset"
    <2>1. Secrets(e, FALSE) = <<current>> \o <<>>
      BY <1>2, <1>5 DEF Secrets
    <2> HIDE DEF current, previous
    <2> QED
      BY <1>3, <1>4, <2>1 DEF current
  <1>6. CASE e.set.previous = "long"
    <2>1. Secrets(e, FALSE) = <<current>> \o <<previous>>
      BY <1>2, <1>6 DEF Secrets
    <2> HIDE DEF current, previous
    <2> QED
      BY <1>3, <1>4, <2>1 DEF current
  <1> QED
    BY <1>2, <1>5, <1>6

\* The settings that the problems are about.
LEMMA SettingsRead ==
    ASSUME NEW e, NEW dev
    PROVE  LET s == Settings(e, dev)
           IN  /\ dev = FALSE => s.hostCookie
               /\ e.set.salt # "unset" => s.salt = e.set.salt
               /\ s.store = e.set.store
               /\ s.otp = On(e, "otp", TRUE)
               /\ s.mail = e.set.mail
               /\ s.codeLength = CodeLength(e)
               /\ s.local = e.set.local
  BY DEF Settings

\* Outside development, the issuer is named and https, nothing else comes from the
\* developer, and codes reach a mailbox.
LEMMA NothingOfTheDeveloper ==
    ASSUME NEW e, WellFormed(e), NEW url, Usable(LoadConfig(e, url)), ~LoadConfig(e, url).dev
    PROVE  LET c == LoadConfig(e, url)
           IN  /\ SecretProblems(e, FALSE) = {} /\ c.secrets = Secrets(e, FALSE)
               /\ c.issuer.scheme = "https" /\ e.issuer = c.issuer
               /\ c.settings.salt \in {"short", "long"} /\ c.settings.hostCookie
               /\ \A k \in c.clients : k.source = "static"
               /\ \A p \in c.peers : p.scheme = "https"
               /\ c.settings.otp => c.settings.mail # "unset"
               /\ e.set.backend = "unset" => Primary(e) \in e.keyed
  <1> DEFINE c == LoadConfig(e, url)
             issuer == [url |-> c.issuer, derived |-> c.derived]
  <1>1. c.loaded /\ c.problems = {}
    BY DEF Usable
  <1>2. c.dev = FALSE
    BY <1>1, ConfigRead, DevIsBoolean
  <1>3. /\ c.secrets = Secrets(e, FALSE) /\ c.settings = Settings(e, FALSE)
        /\ c.clients = StaticClients(e, FALSE)
        /\ c.peers = ReadPeerJwksUrls(e, FALSE, c.issuer)
        /\ c.problems = SecretProblems(e, FALSE) \cup SigningProblems(e, FALSE)
                        \cup SignInProblems(e, FALSE) \cup LocalProblems(e)
                        \cup TransportProblems(e, issuer, FALSE) \cup SettingProblems(e, FALSE)
    <2>1. /\ c.secrets = Secrets(e, c.dev) /\ c.settings = Settings(e, c.dev)
          /\ c.clients = StaticClients(e, c.dev)
          /\ c.peers = ReadPeerJwksUrls(e, c.dev, c.issuer)
          /\ c.problems = SecretProblems(e, c.dev) \cup SigningProblems(e, c.dev)
                          \cup SignInProblems(e, c.dev) \cup LocalProblems(e)
                          \cup TransportProblems(e, issuer, c.dev) \cup SettingProblems(e, c.dev)
      BY <1>1, ConfigRead, Zenon
    <2> HIDE DEF c, issuer
    <2> QED
      BY <1>2, <2>1
  <1>4. /\ SecretProblems(e, FALSE) = {} /\ SigningProblems(e, FALSE) = {}
        /\ SignInProblems(e, FALSE) = {} /\ TransportProblems(e, issuer, FALSE) = {}
        /\ SettingProblems(e, FALSE) = {}
    <2> HIDE DEF c, issuer
    <2> QED
      BY <1>1, <1>3
  <1>5. c.issuer.scheme = "https" /\ e.issuer = c.issuer
    <2>1. c.issuer.scheme # "http" /\ ~c.derived
      BY <1>4, NoProblem DEF TransportProblems
    <2>2. e.issuer # NoUrl /\ c.issuer = e.issuer
      BY <1>1, <2>1, ConfigRead
    <2> QED
      BY <2>1, <2>2 DEF WellFormed
  <1>6. c.settings.salt \in {"short", "long"} /\ c.settings.hostCookie
    <2>1. e.set.salt # "unset"
      BY <1>4, NoProblem DEF SettingProblems
    <2>2. Settings(e, FALSE).salt = e.set.salt /\ Settings(e, FALSE).hostCookie
      BY <2>1, SettingsRead
    <2> QED
      BY <1>3, <2>1, <2>2 DEF WellFormed, Texts
  <1>7. \A k \in c.clients : k.source = "static"
    BY <1>3 DEF StaticClients, ReadStaticClients
  <1>8. \A p \in c.peers : p.scheme = "https"
    BY <1>3 DEF ReadPeerJwksUrls, Travels
  <1>9. c.settings.otp => c.settings.mail # "unset"
    <2>1. c.settings.otp = On(e, "otp", TRUE) /\ c.settings.mail = e.set.mail
      BY <1>3, SettingsRead
    <2>2. ~(On(e, "otp", TRUE) /\ e.set.mail = "unset" /\ ~FALSE)
      BY <1>4, NoProblem DEF SignInProblems
    <2> QED
      BY <2>1, <2>2
  <1>10. e.set.backend = "unset" => Primary(e) \in e.keyed
    BY <1>4, NoProblem DEF SigningProblems
  <1> QED
    BY <1>3, <1>4, <1>5, <1>6, <1>7, <1>8, <1>9, <1>10

\* In any mode: somebody can sign in, passwords have a store and a salt, and codes
\* are nine characters or more.
LEMMA SomebodyCanSignIn ==
    ASSUME NEW e, WellFormed(e), NEW url, Usable(LoadConfig(e, url))
    PROVE  LET c == LoadConfig(e, url)
           IN  /\ AcrValuesFor(c) # {}
               /\ c.settings.local # "unset" => c.settings.store # "unset" /\ c.settings.salt = "long"
               /\ c.settings.codeLength >= 9
  <1> DEFINE c == LoadConfig(e, url)
  <1>1. c.loaded /\ c.problems = {}
    BY DEF Usable
  <1>2. SignInProblems(e, c.dev) = {} /\ LocalProblems(e) = {}
    <2>1. c.problems = SecretProblems(e, c.dev) \cup SigningProblems(e, c.dev)
                       \cup SignInProblems(e, c.dev) \cup LocalProblems(e)
                       \cup TransportProblems(e, [url |-> c.issuer, derived |-> c.derived], c.dev)
                       \cup SettingProblems(e, c.dev)
      BY <1>1, ConfigRead, Zenon
    <2> HIDE DEF c
    <2> QED
      BY <1>1, <2>1
  <1>3. c.settings = Settings(e, c.dev) /\ c.upstreams = ReadUpstreams(e) /\ ~Malformed(e)
    BY <1>1, ConfigRead
  <1>7. /\ c.settings.otp = On(e, "otp", TRUE) /\ c.settings.local = e.set.local
        /\ c.settings.store = e.set.store /\ c.settings.codeLength = CodeLength(e)
        /\ e.set.salt = "long" => c.settings.salt = "long"
    BY <1>3, SettingsRead
  <1>4. AcrValuesFor(c) # {}
    <2>1. c.upstreams # {} \/ c.settings.otp \/ c.settings.local # "unset"
      BY <1>2, <1>3, <1>7, NoProblem DEF SignInProblems
    <2> QED
      BY <2>1 DEF AcrValuesFor, If
  <1>5. c.settings.local # "unset" => c.settings.store # "unset" /\ c.settings.salt = "long"
    BY <1>2, <1>7, NoProblem DEF LocalProblems
  <1>6. c.settings.codeLength >= 9
    <2>1. "code" \in DOMAIN e.set
      BY DEF WellFormed, Bags, Variables
    <2>2. e.set.code \in {"unset", "six", "twelve"}
      BY <1>3, <2>1 DEF Malformed, WellFormed
    <2> QED
      BY <1>7, <2>2 DEF CodeLength
  <1> QED
    BY <1>4, <1>5, <1>6

\* The method of every client that was read is one that discovery can list.
LEMMA MethodsAreKnown ==
    ASSUME NEW e, NEW url, LoadConfig(e, url).loaded
    PROVE  LET c == LoadConfig(e, url)
           IN  \A k \in c.clients : k.method \in AuthMethods /\ k.method \in ClientCapabilities(c)
  <1> DEFINE c == LoadConfig(e, url)
  <1>1. c.clients = StaticClients(e, c.dev)
    BY ConfigRead
  <1>2. \A k \in c.clients : k.method \in AuthMethods
    BY <1>1 DEF StaticClients, ReadStaticClients, DevClient, AuthMethods
  <1> QED
    BY <1>2 DEF ClientCapabilities

\* An origin that is let in was named, or is a client's, or nothing was named.
LEMMA OriginsAreNamed ==
    ASSUME NEW e, WellFormed(e), NEW url, LoadConfig(e, url).loaded
    PROVE  LET c == LoadConfig(e, url)
               registered == {k.origin : k \in e.clients} \cup If(c.dev, DevClient.origin)
           IN  /\ c.allowedOrigins # {} => e.set.cors # "off"
               /\ AnyOrigin \in c.allowedOrigins => e.origins = {} \/ AnyOrigin \in e.origins
               /\ e.origins # {} => c.allowedOrigins \subseteq e.origins \cup registered
  <1> DEFINE c == LoadConfig(e, url)
             registered == {k.origin : k \in e.clients} \cup If(c.dev, DevClient.origin)
  <1>1. c.allowedOrigins = ReadCorsOrigins(e, c.dev, c.clients) /\ c.clients = StaticClients(e, c.dev)
    BY ConfigRead
  <1>2. c.allowedOrigins # {} => e.set.cors # "off"
    BY <1>1 DEF ReadCorsOrigins, On
  <1>3. \A k \in c.clients : k.origin \in registered
    BY <1>1 DEF StaticClients, ReadStaticClients, DevClient, If
  <1>4. CorsOriginsFromClients(c.clients, c.dev) \subseteq registered
    BY <1>3 DEF CorsOriginsFromClients
  <1>5. AnyOrigin \notin CorsOriginsFromClients(c.clients, c.dev)
    BY DEF CorsOriginsFromClients, Travels, AnyOrigin, Url
  <1>6. AnyOrigin \in c.allowedOrigins => e.origins = {} \/ AnyOrigin \in e.origins
    BY <1>1, <1>5 DEF ReadCorsOrigins
  <1>7. e.origins # {} => c.allowedOrigins \subseteq e.origins \cup registered
    BY <1>1, <1>4 DEF ReadCorsOrigins
  <1> QED
    BY <1>2, <1>6, <1>7

\* A browser is let in by the routes with CORS alone, for one origin or for all, and
\* the outcome makes no difference.
LEMMA AnswersAllow ==
    ASSUME NEW c, NEW q \in Questions
    PROVE  /\ Respond(c, q).allow # NoUrl =>
                \/ q.path \in {"metadata", "jwks"} /\ Respond(c, q).status = 200
                \/ /\ q.path \in {"token", "userinfo"}
                   /\ AnyOrigin \in c.allowedOrigins \/ q.origin \in c.allowedOrigins
           /\ q.path \in {"token", "userinfo"} /\ q.method \in Routes[q.path].methods =>
                Respond(c, q).allow = Respond(c, [q EXCEPT !.method = "OPTIONS"]).allow
  <1>1. AllowedOrigin(c, q.origin) # NoUrl =>
          AnyOrigin \in c.allowedOrigins \/ q.origin \in c.allowedOrigins
    BY DEF AllowedOrigin
  <1>2. DOMAIN Routes = {"metadata", "jwks", "health", "asset", "page", "form", "callback",
                         "token", "userinfo"}
    BY DEF Routes
  <1>3. \A path \in DOMAIN Routes :
          /\ path \in {"token", "userinfo"} => Routes[path].readers = "allowed"
          /\ path \in {"metadata", "jwks"} => Routes[path].readers = "anybody"
          /\ path \notin {"token", "userinfo", "metadata", "jwks"} => Routes[path].readers = "own"
    BY <1>2 DEF Routes, Route
  <1>4. ASSUME q.path \in {"token", "userinfo"}
        PROVE  /\ Respond(c, q).allow # NoUrl => Respond(c, q).allow = AllowedOrigin(c, q.origin)
               /\ q.method \in Routes[q.path].methods =>
                    Respond(c, q).allow = AllowedOrigin(c, q.origin)
    BY <1>2, <1>3, <1>4 DEF Respond, Readers
  <1>5. ASSUME q.path \in {"metadata", "jwks"}, Respond(c, q).allow # NoUrl
        PROVE  Respond(c, q).status = 200
    <2>1. q.path \in DOMAIN Routes /\ Routes[q.path].readers = "anybody"
      BY <1>2, <1>3, <1>5
    <2>2. q.method \in Routes[q.path].methods /\ q.outcome = "ok"
      BY <1>5, <2>1 DEF Respond, Readers
    <2> QED
      BY <2>1, <2>2 DEF Respond
  <1>6. q.path \notin {"token", "userinfo", "metadata", "jwks"} => Respond(c, q).allow = NoUrl
    BY <1>3 DEF Respond, Readers
  <1>7. ASSUME q.path \in {"token", "userinfo"}
        PROVE  Respond(c, [q EXCEPT !.method = "OPTIONS"]).allow = AllowedOrigin(c, q.origin)
    <2> DEFINE p == [q EXCEPT !.method = "OPTIONS"]
    <2>1. p.path = q.path /\ p.method = "OPTIONS" /\ p.origin = q.origin
      BY QuestionsAssumption
    <2> HIDE DEF p
    <2>2. Respond(c, p).allow = AllowedOrigin(c, q.origin)
      BY <1>2, <1>3, <1>7, <2>1 DEF Respond
    <2> QED
      BY <2>2 DEF p
  <1> QED
    BY <1>1, <1>4, <1>5, <1>6, <1>7
--------------------------------------------------------------------------------
(* The slot: the inductive invariant *)

\* What can be in the slot: nothing, or what was read under the URL of a request;
\* nothing, or one of the signer sets that were built.
Configs == {NoConfig} \cup {LoadConfig(Unsealed(env), url) : url \in Urls}
SignerSets == {NoSigners} \cup {CreateSignerSet(env, n) : n \in 1..sets}

SlotTyped ==
    /\ env \in Environments
    /\ proc \in {"starting", "probing", "up", "exited"}
    /\ boot \in Nat \ {0}
    /\ sets \in Nat
    /\ slot \in [unsealed : BOOLEAN, config : Configs, signers : SignerSets]
    /\ req \in [Requests -> {Idle, Awaiting, Serving} \cup {Unsealing(url) : url \in Urls}]

\* Signers come after a configuration, and a request that has passed a point has what
\* is there from that point on, whoever put it there.
SlotOrdered ==
    /\ slot.signers.built => slot.config.loaded
    /\ \A r \in Requests :
          /\ req[r].at \in {"awaiting", "serving"} => slot.signers.built
          /\ req[r].at = "serving" => slot.signers.ok

\* A token of this boot was signed with what is in the slot; any token with a key of
\* some signer set, and under the issuer that is named if one is.
TokensKept ==
    \A t \in signed :
        /\ t.boot \in 1..boot
        /\ env.issuer # NoUrl => t.iss = env.issuer
        /\ \E n \in 1..sets : CreateSignerSet(env, n).ok /\ t.key \in Jwks(CreateSignerSet(env, n))
        /\ t.boot = boot => /\ slot.signers.ok
                            /\ t.iss = slot.config.issuer
                            /\ t.key \in Jwks(slot.signers)

\* A Node process is up only after its banner found the configuration usable.
BannerPassed ==
    proc = "up" /\ env.platform = "node" => Usable(LoadConfig(env, Loopback))

SlotInv == SlotTyped /\ SlotOrdered /\ TokensKept /\ BannerPassed

\* What is in the slot was made as it says.
LEMMA SlotHolds ==
    ASSUME SlotTyped
    PROVE  /\ slot.config.loaded => \E url \in Urls : slot.config = LoadConfig(Unsealed(env), url)
           /\ slot.signers.built => \E n \in 1..sets : slot.signers = CreateSignerSet(env, n)
           /\ slot.signers.ok => slot.signers.built
  <1>1. slot.config \in Configs /\ slot.signers \in SignerSets
    BY DEF SlotTyped
  <1>2. slot.config.loaded => \E url \in Urls : slot.config = LoadConfig(Unsealed(env), url)
    BY <1>1 DEF Configs, NoConfig
  <1>3. slot.signers.built => \E n \in 1..sets : slot.signers = CreateSignerSet(env, n)
    BY <1>1 DEF SignerSets, NoSigners
  <1>4. slot.signers.ok => slot.signers.built
    <2>1. CASE slot.signers = NoSigners
      BY <2>1 DEF NoSigners
    <2>2. ASSUME NEW n, slot.signers = CreateSignerSet(env, n)
          PROVE  slot.signers.built
      BY <2>2 DEF CreateSignerSet, FailedSigners
    <2> QED
      BY <1>1, <2>1, <2>2 DEF SignerSets
  <1> QED
    BY <1>2, <1>3, <1>4

\* A signer set that is built now is one that was made.
LEMMA MoreSets ==
    ASSUME SlotTyped, env' = env, sets' \in {sets, sets + 1}
    PROVE  /\ sets' \in Nat /\ 1..sets \subseteq 1..sets'
           /\ Urls' = Urls /\ Configs' = Configs /\ SignerSets \subseteq SignerSets'
           /\ sets' = sets + 1 => CreateSignerSet(env, sets') \in SignerSets'
  <1>1. sets' \in Nat /\ 1..sets \subseteq 1..sets' /\ (sets' = sets + 1 => sets' \in 1..sets')
    BY DEF SlotTyped
  <1>2. Urls' = Urls /\ Configs' = Configs
    BY DEF Urls, Configs
  <1>3. SignerSets' = {NoSigners} \cup {CreateSignerSet(env, n) : n \in 1..sets'}
    BY DEF SignerSets
  <1> QED
    BY <1>1, <1>2, <1>3 DEF SignerSets

\* The tokens that are out there keep what they have when the slot keeps its signers,
\* or had none.
LEMMA TokensStay ==
    ASSUME SlotTyped, TokensKept, UNCHANGED <<env, boot, signed>>, sets' \in {sets, sets + 1},
           slot.signers.ok => slot'.signers = slot.signers /\ slot'.config = slot.config
    PROVE  TokensKept'
  <1>1. ASSUME NEW t \in signed
        PROVE  /\ \E n \in 1..sets' : CreateSignerSet(env, n).ok /\ t.key \in Jwks(CreateSignerSet(env, n))
               /\ t.boot = boot => /\ slot'.signers.ok
                                   /\ t.iss = slot'.config.issuer
                                   /\ t.key \in Jwks(slot'.signers)
    BY MoreSets DEF TokensKept
  <1> QED
    BY <1>1 DEF TokensKept

\* What a request brings to the slot, or finds there, keeps the invariant.
LEMMA ConfigureStep ==
    ASSUME SlotInv, NEW r \in Requests, NEW url \in Urls,
           Configure(r, [slot EXCEPT !.unsealed = TRUE], url),
           UNCHANGED <<env, proc, boot, signed>>
    PROVE  SlotInv'
  <1> DEFINE s == [slot EXCEPT !.unsealed = TRUE]
             config == Read(s, url)
             refused == ~config.loaded \/ (~s.config.loaded /\ ~Usable(config))
  <1>0. SlotTyped /\ SlotOrdered /\ TokensKept /\ BannerPassed
    BY DEF SlotInv
  <1>1. /\ s \in [unsealed : BOOLEAN, config : Configs, signers : SignerSets]
        /\ s.config = slot.config /\ s.signers = slot.signers
    BY <1>0 DEF SlotTyped
  <1>2. config \in Configs /\ (slot.config.loaded => config = slot.config)
    BY <1>0, <1>1 DEF Read, Configs, SlotTyped
  <1>3. slot.signers.ok => slot.signers.built
    BY <1>0, SlotHolds
  <1>4. slot.signers.built => slot.config.loaded
    BY <1>0 DEF SlotOrdered
  <1>5. BannerPassed'
    BY <1>0 DEF BannerPassed
  <1>6. ASSUME refused, slot' = [s EXCEPT !.config = config],
               req' = [req EXCEPT ![r] = Idle], UNCHANGED sets
        PROVE  SlotTyped' /\ SlotOrdered' /\ TokensKept'
    <2>1. ~slot.config.loaded
      BY <1>1, <1>2, <1>6
    <2>2. ~slot.signers.built /\ ~slot.signers.ok
      BY <1>3, <1>4, <2>1
    <2>3. Urls' = Urls /\ Configs' = Configs /\ SignerSets \subseteq SignerSets'
      BY <1>0, <1>6, MoreSets
    <2>4. /\ slot' \in [unsealed : BOOLEAN, config : Configs, signers : SignerSets]
          /\ slot'.signers = slot.signers
      <3> HIDE DEF s, config
      <3> QED
        BY <1>1, <1>2, <1>6
    <2>5. SlotTyped'
      BY <1>0, <1>6, <2>3, <2>4 DEF SlotTyped
    <2>6. SlotOrdered'
      BY <1>0, <1>6, <2>2, <2>4 DEF SlotOrdered, SlotTyped, Idle
    <2>7. TokensKept'
      BY <1>0, <1>6, <2>2, TokensStay
    <2> QED
      BY <2>5, <2>6, <2>7
  <1>7. ASSUME ~refused,
               sets' = IF s.signers.built THEN sets ELSE sets + 1,
               slot' = [s EXCEPT !.config = config,
                                 !.signers = IF @.built THEN @ ELSE CreateSignerSet(env, sets')],
               req' = [req EXCEPT ![r] = IF LocalStoreCreated(env, config) THEN Awaiting ELSE Idle]
        PROVE  SlotTyped' /\ SlotOrdered' /\ TokensKept'
    <2>1. config.loaded
      BY <1>7
    <2>2. sets' \in {sets, sets + 1} /\ (~slot.signers.built => sets' = sets + 1)
      BY <1>1, <1>7
    <2>3. /\ sets' \in Nat
          /\ Urls' = Urls /\ Configs' = Configs /\ SignerSets \subseteq SignerSets'
          /\ ~slot.signers.built => CreateSignerSet(env, sets') \in SignerSets'
      BY <1>0, <2>2, MoreSets
    <2>4. CreateSignerSet(env, sets').built
      BY DEF CreateSignerSet, FailedSigners
    <2>5. /\ slot'.config = config
          /\ slot'.signers = IF slot.signers.built THEN slot.signers ELSE CreateSignerSet(env, sets')
          /\ slot' \in [unsealed : BOOLEAN, config : Configs, signers : SignerSets']
      <3> HIDE DEF s, config
      <3> QED
        BY <1>1, <1>2, <1>7, <2>3
    <2>6. SlotTyped'
      BY <1>0, <1>7, <2>3, <2>5 DEF SlotTyped
    <2>7. slot'.signers.built /\ (slot.signers.ok => slot'.signers = slot.signers)
      BY <1>3, <2>4, <2>5
    <2>8. SlotOrdered'
      BY <1>0, <1>3, <1>7, <2>1, <2>5, <2>7 DEF SlotOrdered, SlotTyped, Idle, Awaiting
    <2>9. TokensKept'
      BY <1>0, <1>2, <1>3, <1>4, <2>2, <2>5, <2>7, TokensStay
    <2> QED
      BY <2>6, <2>8, <2>9
  <1> QED
    BY <1>5, <1>6, <1>7 DEF Configure, SlotInv

\* A process is started with an empty slot.
LEMMA SlotInitially == Init => SlotInv
  <1> SUFFICES ASSUME Init PROVE SlotInv
    OBVIOUS
  <1>1. EmptySlot \in [unsealed : BOOLEAN, config : Configs, signers : SignerSets]
    BY DEF EmptySlot, Configs, SignerSets
  <1>2. SlotTyped
    BY <1>1 DEF Init, SlotTyped, Launched
  <1>3. SlotOrdered
    BY DEF Init, SlotOrdered, EmptySlot, NoSigners, Idle
  <1>4. TokensKept /\ BannerPassed
    BY DEF Init, TokensKept, BannerPassed, Launched
  <1> QED
    BY <1>2, <1>3, <1>4 DEF SlotInv

\* Steps that only move a request on, to where it may be.
LEMMA RequestMoves ==
    ASSUME SlotInv, UNCHANGED <<env, proc, boot, sets, slot, signed>>, NEW r \in Requests,
           NEW to \in {Idle, Serving} \cup {Unsealing(url) : url \in Urls},
           to = Serving => slot.signers.ok,
           req' = [req EXCEPT ![r] = to]
    PROVE  SlotInv'
  <1>1. SlotTyped /\ SlotOrdered /\ TokensKept /\ BannerPassed
    BY DEF SlotInv
  <1>2. Urls' = Urls /\ Configs' = Configs /\ SignerSets' = SignerSets
    BY DEF Urls, Configs, SignerSets
  <1>3. SlotTyped'
    BY <1>1, <1>2 DEF SlotTyped
  <1>4. to.at \in {"awaiting", "serving"} => slot.signers.built /\ slot.signers.ok
    BY <1>1, SlotHolds DEF Idle, Serving, Unsealing
  <1>5. SlotOrdered'
    BY <1>1, <1>4 DEF SlotOrdered, SlotTyped
  <1>6. TokensKept' /\ BannerPassed'
    BY <1>1, TokensStay DEF BannerPassed
  <1> QED
    BY <1>3, <1>5, <1>6 DEF SlotInv

\* What a request signs with is what the slot holds.
LEMMA SignStep ==
    ASSUME SlotInv, NEW r \in Requests, NEW alg, SignIdToken(r, alg)
    PROVE  SlotInv'
  <1>1. SlotTyped /\ SlotOrdered /\ TokensKept /\ BannerPassed
    BY DEF SlotInv
  <1>2. Urls' = Urls /\ Configs' = Configs /\ SignerSets' = SignerSets
    BY DEF SignIdToken, Urls, Configs, SignerSets
  <1>3. SlotTyped'
    BY <1>1, <1>2 DEF SlotTyped, SignIdToken
  <1>4. SlotOrdered'
    BY <1>1 DEF SlotOrdered, SlotTyped, SignIdToken, Idle
  <1>5. BannerPassed'
    BY <1>1 DEF BannerPassed, SignIdToken
  <1>6. slot.signers.ok /\ slot.signers.built /\ slot.config.loaded
    BY <1>1, SlotHolds DEF SlotOrdered, SignIdToken
  <1>7. PICK n \in 1..sets : slot.signers = CreateSignerSet(env, n)
    BY <1>1, <1>6, SlotHolds
  <1>8. WellFormed(env) /\ Unsealed(env).issuer = env.issuer
    BY <1>1, UnsealedIsWellFormed DEF SlotTyped
  <1>9. env.issuer # NoUrl => slot.config.issuer = env.issuer
    <2>1. PICK url \in Urls : slot.config = LoadConfig(Unsealed(env), url)
      BY <1>1, <1>6, SlotHolds
    <2> QED
      BY <1>6, <1>8, <2>1, IssuerRead
  <1>10. Select(slot.signers, alg) \subseteq Jwks(slot.signers)
    BY <1>6, <1>7, <1>8, SelectedIsPublished
  <1>11. ASSUME NEW t \in signed'
         PROVE  t \in signed \/ /\ t.boot = boot
                                /\ t.iss = slot.config.issuer
                                /\ t.key \in Jwks(slot.signers)
    BY <1>10 DEF SignIdToken
  <1>12. TokensKept'
    <2>1. UNCHANGED <<env, boot, sets, slot>>
      BY DEF SignIdToken
    <2>2. boot \in 1..boot
      BY <1>1 DEF SlotTyped
    <2>3. ASSUME NEW t \in signed'
          PROVE  /\ t.boot \in 1..boot
                 /\ env.issuer # NoUrl => t.iss = env.issuer
                 /\ \E m \in 1..sets : /\ CreateSignerSet(env, m).ok
                                       /\ t.key \in Jwks(CreateSignerSet(env, m))
                 /\ t.boot = boot => /\ slot.signers.ok
                                     /\ t.iss = slot.config.issuer
                                     /\ t.key \in Jwks(slot.signers)
      BY <1>1, <1>6, <1>7, <1>9, <1>11, <2>2 DEF TokensKept
    <2> QED
      BY <2>1, <2>3 DEF TokensKept
  <1> QED
    BY <1>3, <1>4, <1>5, <1>12 DEF SlotInv

\* The banner touches nothing but the process, and lets it up only when it may.
LEMMA BannerStep ==
    ASSUME SlotInv, BannerLoads \/ BannerEnds
    PROVE  SlotInv'
  <1>1. SlotTyped /\ SlotOrdered /\ TokensKept /\ BannerPassed
    BY DEF SlotInv
  <1>2. /\ UNCHANGED <<env, boot, slot, req, signed>> /\ sets' \in {sets, sets + 1}
        /\ proc' \in {"probing", "up", "exited"}
    BY DEF BannerLoads, BannerEnds
  <1>3. /\ sets' \in Nat
        /\ Urls' = Urls /\ Configs' = Configs /\ SignerSets \subseteq SignerSets'
    BY <1>1, <1>2, MoreSets
  <1>4. SlotTyped'
    BY <1>1, <1>2, <1>3 DEF SlotTyped
  <1>5. SlotOrdered' /\ TokensKept'
    BY <1>1, <1>2, TokensStay DEF SlotOrdered
  <1>6. BannerPassed'
    BY <1>2 DEF BannerPassed, BannerLoads, BannerEnds
  <1> QED
    BY <1>4, <1>5, <1>6 DEF SlotInv

\* What a process leaves behind is the tokens.
LEMMA RestartStep ==
    ASSUME SlotInv, Restart
    PROVE  SlotInv'
  <1>1. SlotTyped /\ TokensKept
    BY DEF SlotInv
  <1>2. UNCHANGED <<env, sets, signed>> /\ boot' = boot + 1 /\ slot' = EmptySlot
    BY DEF Restart
  <1>3. Urls' = Urls /\ Configs' = Configs /\ SignerSets' = SignerSets
    BY <1>2 DEF Urls, Configs, SignerSets
  <1>4. slot' \in [unsealed : BOOLEAN, config : Configs, signers : SignerSets]
    BY <1>2 DEF EmptySlot, Configs, SignerSets
  <1>5. SlotTyped'
    BY <1>1, <1>3, <1>4 DEF SlotTyped, Restart, Launched
  <1>6. SlotOrdered'
    BY DEF Restart, SlotOrdered, EmptySlot, NoSigners, Idle
  <1>7. TokensKept'
    <2>1. boot \in Nat
      BY <1>1 DEF SlotTyped
    <2>2. \A t \in signed : t.boot \in 1..(boot + 1) /\ t.boot # boot + 1
      BY <1>1, <2>1 DEF TokensKept
    <2> QED
      BY <1>1, <1>2, <2>2 DEF TokensKept
  <1>8. BannerPassed'
    BY <1>2 DEF Restart, BannerPassed, Launched
  <1> QED
    BY <1>5, <1>6, <1>7, <1>8 DEF SlotInv

\* Every step keeps the invariant.
LEMMA SlotStep == SlotInv /\ [Next]_vars => SlotInv'
  <1> SUFFICES ASSUME SlotInv, [Next]_vars PROVE SlotInv'
    OBVIOUS
  <1>1. ASSUME NEW r \in Requests, NEW url \in Urls, Arrive(r, url)
        PROVE  SlotInv'
    <2>1. CASE env.sealed /\ ~slot.unsealed
      BY <1>1, <2>1, RequestMoves DEF Arrive, Unsealing, Serving
    <2>2. CASE ~(env.sealed /\ ~slot.unsealed)
      BY <1>1, <2>2, ConfigureStep DEF Arrive
    <2> QED
      BY <2>1, <2>2
  <1>2. ASSUME NEW r \in Requests, Unseals(r)
        PROVE  SlotInv'
    <2>1. req[r].url \in Urls
      BY <1>2 DEF SlotInv, SlotTyped, Unseals, Idle, Awaiting, Serving, Unsealing
    <2> QED
      BY <1>2, <2>1, ConfigureStep DEF Unseals
  <1>3. ASSUME NEW r \in Requests, UnsealFails(r) \/ Answer(r)
        PROVE  SlotInv'
    BY <1>3, RequestMoves DEF UnsealFails, Answer, Idle, Serving
  <1>4. ASSUME NEW r \in Requests, Resume(r)
        PROVE  SlotInv'
    <2>1. Idle # Serving
      BY DEF Idle, Serving
    <2>2. CASE req' = [req EXCEPT ![r] = Idle]
      BY <1>4, <2>1, <2>2, RequestMoves DEF Resume
    <2>3. CASE req' = [req EXCEPT ![r] = Serving] /\ slot.signers.ok
      BY <1>4, <2>3, RequestMoves DEF Resume
    <2> QED
      BY <1>4, <2>2, <2>3 DEF Resume
  <1>5. ASSUME NEW r \in Requests, NEW alg, SignIdToken(r, alg)
        PROVE  SlotInv'
    BY <1>5, SignStep
  <1>6. CASE UNCHANGED vars
    <2>1. Urls' = Urls /\ Configs' = Configs /\ SignerSets' = SignerSets
      BY <1>6 DEF vars, Urls, Configs, SignerSets
    <2>2. SlotTyped' /\ SlotOrdered' /\ BannerPassed'
      BY <1>6, <2>1 DEF SlotInv, SlotTyped, SlotOrdered, BannerPassed, vars
    <2>3. TokensKept'
      BY <1>6, TokensStay DEF SlotInv, vars
    <2> QED
      BY <2>2, <2>3 DEF SlotInv
  <1> QED
    BY <1>1, <1>2, <1>3, <1>4, <1>5, <1>6, BannerStep, RestartStep DEF Next

\* The invariant of the slot.
LEMMA SlotAlways == Spec => []SlotInv
  BY SlotInitially, SlotStep, PTL DEF Spec

--------------------------------------------------------------------------------
(* Startup: the theorems *)

\* What assertUsable lets through outside development has none of the development
\* defaults (src/config.js:4-6), whatever the environment.
THEOREM DefaultsStayInDevelopment == Spec => []NoDevelopmentDefaults
  <1>1. ASSUME SlotInv PROVE NoDevelopmentDefaults
    <2> DEFINE u == Unsealed(env)
    <2>1. SlotTyped /\ SlotOrdered
      BY <1>1 DEF SlotInv
    <2>2. /\ WellFormed(env) /\ WellFormed(u) /\ u.set = env.set /\ u.issuer = env.issuer
          /\ u.algs = env.algs /\ u.keyed = env.keyed
      BY <2>1, UnsealedIsWellFormed DEF SlotTyped
    <2> SUFFICES ASSUME Usable(slot.config)
                 PROVE  NoDevelopmentDefaults
      BY DEF NoDevelopmentDefaults
    <2>3. PICK url \in Urls : slot.config = LoadConfig(u, url)
      BY <2>1, SlotHolds DEF Usable
    <2> HIDE DEF u
    <2>4. /\ AcrValuesFor(slot.config) # {}
          /\ slot.config.settings.local # "unset" =>
                slot.config.settings.store # "unset" /\ slot.config.settings.salt = "long"
          /\ slot.config.settings.codeLength >= 9
      BY <2>2, <2>3, SomebodyCanSignIn
    <2>5. CASE slot.config.dev
      BY <2>4, <2>5 DEF NoDevelopmentDefaults
    <2>6. CASE ~slot.config.dev
      <3>1. /\ SecretProblems(u, FALSE) = {} /\ slot.config.secrets = Secrets(u, FALSE)
            /\ slot.config.issuer.scheme = "https" /\ env.issuer = slot.config.issuer
            /\ slot.config.settings.salt \in {"short", "long"}
            /\ slot.config.settings.hostCookie
            /\ \A c \in slot.config.clients : c.source = "static"
            /\ \A p \in slot.config.peers : p.scheme = "https"
            /\ slot.config.settings.otp => slot.config.settings.mail # "unset"
            /\ u.set.backend = "unset" => Primary(u) \in u.keyed
        <4>1. Usable(LoadConfig(u, url)) /\ ~LoadConfig(u, url).dev
          BY <2>3, <2>6
        <4>2. LET c == LoadConfig(u, url)
              IN  /\ SecretProblems(u, FALSE) = {} /\ c.secrets = Secrets(u, FALSE)
                  /\ c.issuer.scheme = "https" /\ u.issuer = c.issuer
                  /\ c.settings.salt \in {"short", "long"} /\ c.settings.hostCookie
                  /\ \A k \in c.clients : k.source = "static"
                  /\ \A p \in c.peers : p.scheme = "https"
                  /\ c.settings.otp => c.settings.mail # "unset"
                  /\ u.set.backend = "unset" => Primary(u) \in u.keyed
          BY <2>2, <4>1, NothingOfTheDeveloper, Zenon
        <4> QED
          BY <2>2, <2>3, <4>2
      <3>2. LET secrets == slot.config.secrets
            IN  /\ secrets # <<>> /\ Head(secrets) = [of |-> "current", length |-> "long"]
                /\ \A i \in DOMAIN secrets : secrets[i].length = "long"
        BY <2>2, <3>1, SecretsAreLong
      <3>3. env.set.backend = "unset" => Primary(env) \in env.keyed
        BY <2>2, <3>1 DEF Primary
      <3>4. ASSUME slot.signers.ok, Primary(env) \in Algs(slot.signers)
            PROVE  ~HealthWarns(slot.signers)
        <4>1. PICK n \in 1..sets : slot.signers = CreateSignerSet(env, n)
          BY <2>1, <3>4, SlotHolds
        <4>2. slot.signers.keys[slot.signers.primaryAlg] = KeyOf(env, Primary(env), n)
          BY <2>2, <3>4, <4>1, SignerSetMade
        <4>3. KeyOf(env, Primary(env), n).made = 0
          BY <3>3 DEF KeyOf
        <4> QED
          BY <4>2, <4>3 DEF HealthWarns
      <3> QED
        BY <2>4, <3>1, <3>2, <3>4 DEF NoDevelopmentDefaults
    <2> QED
      BY <2>5, <2>6
  <1> QED
    BY <1>1, SlotAlways, PTL

\* An id_token verifies where it was signed ever after, and after a restart too when
\* its key is configured, for any number of requests, boots and tokens.
THEOREM TokensAlwaysVerify == Spec => []TokensVerify
  <1>1. ASSUME SlotInv PROVE TokensVerify
    <2>1. SlotTyped /\ SlotOrdered /\ TokensKept
      BY <1>1 DEF SlotInv
    <2>2. WellFormed(env) /\ Unsealed(env).issuer = env.issuer
      BY <2>1, UnsealedIsWellFormed DEF SlotTyped
    <2>3. \A r \in Requests : req[r].at = "serving" => slot.config.loaded /\ slot.signers.ok
      BY <2>1 DEF SlotOrdered
    <2>4. ASSUME slot.signers.ok, NEW t \in signed, t.boot = boot \/ ~slot.config.derived
          PROVE  t.iss = slot.config.issuer
      <3>1. CASE t.boot = boot
        BY <2>1, <3>1 DEF TokensKept
      <3>2. CASE ~slot.config.derived
        <4>1. slot.config.loaded
          BY <2>1, <2>4, SlotHolds DEF SlotOrdered
        <4>2. PICK url \in Urls : slot.config = LoadConfig(Unsealed(env), url)
          BY <2>1, <4>1, SlotHolds
        <4>3. env.issuer # NoUrl /\ slot.config.issuer = env.issuer
          BY <2>2, <3>2, <4>1, <4>2, IssuerRead
        <4> QED
          BY <2>1, <4>3 DEF TokensKept
      <3> QED
        BY <2>4, <3>1, <3>2
    <2>5. ASSUME slot.signers.ok, NEW t \in signed,
                 t.boot = boot \/ env.set.backend # "unset" \/ t.key.alg \in env.keyed
          PROVE  t.key \in Jwks(slot.signers)
      <3>1. CASE t.boot = boot
        BY <2>1, <3>1 DEF TokensKept
      <3>2. CASE env.set.backend # "unset" \/ t.key.alg \in env.keyed
        <4>1. PICK n \in 1..sets : slot.signers = CreateSignerSet(env, n)
          BY <2>1, <2>5, SlotHolds
        <4>2. PICK m \in 1..sets : /\ CreateSignerSet(env, m).ok
                                   /\ t.key \in Jwks(CreateSignerSet(env, m))
          BY <2>1 DEF TokensKept
        <4> QED
          BY <2>2, <3>2, <4>1, <4>2, SignerSetsAgree
      <3> QED
        BY <2>5, <3>1, <3>2
    <2> QED
      BY <2>3, <2>4, <2>5 DEF TokensVerify
  <1> QED
    BY <1>1, SlotAlways, PTL

\* Discovery promises nothing that fails mid-sign-in, whatever could be built.
THEOREM MetadataIsHonest == Spec => []HonestMetadata
  <1>1. ASSUME SlotInv PROVE HonestMetadata
    <2>1. SlotTyped /\ SlotOrdered
      BY <1>1 DEF SlotInv
    <2> SUFFICES ASSUME slot.signers.ok
                 PROVE  HonestMetadata
      BY DEF HonestMetadata
    <2>2. slot.config.loaded
      BY <2>1, SlotHolds DEF SlotOrdered
    <2>3. PICK url \in Urls : slot.config = LoadConfig(Unsealed(env), url)
      BY <2>1, <2>2, SlotHolds
    <2>4. PICK n \in 1..sets : slot.signers = CreateSignerSet(env, n)
      BY <2>1, SlotHolds
    <2>5. WellFormed(env)
      BY <2>1, UnsealedIsWellFormed DEF SlotTyped
    <2>6. Algs(slot.signers) # {}
      BY <2>4, <2>5, SignerSetMade
    <2>7. \A alg \in Algs(slot.signers) :
            Select(slot.signers, alg) # {} /\ Select(slot.signers, alg) \subseteq Jwks(slot.signers)
      BY <2>4, <2>5, SelectedIsPublished
    <2>8. \A c \in slot.config.clients : c.method \in ClientCapabilities(slot.config)
      BY <2>2, <2>3, MethodsAreKnown
    <2> DEFINE document == CommonMetadata(slot.config, slot.signers)
    <2>9. /\ document.algs = Algs(slot.signers)
          /\ document.postQuantum = Algs(slot.signers) \cap PostQuantum
          /\ document.methods = ClientCapabilities(slot.config)
      BY DEF CommonMetadata, Advertised
    <2> HIDE DEF document
    <2> QED
      BY <2>6, <2>7, <2>8, <2>9 DEF HonestMetadata, document
  <1> QED
    BY <1>1, SlotAlways, PTL

\* But for the documents that are there for everybody, a page of another origin reads
\* only answers of /token and /userinfo, only if its origin is allowed, and all of them
\* that a preflight promised it, for any question (src/util/cors.js).
THEOREM CorsStaysNarrow == Spec => []CorsIsNarrow
  <1>1. ASSUME SlotInv PROVE CorsIsNarrow
    <2> DEFINE u == Unsealed(env)
    <2>1. SlotTyped
      BY <1>1 DEF SlotInv
    <2>2. WellFormed(u) /\ u.set = env.set /\ u.clients = env.clients /\ u.origins = env.origins
      BY <2>1, UnsealedIsWellFormed DEF SlotTyped
    <2> SUFFICES ASSUME slot.config.loaded
                 PROVE  CorsIsNarrow
      BY DEF CorsIsNarrow
    <2>3. PICK url \in Urls : slot.config = LoadConfig(u, url)
      BY <2>1, SlotHolds
    <2> HIDE DEF u
    <2> DEFINE registered == {c.origin : c \in env.clients}
                             \cup If(slot.config.dev, DevClient.origin)
    <2>4. /\ slot.config.allowedOrigins # {} => env.set.cors # "off"
          /\ AnyOrigin \in slot.config.allowedOrigins =>
                env.origins = {} \/ AnyOrigin \in env.origins
          /\ env.origins # {} => slot.config.allowedOrigins \subseteq env.origins \cup registered
      BY <2>2, <2>3, OriginsAreNamed
    <2>5. ASSUME NEW q \in Questions, Respond(slot.config, q).allow # NoUrl,
                 ~(q.path \in {"metadata", "jwks"} /\ Respond(slot.config, q).status = 200)
          PROVE  /\ q.path \in {"token", "userinfo"} /\ env.set.cors # "off"
                 /\ \/ env.origins = {} \/ AnyOrigin \in env.origins
                    \/ q.origin \in env.origins \cup registered
      <3>1. /\ q.path \in {"token", "userinfo"}
            /\ AnyOrigin \in slot.config.allowedOrigins \/ q.origin \in slot.config.allowedOrigins
        BY <2>5, AnswersAllow
      <3> HIDE DEF registered
      <3> QED
        BY <2>4, <3>1
    <2>6. \A q \in Questions :
            q.path \in {"token", "userinfo"} /\ q.method \in Routes[q.path].methods =>
              Respond(slot.config, q).allow = Respond(slot.config, [q EXCEPT !.method = "OPTIONS"]).allow
      BY AnswersAllow
    <2> QED
      BY <2>5, <2>6 DEF CorsIsNarrow
  <1> QED
    BY <1>1, SlotAlways, PTL

\* Once its banner has ended, a Node process with a named issuer handles requests with
\* a usable configuration only, whoever asks first.
THEOREM BannerAlwaysDecides == Spec => []BannerDecides
  <1>1. ASSUME SlotInv PROVE BannerDecides
    <2> SUFFICES ASSUME proc = "up", env.platform = "node", env.issuer # NoUrl, slot.config.loaded
                 PROVE  Usable(slot.config)
      BY DEF BannerDecides
    <2>1. SlotTyped /\ Usable(LoadConfig(env, Loopback))
      BY <1>1 DEF SlotInv, BannerPassed
    <2>2. ~env.sealed
      BY <2>1, ConfigRead DEF Usable
    <2>3. Unsealed(env) = env
      <3>1. env.sealed = FALSE
        BY <2>1, <2>2, UnsealedIsWellFormed DEF SlotTyped, WellFormed, Bags
      <3> QED
        BY <2>1, <3>1, UnsealedIsWellFormed DEF SlotTyped
    <2>4. PICK url \in Urls : slot.config = LoadConfig(env, url)
      BY <2>1, <2>3, SlotHolds
    <2>5. LoadConfig(env, url) = LoadConfig(env, Loopback)
      <3>1. ResolveIssuer(env, url) = ResolveIssuer(env, Loopback)
        BY DEF ResolveIssuer
      <3> QED
        BY <3>1 DEF LoadConfig
    <2> QED
      BY <2>1, <2>4, <2>5
  <1> QED
    BY <1>1, SlotAlways, PTL
==================================================================================
