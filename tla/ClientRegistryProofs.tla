------------------------- MODULE ClientRegistryProofs -------------------------
(***************************************************************************)
(* Proofs about ClientRegistry, for any clients, sources, caches, caps,     *)
(* lifetimes and requests.                                                 *)
(***************************************************************************)
EXTENDS ClientRegistry, FiniteSetTheorems, SequenceTheorems, TLAPS

(* What Filter selects *)

\* The numbers up to n are n.
LEMMA UpToN ==
    ASSUME NEW n \in Nat
    PROVE  IsFiniteSet(1..n) /\ Cardinality(1..n) = n
  <1>1. /\ IsFiniteSet(1..n)
        /\ Cardinality(1..n) = IF 1 > n THEN 0 ELSE n - 1 + 1
    BY FS_Interval
  <1> QED
    BY <1>1

Places(c, S) == {i \in 1..Len(c) : c[i] \in S}

\* f has the entries of c at these places, in their order.
Placed(f, c, places) ==
    \E at \in [1..Len(f) -> places] :
        /\ \A n \in 1..Len(f) : f[n] = c[at[n]]
        /\ \A m, n \in 1..Len(f) : m < n => at[m] < at[n]
        /\ \A i \in places : \E n \in 1..Len(f) : at[n] = i

\* The n-th selected entry of c is at a place of its own, in the order of c.
LEMMA FilterPlaces ==
    ASSUME NEW V, NEW c \in Seq(V), NEW S
    PROVE  /\ Filter(c, S) \in Seq(V) /\ Len(Filter(c, S)) = Cardinality(Places(c, S))
           /\ IsFiniteSet(Places(c, S)) /\ Placed(Filter(c, S), c, Places(c, S))
  <1> DEFINE places == {i \in 1..Len(c) : c[i] \in S}
             UpTo(i) == {p \in places : p <= i}
             N == Cardinality(places)
             at == [n \in 1..N |-> CHOOSE i \in places : Cardinality(UpTo(i)) = n]
             f == [n \in 1..N |-> c[at[n]]]
  <1>1. IsFiniteSet(places) /\ N \in Nat
    <2>1. IsFiniteSet(1..Len(c))
      BY FS_Interval
    <2>2. places \in SUBSET (1..Len(c))
      OBVIOUS
    <2> HIDE DEF places
    <2>3. IsFiniteSet(places)
      BY <2>1, <2>2, FS_Subset
    <2> QED
      BY <2>3, FS_CardinalityType
  <1>2. \A i \in places : IsFiniteSet(UpTo(i)) /\ Cardinality(UpTo(i)) \in 1..N
    <2> SUFFICES ASSUME NEW i \in places
                 PROVE  IsFiniteSet(UpTo(i)) /\ Cardinality(UpTo(i)) \in 1..N
      OBVIOUS
    <2>1. UpTo(i) \in SUBSET places /\ i \in UpTo(i)
      OBVIOUS
    <2> DEFINE U == UpTo(i)
    <2> HIDE DEF places, U
    <2>2. IsFiniteSet(U) /\ Cardinality(U) <= N /\ U # {}
      BY <1>1, <2>1, FS_Subset DEF U
    <2>3. Cardinality(U) \in Nat /\ Cardinality(U) # 0
      BY <2>2, FS_CardinalityType, FS_EmptySet
    <2>4. IsFiniteSet(U) /\ Cardinality(U) \in 1..N
      BY <1>1, <2>2, <2>3
    <2> QED
      BY <2>4 DEF U
  <1>3. \A i, j \in places : i < j => Cardinality(UpTo(i)) < Cardinality(UpTo(j))
    <2> SUFFICES ASSUME NEW i \in places, NEW j \in places, i < j
                 PROVE  Cardinality(UpTo(i)) < Cardinality(UpTo(j))
      OBVIOUS
    <2>1. UpTo(i) \in SUBSET UpTo(j) /\ j \in UpTo(j) /\ j \notin UpTo(i)
      OBVIOUS
    <2> DEFINE A == UpTo(i)
               B == UpTo(j)
    <2>a. A \in SUBSET B /\ j \in B /\ j \notin A
      BY <2>1
    <2>b. IsFiniteSet(A) /\ IsFiniteSet(B) /\ Cardinality(A) \in 1..N /\ Cardinality(B) \in 1..N
      BY <1>2
    <2> HIDE DEF A, B, N
    <2>2. IsFiniteSet(A) /\ IsFiniteSet(B) /\ Cardinality(A) \in Nat /\ Cardinality(B) \in Nat
          /\ A \in SUBSET B /\ A # B
      BY <1>1, <2>a, <2>b
    <2>3. Cardinality(A) <= Cardinality(B) /\ Cardinality(A) # Cardinality(B)
      BY <2>2, FS_Subset
    <2>4. Cardinality(A) < Cardinality(B)
      BY <2>2, <2>3
    <2> QED
      BY <2>4 DEF A, B
  <1> DEFINE rank == [i \in places |-> Cardinality(UpTo(i))]
  <1>4. rank \in Injection(places, 1..N)
    <2>1. rank \in [places -> 1..N]
      BY <1>2
    <2>2. \A i, j \in places : rank[i] = rank[j] => i = j
      <3> SUFFICES ASSUME NEW i \in places, NEW j \in places, rank[i] = rank[j]
                   PROVE  i = j
        OBVIOUS
      <3> DEFINE a == Cardinality(UpTo(i))
                 b == Cardinality(UpTo(j))
      <3>a. /\ a \in 1..N /\ b \in 1..N /\ a = b /\ (i < j => a < b) /\ (j < i => b < a)
        BY <1>2, <1>3
      <3>1. ~(i < j) /\ ~(j < i)
        <4> HIDE DEF a, b, N
        <4> QED
          BY <1>1, <3>a
      <3>2. i \in Int /\ j \in Int
        OBVIOUS
      <3> HIDE DEF places
      <3> QED
        BY <3>1, <3>2
    <2> HIDE DEF rank, places, N
    <2> QED
      BY <2>1, <2>2 DEF Injection, IsInjective
  <1>5. \A n \in 1..N : \E i \in places : rank[i] = n
    <2>1. IsFiniteSet(1..N) /\ Cardinality(1..N) = N
      <3> HIDE DEF N
      <3> QED
        BY <1>1, FS_Interval
    <2>2. rank \in Surjection(places, 1..N)
      <3> HIDE DEF rank, places
      <3> QED
        BY <1>1, <1>4, <2>1, FS_Injection
    <2> HIDE DEF rank, places, N
    <2> QED
      BY <2>2 DEF Surjection
  <1>6. \A n \in 1..N : at[n] \in places /\ rank[at[n]] = n
    <2> SUFFICES ASSUME NEW n \in 1..N
                 PROVE  at[n] \in places /\ rank[at[n]] = n
      OBVIOUS
    <2>1. \E i \in places : Cardinality(UpTo(i)) = n
      BY <1>5
    <2>2. at[n] = CHOOSE i \in places : Cardinality(UpTo(i)) = n
      OBVIOUS
    <2> HIDE DEF places, at
    <2>3. at[n] \in places /\ Cardinality(UpTo(at[n])) = n
      BY <2>1, <2>2
    <2> QED
      BY <2>3
  <1>7. Filter(c, S) = f
    BY DEF Filter
  <1>8. f \in Seq(V) /\ Len(f) = N /\ \A n \in 1..N : f[n] = c[at[n]]
    <2>1. \A n \in 1..N : c[at[n]] \in V
      <3>1. \A i \in places : c[i] \in V
        BY ElementOfSeq
      <3> HIDE DEF places, at, N
      <3> QED
        BY <1>6, <3>1
    <2>2. \A n \in 1..N : f[n] = c[at[n]]
      OBVIOUS
    <2>3. f = [n \in 1..N |-> f[n]] /\ DOMAIN f = 1..N
      OBVIOUS
    <2> HIDE DEF f, N, at
    <2> QED
      BY <1>1, <2>1, <2>2, <2>3, IsASeq
  <1>9. \A m, n \in 1..N : m < n => at[m] < at[n]
    <2> SUFFICES ASSUME NEW m \in 1..N, NEW n \in 1..N, m < n
                 PROVE  at[m] < at[n]
      OBVIOUS
    <2>1. at[m] \in places /\ at[n] \in places /\ rank[at[m]] = m /\ rank[at[n]] = n
      BY <1>6
    <2>2. at[m] \in Int /\ at[n] \in Int
      BY <2>1
    <2>3. at[n] < at[m] => rank[at[n]] < rank[at[m]]
      BY <1>3, <2>1
    <2> HIDE DEF at, rank, places, N
    <2>4. m \in Int /\ n \in Int
      BY <1>1
    <2> QED
      BY <2>1, <2>2, <2>3, <2>4
  <1>10. \A i \in places : \E n \in 1..N : at[n] = i
    <2> SUFFICES ASSUME NEW i \in places
                 PROVE  \E n \in 1..N : at[n] = i
      OBVIOUS
    <2>1. rank[i] \in 1..N
      BY <1>2
    <2>2. at[rank[i]] \in places /\ rank[at[rank[i]]] = rank[i]
      BY <1>6, <2>1
    <2> HIDE DEF at, rank, places, N
    <2>3. at[rank[i]] = i
      BY <1>4, <2>2 DEF Injection, IsInjective
    <2> QED
      BY <2>1, <2>3
  <1>11. at \in [1..N -> places]
    BY <1>6
  <1> HIDE DEF at, f, N
  <1>12. /\ f \in Seq(V) /\ Len(f) = N
         /\ at \in [1..Len(f) -> places]
         /\ \A n \in 1..Len(f) : f[n] = c[at[n]]
         /\ \A m, n \in 1..Len(f) : m < n => at[m] < at[n]
         /\ \A i \in places : \E n \in 1..Len(f) : at[n] = i
    BY <1>8, <1>9, <1>10, <1>11
  <1> HIDE DEF places
  <1>13. /\ f \in Seq(V) /\ Len(f) = N /\ IsFiniteSet(places)
         /\ Placed(f, c, places)
    BY <1>1, <1>12 DEF Placed
  <1>14. Places(c, S) = places
    BY DEF Places, places
  <1> QED
    BY <1>7, <1>13, <1>14 DEF N
-------------------------------------------------------------------------------
(* Parts of a cache *)

Entries == [key : Keys, value : 0..2, expiresAt : Nat]

\* d is what is left of c when some entries go.
Part(d, c) ==
    \E at \in [1..Len(d) -> 1..Len(c)] :
        /\ \A n \in 1..Len(d) : d[n] = c[at[n]]
        /\ \A m, n \in 1..Len(d) : m < n => at[m] < at[n]

Distinct(c) == \A i, j \in 1..Len(c) : c[i].key = c[j].key => i = j

\* When an entry was stored, and the order of a cache by that.
Stored(kind, e) == e.expiresAt - TtlOf(Content(kind, e.key, e.value))
Aged(kind, c) == \A i, j \in 1..Len(c) : i < j => Stored(kind, c[i]) <= Stored(kind, c[j])

\* The members of a sequence.
LEMMA Members ==
    ASSUME NEW V, NEW c \in Seq(V)
    PROVE  /\ ToSet(c) = {c[i] : i \in 1..Len(c)} /\ ToSet(c) \subseteq V
           /\ \A e : e \in ToSet(c) <=> \E i \in 1..Len(c) : c[i] = e
  BY DEF ToSet

\* The whole is a part of itself, and a part of a part one of the whole.
LEMMA PartSelf ==
    ASSUME NEW c \in Seq(Entries)
    PROVE  Part(c, c)
  <1> DEFINE at == [n \in 1..Len(c) |-> n]
  <1>1. at \in [1..Len(c) -> 1..Len(c)] /\ \A n \in 1..Len(c) : at[n] = n
    OBVIOUS
  <1> HIDE DEF at
  <1> QED
    BY <1>1 DEF Part

LEMMA PartOfPart ==
    ASSUME NEW c \in Seq(Entries), NEW d \in Seq(Entries), NEW f \in Seq(Entries), Part(f, d), Part(d, c)
    PROVE  Part(f, c)
  <1>1. PICK at \in [1..Len(f) -> 1..Len(d)] :
            /\ \A n \in 1..Len(f) : f[n] = d[at[n]]
            /\ \A m, n \in 1..Len(f) : m < n => at[m] < at[n]
    BY DEF Part
  <1>2. PICK up \in [1..Len(d) -> 1..Len(c)] :
            /\ \A n \in 1..Len(d) : d[n] = c[up[n]]
            /\ \A m, n \in 1..Len(d) : m < n => up[m] < up[n]
    BY DEF Part
  <1> DEFINE both == [n \in 1..Len(f) |-> up[at[n]]]
  <1>3. both \in [1..Len(f) -> 1..Len(c)] /\ \A n \in 1..Len(f) : both[n] = up[at[n]] /\ at[n] \in 1..Len(d)
    OBVIOUS
  <1> HIDE DEF both
  <1>4. /\ \A n \in 1..Len(f) : f[n] = c[both[n]]
        /\ \A m, n \in 1..Len(f) : m < n => both[m] < both[n]
    BY <1>1, <1>2, <1>3
  <1> QED
    BY <1>3, <1>4 DEF Part

\* What a part has of the whole.
LEMMA PartKeeps ==
    ASSUME NEW c \in Seq(Entries), NEW d \in Seq(Entries), Part(d, c)
    PROVE  /\ ToSet(d) \subseteq ToSet(c)
           /\ Distinct(c) => Distinct(d)
           /\ \A kind : Aged(kind, c) => Aged(kind, d)
  <1>1. PICK at \in [1..Len(d) -> 1..Len(c)] :
            /\ \A n \in 1..Len(d) : d[n] = c[at[n]]
            /\ \A m, n \in 1..Len(d) : m < n => at[m] < at[n]
    BY DEF Part
  <1>2. ToSet(d) \subseteq ToSet(c)
    BY <1>1, Members
  <1>3. ASSUME Distinct(c)
        PROVE  Distinct(d)
    <2> SUFFICES ASSUME NEW i \in 1..Len(d), NEW j \in 1..Len(d), d[i].key = d[j].key
                 PROVE  i = j
      BY DEF Distinct
    <2>1. at[i] \in 1..Len(c) /\ at[j] \in 1..Len(c) /\ c[at[i]].key = c[at[j]].key
      BY <1>1
    <2>2. at[i] = at[j]
      BY <1>3, <2>1 DEF Distinct
    <2>3. (i < j => at[i] < at[j]) /\ (j < i => at[j] < at[i])
      BY <1>1
    <2> QED
      BY <2>1, <2>2, <2>3
  <1>4. ASSUME NEW kind, Aged(kind, c)
        PROVE  Aged(kind, d)
    <2> SUFFICES ASSUME NEW i \in 1..Len(d), NEW j \in 1..Len(d), i < j
                 PROVE  Stored(kind, d[i]) <= Stored(kind, d[j])
      BY DEF Aged
    <2>1. at[i] \in 1..Len(c) /\ at[j] \in 1..Len(c) /\ at[i] < at[j]
          /\ d[i] = c[at[i]] /\ d[j] = c[at[j]]
      BY <1>1
    <2> QED
      BY <1>4, <2>1 DEF Aged
  <1> QED
    BY <1>2, <1>3, <1>4

\* Filter leaves a part: the members that are selected, and fewer if any is not.
LEMMA FilterPart ==
    ASSUME NEW c \in Seq(Entries), NEW S
    PROVE  /\ Filter(c, S) \in Seq(Entries) /\ Part(Filter(c, S), c)
           /\ Len(Filter(c, S)) <= Len(c)
           /\ ToSet(Filter(c, S)) = ToSet(c) \cap S
           /\ Filter(c, S) # c => Len(Filter(c, S)) < Len(c)
           /\ Filter(c, S) = c => ToSet(c) \subseteq S
  <1> DEFINE places == {i \in 1..Len(c) : c[i] \in S}
             f == Filter(c, S)
  <1>1. /\ f \in Seq(Entries) /\ Len(f) = Cardinality(places) /\ IsFiniteSet(places)
        /\ Placed(f, c, places)
    <2>1. Places(c, S) = places
      BY DEF Places
    <2> HIDE DEF places
    <2> QED
      BY <2>1, FilterPlaces
  <1>2. PICK at \in [1..Len(f) -> places] :
                     /\ \A n \in 1..Len(f) : f[n] = c[at[n]]
                     /\ \A m, n \in 1..Len(f) : m < n => at[m] < at[n]
                     /\ \A i \in places : \E n \in 1..Len(f) : at[n] = i
    <2> HIDE DEF f, places
    <2> QED
      BY <1>1 DEF Placed
  <1>3. places \in SUBSET (1..Len(c)) /\ Len(c) \in Nat /\ Len(f) \in Nat
    BY <1>1
  <1>4. at \in [1..Len(f) -> 1..Len(c)]
    BY <1>2, <1>3
  <1>5. Part(f, c)
    <2> HIDE DEF f
    <2> QED
      BY <1>2, <1>4 DEF Part
  <1>6. IsFiniteSet(1..Len(c)) /\ Cardinality(1..Len(c)) = Len(c)
    BY <1>3, UpToN
  <1>7. Len(f) <= Len(c) /\ (Len(f) = Len(c) => places = 1..Len(c))
    <2> HIDE DEF f, places
    <2>1. Cardinality(places) <= Len(c) /\ (Len(c) = Cardinality(places) => 1..Len(c) = places)
      BY <1>3, <1>6, FS_Subset
    <2> QED
      BY <1>1, <2>1
  <1>8. ToSet(f) = ToSet(c) \cap S
    <2>1. \A n \in 1..Len(f) : at[n] \in 1..Len(c) /\ c[at[n]] \in S
      BY <1>2
    <2>2. \A i \in 1..Len(c) : c[i] \in S => \E n \in 1..Len(f) : at[n] = i
      BY <1>2
    <2> HIDE DEF f, places
    <2>3. \A e : e \in ToSet(f) <=> \E n \in 1..Len(f) : f[n] = e
      BY <1>1, Members
    <2>4. \A e : e \in ToSet(c) <=> \E i \in 1..Len(c) : c[i] = e
      BY Members
    <2>5. \A n \in 1..Len(f) : f[n] \in ToSet(c) \cap S
      BY <1>2, <2>1, <2>4
    <2>6. \A i \in 1..Len(c) : c[i] \in S => c[i] \in ToSet(f)
      BY <1>2, <2>2, <2>3
    <2> QED
      BY <2>3, <2>4, <2>5, <2>6
  <1>9. ASSUME Len(f) = Len(c)
        PROVE  f = c
    <2>1. places = 1..Len(c)
      BY <1>7, <1>9
    <2> DEFINE UpTo(i) == {p \in places : p <= i}
    <2>2. ASSUME NEW n \in 1..Len(c)
          PROVE  f[n] = c[n]
      <3>1. \A i \in 1..Len(c) : Cardinality(UpTo(i)) = i
        <4> SUFFICES ASSUME NEW i \in 1..Len(c)
                     PROVE  Cardinality(UpTo(i)) = i
          OBVIOUS
        <4>1. UpTo(i) = 1..i /\ i \in Nat
          BY <1>3, <2>1
        <4> HIDE DEF UpTo
        <4> QED
          BY <4>1, UpToN
      <3>2. f[n] = c[CHOOSE i \in places : Cardinality(UpTo(i)) = n]
        <4>1. n \in 1..Cardinality(places)
          BY <1>1, <1>9
        <4> QED
          BY <4>1 DEF Filter
      <3>3. (CHOOSE i \in places : Cardinality(UpTo(i)) = n) = n
        <4> HIDE DEF places, UpTo
        <4> QED
          BY <2>1, <3>1
      <3> QED
        BY <3>2, <3>3
    <2> HIDE DEF f
    <2> QED
      BY <1>1, <1>9, <2>2, SeqEqual
  <1>10. f = c => ToSet(c) \subseteq S
    <2> HIDE DEF f
    <2> QED
      BY <1>8
  <1>11. f # c => Len(f) < Len(c)
    <2> HIDE DEF f
    <2> QED
      BY <1>3, <1>7, <1>9
  <1> HIDE DEF f
  <1>12. /\ f \in Seq(Entries) /\ Part(f, c) /\ Len(f) <= Len(c) /\ ToSet(f) = ToSet(c) \cap S
         /\ (f # c => Len(f) < Len(c)) /\ (f = c => ToSet(c) \subseteq S)
    BY <1>1, <1>5, <1>7, <1>8, <1>10, <1>11
  <1> QED
    BY <1>12 DEF f

\* And so does Tail.
LEMMA TailPart ==
    ASSUME NEW c \in Seq(Entries), c # <<>>
    PROVE  Tail(c) \in Seq(Entries) /\ Part(Tail(c), c) /\ Len(Tail(c)) = Len(c) - 1
  <1> DEFINE d == Tail(c)
             at == [n \in 1..Len(d) |-> n + 1]
  <1>1. /\ d \in Seq(Entries) /\ Len(d) = Len(c) - 1 /\ Len(c) \in Nat
        /\ \A n \in 1..Len(d) : d[n] = c[n + 1] /\ n + 1 \in 1..Len(c)
    OBVIOUS
  <1> HIDE DEF d
  <1>2. at \in [1..Len(d) -> 1..Len(c)] /\ \A n \in 1..Len(d) : at[n] = n + 1
    BY <1>1
  <1> HIDE DEF at
  <1>3. \A m, n \in 1..Len(d) : m < n => at[m] < at[n]
    BY <1>2
  <1>4. Part(d, c)
    BY <1>1, <1>2, <1>3 DEF Part
  <1> QED
    BY <1>1, <1>4 DEF d
-------------------------------------------------------------------------------
(* What the caches do *)

\* A sweep leaves the entries that are live.
LEMMA SweptPart ==
    ASSUME NEW c \in Seq(Entries)
    PROVE  /\ Swept(c) \in Seq(Entries) /\ Part(Swept(c), c) /\ Len(Swept(c)) <= Len(c)
           /\ ToSet(Swept(c)) = {e \in ToSet(c) : Live(e)}
           /\ Swept(c) # c => Len(Swept(c)) < Len(c)
           /\ Swept(c) = c => \A e \in ToSet(c) : Live(e)
  <1> DEFINE S == {e \in ToSet(c) : Live(e)}
  <1>1. Swept(c) = Filter(c, S) /\ ToSet(c) \cap S = S
    BY DEF Swept
  <1>2. ToSet(c) \subseteq S => \A e \in ToSet(c) : Live(e)
    OBVIOUS
  <1> HIDE DEF S
  <1>3. /\ Swept(c) \in Seq(Entries) /\ Part(Swept(c), c) /\ Len(Swept(c)) <= Len(c)
        /\ ToSet(Swept(c)) = S /\ (Swept(c) # c => Len(Swept(c)) < Len(c))
        /\ (Swept(c) = c => ToSet(c) \subseteq S)
    BY <1>1, FilterPart
  <1> QED
    BY <1>2, <1>3 DEF S

\* A removal leaves the other keys.
LEMMA WithoutPart ==
    ASSUME NEW c \in Seq(Entries), NEW k
    PROVE  /\ Without(c, k) \in Seq(Entries) /\ Part(Without(c, k), c)
           /\ Len(Without(c, k)) <= Len(c)
           /\ ToSet(Without(c, k)) = {e \in ToSet(c) : e.key # k}
  <1> DEFINE S == {e \in ToSet(c) : e.key # k}
  <1>1. Without(c, k) = Filter(c, S) /\ ToSet(c) \cap S = S
    BY DEF Without
  <1> HIDE DEF S
  <1>2. /\ Without(c, k) \in Seq(Entries) /\ Part(Without(c, k), c)
        /\ Len(Without(c, k)) <= Len(c) /\ ToSet(Without(c, k)) = S
    BY <1>1, FilterPart
  <1> QED
    BY <1>2 DEF S

\* There is room for one more.
LEMMA RoomPart ==
    ASSUME Cap \in Nat \ {0}, NEW c \in Seq(Entries), Len(c) <= Cap
    PROVE  /\ Room(c) \in Seq(Entries) /\ Part(Room(c), c) /\ Len(Room(c)) < Cap
           /\ Len(c) < Cap => Room(c) = c
  <1>1. CASE Len(c) >= Cap
    <2>1. c # <<>> /\ Len(c) = Cap
      BY <1>1
    <2>2. Room(c) = Tail(c)
      BY <1>1 DEF Room
    <2> QED
      BY <1>1, <2>1, <2>2, TailPart
  <1>2. CASE ~(Len(c) >= Cap)
    <2>1. Room(c) = c
      BY <1>2 DEF Room
    <2> QED
      BY <1>2, <2>1, PartSelf
  <1> QED
    BY <1>1, <1>2

\* A part all of whose entries are live is no longer than what a sweep leaves.
LEMMA LivePart ==
    ASSUME NEW c \in Seq(Entries), NEW d \in Seq(Entries), Part(d, c), \A e \in ToSet(d) : Live(e)
    PROVE  Len(d) <= Len(Swept(c))
  <1> DEFINE S == {e \in ToSet(c) : Live(e)}
  <1>1. PICK at \in [1..Len(d) -> 1..Len(c)] :
            /\ \A n \in 1..Len(d) : d[n] = c[at[n]]
            /\ \A m, n \in 1..Len(d) : m < n => at[m] < at[n]
    BY DEF Part
  <1>2. Swept(c) = Filter(c, S)
    BY DEF Swept
  <1>3. \A n \in 1..Len(d) : at[n] \in Places(c, S)
    <2> SUFFICES ASSUME NEW n \in 1..Len(d)
                 PROVE  at[n] \in Places(c, S)
      OBVIOUS
    <2>1. at[n] \in 1..Len(c) /\ d[n] = c[at[n]] /\ d[n] \in ToSet(d) /\ c[at[n]] \in ToSet(c)
      BY <1>1, Members
    <2> QED
      BY <2>1 DEF Places
  <1> HIDE DEF S
  <1>4. Len(Swept(c)) = Cardinality(Places(c, S)) /\ IsFiniteSet(Places(c, S))
    BY <1>2, FilterPlaces
  <1>5. at \in Injection(1..Len(d), Places(c, S))
    <2>1. at \in [1..Len(d) -> Places(c, S)]
      BY <1>1, <1>3
    <2>2. \A m, n \in 1..Len(d) : at[m] = at[n] => m = n
      <3> SUFFICES ASSUME NEW m \in 1..Len(d), NEW n \in 1..Len(d), at[m] = at[n]
                   PROVE  m = n
        OBVIOUS
      <3>1. at[m] \in Int /\ at[n] \in Int /\ (m < n => at[m] < at[n]) /\ (n < m => at[n] < at[m])
        BY <1>1
      <3> QED
        BY <3>1
    <2> QED
      BY <2>1, <2>2 DEF Injection, IsInjective
  <1>6. Cardinality(1..Len(d)) <= Cardinality(Places(c, S)) /\ Cardinality(1..Len(d)) = Len(d)
    BY <1>4, <1>5, FS_Injection, UpToN
  <1> QED
    BY <1>4, <1>6

\* A new entry at the end.
LEMMA AppendKeeps ==
    ASSUME NEW d \in Seq(Entries), NEW new \in Entries, Distinct(d),
           \A e \in ToSet(d) : e.key # new.key
    PROVE  LET c == Append(d, new)
           IN  /\ c \in Seq(Entries) /\ Len(c) = Len(d) + 1 /\ Distinct(c)
               /\ ToSet(c) = ToSet(d) \cup {new}
               /\ \A kind : /\ Aged(kind, d)
                            /\ \A e \in ToSet(d) : Stored(kind, e) <= Stored(kind, new)
                            => Aged(kind, c)
  <1> DEFINE c == Append(d, new)
  <1>1. /\ c \in Seq(Entries) /\ Len(c) = Len(d) + 1 /\ Len(d) \in Nat
        /\ \A i \in 1..Len(d) : c[i] = d[i] /\ d[i] \in ToSet(d)
        /\ c[Len(d) + 1] = new
    BY Members
  <1> HIDE DEF c
  <1>2. \A i \in 1..Len(c) : i \in 1..Len(d) \/ i = Len(d) + 1
    BY <1>1
  <1>3. Distinct(c)
    BY <1>1, <1>2 DEF Distinct
  <1>4. ToSet(c) = ToSet(d) \cup {new}
    <2>1. \A e : e \in ToSet(c) <=> \E i \in 1..Len(c) : c[i] = e
      BY <1>1, Members
    <2>2. \A e : e \in ToSet(d) <=> \E i \in 1..Len(d) : d[i] = e
      BY Members
    <2>3. \A i \in 1..Len(d) : i \in 1..Len(c)
      BY <1>1
    <2>4. Len(d) + 1 \in 1..Len(c)
      BY <1>1
    <2> QED
      BY <1>1, <1>2, <2>1, <2>2, <2>3, <2>4
  <1>5. ASSUME NEW kind, Aged(kind, d), \A e \in ToSet(d) : Stored(kind, e) <= Stored(kind, new)
        PROVE  Aged(kind, c)
    <2> SUFFICES ASSUME NEW i \in 1..Len(c), NEW j \in 1..Len(c), i < j
                 PROVE  Stored(kind, c[i]) <= Stored(kind, c[j])
      BY DEF Aged
    <2>1. i \in 1..Len(d) /\ (j \in 1..Len(d) \/ j = Len(d) + 1)
      BY <1>1, <1>2
    <2>2. CASE j \in 1..Len(d)
      BY <1>1, <1>5, <2>1, <2>2 DEF Aged
    <2>3. CASE j = Len(d) + 1
      BY <1>1, <1>5, <2>1, <2>3
    <2> QED
      BY <2>1, <2>2, <2>3
  <1>6. /\ c \in Seq(Entries) /\ Len(c) = Len(d) + 1 /\ Distinct(c)
        /\ ToSet(c) = ToSet(d) \cup {new}
        /\ \A kind : /\ Aged(kind, d)
                     /\ \A e \in ToSet(d) : Stored(kind, e) <= Stored(kind, new)
                     => Aged(kind, c)
    BY <1>1, <1>3, <1>4, <1>5
  <1> QED
    BY <1>6 DEF c

\* A new entry in the place of the old one.
LEMMA MapSetKeeps ==
    ASSUME NEW d \in Seq(Entries), NEW new \in Entries, Distinct(d)
    PROVE  LET c == MapSet(d, new)
           IN  /\ c \in Seq(Entries) /\ Len(c) <= Len(d) + 1 /\ Distinct(c)
               /\ ToSet(c) \subseteq ToSet(d) \cup {new} /\ new \in ToSet(c)
               /\ \A e \in ToSet(d) : e.key # new.key => e \in ToSet(c)
  <1>1. CASE \E i \in 1..Len(d) : d[i].key = new.key
    <2> DEFINE c == [i \in 1..Len(d) |-> IF d[i].key = new.key THEN new ELSE d[i]]
    <2>1. MapSet(d, new) = c
      BY <1>1 DEF MapSet
    <2>2. \A i \in 1..Len(d) : c[i] = IF d[i].key = new.key THEN new ELSE d[i]
      OBVIOUS
    <2>3. \A i \in 1..Len(d) : d[i] \in Entries /\ d[i] \in ToSet(d)
      BY Members
    <2>4. c \in Seq(Entries) /\ Len(c) = Len(d) /\ Len(d) \in Nat
      BY <2>3
    <2> HIDE DEF c
    <2>5. Distinct(c)
      BY <2>2, <2>3, <2>4 DEF Distinct
    <2>6. \A e : e \in ToSet(c) <=> \E i \in 1..Len(c) : c[i] = e
      BY <2>4, Members
    <2>7. \A e : e \in ToSet(d) <=> \E i \in 1..Len(d) : d[i] = e
      BY Members
    <2>8. ToSet(c) \subseteq ToSet(d) \cup {new} /\ new \in ToSet(c)
      BY <1>1, <2>2, <2>3, <2>4, <2>6
    <2>9. \A e \in ToSet(d) : e.key # new.key => e \in ToSet(c)
      BY <2>2, <2>4, <2>6, <2>7
    <2> QED
      BY <2>1, <2>4, <2>5, <2>8, <2>9
  <1>2. CASE ~\E i \in 1..Len(d) : d[i].key = new.key
    <2>1. MapSet(d, new) = Append(d, new)
      BY <1>2 DEF MapSet
    <2>2. \A e \in ToSet(d) : e.key # new.key
      BY <1>2, Members
    <2>3. /\ Append(d, new) \in Seq(Entries) /\ Len(Append(d, new)) = Len(d) + 1
          /\ Distinct(Append(d, new)) /\ ToSet(Append(d, new)) = ToSet(d) \cup {new}
      BY <2>2, AppendKeeps
    <2> QED
      BY <2>1, <2>3
  <1> QED
    BY <1>1, <1>2
\* A cache keeps what it should when it makes room: at most Cap entries, one of each
\* key, the new one among them, in the order of their age where a new one goes to the
\* end, and what is live unless Cap others are.
Fits(kind, c, new, after) ==
    /\ after \in Seq(Entries) /\ Len(after) <= Cap /\ Distinct(after)
    /\ ToSet(after) \subseteq ToSet(c) \cup {new} /\ new \in ToSet(after)
    /\ /\ kind \in {"store", "metadata"} /\ Aged(kind, c)
       /\ \A e \in ToSet(c) : Stored(kind, e) <= Stored(kind, new)
       => Aged(kind, after)
    /\ kind # "dns" => \A e \in ToSet(c) :
          Live(e) => Len(Swept(c)) >= Cap \/ \E f \in ToSet(after) : f.key = e.key

\* Whether it appends to a part of itself
LEMMA AppendFits ==
    ASSUME Cap \in Nat \ {0}, NEW kind, NEW c \in Seq(Entries), Distinct(c), NEW new \in Entries,
           NEW d \in Seq(Entries), Part(d, c), Len(d) < Cap, \A e \in ToSet(d) : e.key # new.key,
           \A e \in ToSet(c) : Live(e) /\ e.key # new.key => e \in ToSet(d) \/ Len(Swept(c)) >= Cap
    PROVE  Fits(kind, c, new, Append(d, new))
  <1> DEFINE after == Append(d, new)
  <1>1. ToSet(d) \subseteq ToSet(c) /\ Distinct(d) /\ (Aged(kind, c) => Aged(kind, d))
    BY PartKeeps
  <1>2. /\ after \in Seq(Entries) /\ Len(after) = Len(d) + 1 /\ Distinct(after)
        /\ ToSet(after) = ToSet(d) \cup {new}
        /\ /\ Aged(kind, d)
           /\ \A e \in ToSet(d) : Stored(kind, e) <= Stored(kind, new)
           => Aged(kind, after)
    BY <1>1, AppendKeeps
  <1> HIDE DEF after
  <1>3. Len(after) <= Cap
    BY <1>2
  <1>4. \A e \in ToSet(c) :
          Live(e) => Len(Swept(c)) >= Cap \/ \E f \in ToSet(after) : f.key = e.key
    BY <1>2
  <1>5. Fits(kind, c, new, after)
    BY <1>1, <1>2, <1>3, <1>4 DEF Fits
  <1> QED
    BY <1>5 DEF after

\* or sets an entry in it.
LEMMA MapSetFits ==
    ASSUME Cap \in Nat \ {0}, NEW kind, kind \notin {"store", "metadata"},
           NEW c \in Seq(Entries), Distinct(c), NEW new \in Entries,
           NEW d \in Seq(Entries), Part(d, c), Len(d) < Cap,
           kind # "dns" => \A e \in ToSet(c) : Live(e) => e \in ToSet(d) \/ Len(Swept(c)) >= Cap
    PROVE  Fits(kind, c, new, MapSet(d, new))
  <1> DEFINE after == MapSet(d, new)
  <1>1. ToSet(d) \subseteq ToSet(c) /\ Distinct(d)
    BY PartKeeps
  <1>2. /\ after \in Seq(Entries) /\ Len(after) <= Len(d) + 1 /\ Distinct(after)
        /\ ToSet(after) \subseteq ToSet(d) \cup {new} /\ new \in ToSet(after)
        /\ \A e \in ToSet(d) : e.key # new.key => e \in ToSet(after)
    BY <1>1, MapSetKeeps
  <1> HIDE DEF after
  <1>3. Len(after) <= Cap
    BY <1>2
  <1>4. kind # "dns" => \A e \in ToSet(c) :
          Live(e) => Len(Swept(c)) >= Cap \/ \E f \in ToSet(after) : f.key = e.key
    BY <1>2
  <1>5. Fits(kind, c, new, after)
    BY <1>1, <1>2, <1>3, <1>4 DEF Fits
  <1> QED
    BY <1>5 DEF after

\* The client store's cache, which evicts a live entry only when all the others are.
LEMMA WithCacheFits ==
    ASSUME Cap \in Nat \ {0}, NEW c \in Seq(Entries), Len(c) <= Cap, Distinct(c), NEW new \in Entries
    PROVE  Fits("store", c, new, WithCache(c, new))
  <1> DEFINE rest == Without(c, new.key)
             d == IF Len(rest) >= Cap THEN Evict(rest) ELSE rest
  <1>1. /\ rest \in Seq(Entries) /\ Part(rest, c) /\ Len(rest) <= Len(c)
        /\ ToSet(rest) = {e \in ToSet(c) : e.key # new.key}
    BY WithoutPart
  <1>2. WithCache(c, new) = Append(d, new)
    BY DEF WithCache
  <1> HIDE DEF rest
  <1>3. /\ Swept(rest) \in Seq(Entries) /\ Part(Swept(rest), rest) /\ Len(Swept(rest)) <= Len(rest)
        /\ ToSet(Swept(rest)) = {e \in ToSet(rest) : Live(e)}
        /\ Swept(rest) # rest => Len(Swept(rest)) < Len(rest)
        /\ Swept(rest) = rest => \A e \in ToSet(rest) : Live(e)
    BY <1>1, SweptPart
  <1>4. /\ d \in Seq(Entries) /\ Part(d, rest) /\ Len(d) < Cap
        /\ \A e \in ToSet(rest) : Live(e) => e \in ToSet(d) \/ Len(Swept(c)) >= Cap
    <2>1. CASE ~(Len(rest) >= Cap)
      BY <1>1, <2>1, PartSelf
    <2>2. CASE Len(rest) >= Cap /\ Swept(rest) # rest
      <3>1. d = Swept(rest)
        BY <2>2 DEF Evict
      <3>2. Len(d) < Cap
        BY <1>1, <1>3, <2>2, <3>1
      <3> HIDE DEF d
      <3> QED
        BY <1>3, <3>1, <3>2
    <2>3. CASE Len(rest) >= Cap /\ Swept(rest) = rest
      <3>1. d = Tail(rest) /\ rest # <<>>
        BY <1>1, <2>3 DEF Evict
      <3>2. d \in Seq(Entries) /\ Part(d, rest) /\ Len(d) = Len(rest) - 1
        BY <1>1, <3>1, TailPart
      <3>3. Len(Swept(c)) >= Cap
        <4>1. Len(rest) <= Len(Swept(c)) /\ Len(Swept(c)) \in Nat /\ Len(rest) \in Nat
          BY <1>1, <1>3, <2>3, LivePart, SweptPart
        <4> QED
          BY <2>3, <4>1
      <3> HIDE DEF d
      <3>4. Len(d) < Cap
        BY <1>1, <3>2
      <3> QED
        BY <3>2, <3>3, <3>4
    <2> QED
      BY <2>1, <2>2, <2>3
  <1> HIDE DEF d
  <1>5. Part(d, c) /\ ToSet(d) \subseteq ToSet(rest)
    BY <1>1, <1>4, PartOfPart, PartKeeps
  <1>6. /\ \A e \in ToSet(d) : e.key # new.key
        /\ \A e \in ToSet(c) : Live(e) /\ e.key # new.key => e \in ToSet(d) \/ Len(Swept(c)) >= Cap
    BY <1>1, <1>4, <1>5
  <1>7. Fits("store", c, new, Append(d, new))
    BY <1>4, <1>5, <1>6, AppendFits
  <1> QED
    BY <1>2, <1>7

\* The caches that sweep, remove and make room.
LEMMA SweepingFits ==
    ASSUME Cap \in Nat \ {0}, NEW kind, NEW c \in Seq(Entries), Len(c) <= Cap, Distinct(c),
           NEW new \in Entries
    PROVE  Fits(kind, c, new, Append(Room(Without(Swept(c), new.key)), new))
  <1> DEFINE live == Swept(c)
             rest == Without(live, new.key)
             d == Room(rest)
  <1>1. /\ live \in Seq(Entries) /\ Part(live, c) /\ Len(live) <= Len(c)
        /\ ToSet(live) = {e \in ToSet(c) : Live(e)}
    BY SweptPart
  <1> HIDE DEF live
  <1>2. /\ rest \in Seq(Entries) /\ Part(rest, live) /\ Len(rest) <= Len(live)
        /\ ToSet(rest) = {e \in ToSet(live) : e.key # new.key}
    BY <1>1, WithoutPart
  <1> HIDE DEF rest
  <1>3. Len(rest) <= Cap /\ Len(live) \in Nat /\ Len(rest) \in Nat
    BY <1>1, <1>2
  <1>4. d \in Seq(Entries) /\ Part(d, rest) /\ Len(d) < Cap /\ (Len(rest) < Cap => d = rest)
    BY <1>2, <1>3, RoomPart
  <1> HIDE DEF d
  <1>5. Part(d, live) /\ Part(d, c) /\ ToSet(d) \subseteq ToSet(rest)
    BY <1>1, <1>2, <1>4, PartOfPart, PartKeeps
  <1>6. \A e \in ToSet(d) : e.key # new.key
    BY <1>2, <1>5
  <1>7. Len(rest) < Cap \/ Len(live) >= Cap
    BY <1>2, <1>3
  <1>8. \A e \in ToSet(c) : Live(e) /\ e.key # new.key => e \in ToSet(d) \/ Len(live) >= Cap
    BY <1>1, <1>2, <1>4, <1>7
  <1>9. \A e \in ToSet(c) : Live(e) /\ e.key # new.key => e \in ToSet(d) \/ Len(Swept(c)) >= Cap
    BY <1>8 DEF live
  <1>10. Fits(kind, c, new, Append(d, new))
    BY <1>4, <1>5, <1>6, <1>9, AppendFits
  <1> QED
    BY <1>10 DEF d, rest, live

\* Every cache.
LEMMA KeptFits ==
    ASSUME Cap \in Nat \ {0}, NEW kind \in Kinds, NEW c \in Seq(Entries), Len(c) <= Cap, Distinct(c),
           NEW new \in Entries
    PROVE  Fits(kind, c, new, Kept(kind, c, new))
  <1>1. CASE kind = "store"
    <2>1. Kept(kind, c, new) = WithCache(c, new)
      BY <1>1 DEF Kept
    <2> QED
      BY <1>1, <2>1, WithCacheFits
  <1>2. CASE kind = "cimd"
    <2> DEFINE live == Swept(c)
               d == Room(live)
    <2>1. Kept(kind, c, new) = MapSet(d, new)
      BY <1>2 DEF Kept, RememberCimd
    <2>2. /\ live \in Seq(Entries) /\ Part(live, c) /\ Len(live) <= Cap
          /\ ToSet(live) = {e \in ToSet(c) : Live(e)}
      <3>1. /\ live \in Seq(Entries) /\ Part(live, c) /\ Len(live) <= Len(c)
            /\ ToSet(live) = {e \in ToSet(c) : Live(e)}
        BY SweptPart
      <3> HIDE DEF live
      <3> QED
        BY <3>1
    <2> HIDE DEF live
    <2>3. d \in Seq(Entries) /\ Part(d, live) /\ Len(d) < Cap /\ (Len(live) < Cap => d = live)
      BY <2>2, RoomPart
    <2> HIDE DEF d
    <2>4. Part(d, c)
      BY <2>2, <2>3, PartOfPart
    <2>5. Len(live) < Cap \/ Len(live) >= Cap
      BY <2>2
    <2>6. \A e \in ToSet(c) : Live(e) => e \in ToSet(d) \/ Len(Swept(c)) >= Cap
      BY <2>2, <2>3, <2>5 DEF live
    <2>7. Fits(kind, c, new, MapSet(d, new))
      BY <1>2, <2>3, <2>4, <2>6, MapSetFits
    <2> QED
      BY <2>1, <2>7
  <1>3. CASE kind \in {"jwks", "metadata"}
    <2>1. Kept(kind, c, new) = Append(Room(Without(Swept(c), new.key)), new)
      BY <1>3 DEF Kept, RememberJwks, RememberMetadata
    <2> QED
      BY <2>1, SweepingFits
  <1>4. CASE kind = "dns"
    <2>1. Kept(kind, c, new) = MapSet(Room(c), new)
      BY <1>4 DEF Kept, Remember
    <2>2. Room(c) \in Seq(Entries) /\ Part(Room(c), c) /\ Len(Room(c)) < Cap
      BY RoomPart
    <2>3. Fits(kind, c, new, MapSet(Room(c), new))
      BY <1>4, <2>2, MapSetFits
    <2> QED
      BY <2>1, <2>3
  <1> QED
    BY <1>1, <1>2, <1>3, <1>4 DEF Kinds, ClientKinds
-------------------------------------------------------------------------------
(* What a client may be told *)

\* What an outcome owes to one registration.
Meets(record, outcome) ==
    /\ \E registered \in record.redirectUris : Matches(registered, outcome.uri)
    /\ outcome.kind = "accepted" =>
          /\ record.scopes = {} \/ outcome.scope \subseteq record.scopes
          /\ record.alg = "absent" \/ outcome.alg = record.alg
          /\ record.requirePkce => outcome.pkce

\* A registered loopback URI that differs in its port differs in nothing else.
LEMMA LoopbackMatches ==
    ASSUME NEW registered \in Uris, NEW uri, registered = [uri EXCEPT !.port = registered.port]
    PROVE  [registered EXCEPT !.port = 0] = [uri EXCEPT !.port = 0]
  OBVIOUS

\* parseAuthorizationRequest looks at one registration only.
LEMMA ParseMeets ==
    ASSUME NEW record \in Registrations, NEW form,
           ParseRequest(Normalise(record), form).kind \in {"error", "accepted"}
    PROVE  Meets(record, ParseRequest(Normalise(record), form))
  <1> DEFINE client == Normalise(record)
             out == ParseRequest(client, form)
  <1>1. /\ client.redirectUris = record.redirectUris /\ client.alg = record.alg
        /\ client.requirePkce = record.requirePkce
        /\ client.scopes = IF record.scopes = {} THEN {"absent"} ELSE record.scopes
    BY DEF Normalise, Registrations
  <1>2. record.redirectUris \in SUBSET Uris /\ "absent" \notin record.scopes
    BY DEF Registrations
  <1> HIDE DEF client
  <1>3. /\ RedirectUriAllowed(client, form.redirectUri)
        /\ out = IF Fails(client, form) THEN Redirect(form.redirectUri) ELSE Request(client, form)
    BY DEF ParseRequest, Page, client
  <1>4. out.uri = form.redirectUri
    BY <1>3 DEF Redirect, Request
  <1>5. \E registered \in record.redirectUris : Matches(registered, out.uri)
    <2>1. PICK registered \in record.redirectUris :
              \/ registered = out.uri
              \/ /\ registered.host \in Loopback
                 /\ registered = [out.uri EXCEPT !.port = registered.port]
      BY <1>1, <1>3, <1>4 DEF RedirectUriAllowed
    <2>2. registered \in Uris
      BY <1>2
    <2>3. Matches(registered, out.uri)
      <3> HIDE DEF out
      <3> QED
        BY <2>1, <2>2, LoopbackMatches DEF Matches
    <2> QED
      BY <2>3
  <1>6. ASSUME out.kind = "accepted"
        PROVE  /\ record.scopes = {} \/ out.scope \subseteq record.scopes
               /\ record.alg = "absent" \/ out.alg = record.alg
               /\ record.requirePkce => out.pkce
    <2>1. ~Fails(client, form) /\ out = Request(client, form)
      BY <1>3, <1>6 DEF Redirect
    <2>2. /\ out.scope = form.scope /\ out.pkce = (form.challenge # "absent")
          /\ out.alg = IF client.alg # "absent" THEN client.alg ELSE form.alg
      BY <2>1 DEF Request
    <2>3. /\ client.scopes # {"absent"} => form.scope \subseteq client.scopes
          /\ client.requirePkce => form.challenge # "absent"
      BY <2>1 DEF Fails
    <2> HIDE DEF out
    <2>4. record.scopes # {} => record.scopes # {"absent"}
      BY <1>2
    <2> QED
      BY <1>1, <2>2, <2>3, <2>4
  <1>7. Meets(record, out)
    <2> HIDE DEF out
    <2> QED
      BY <1>5, <1>6 DEF Meets
  <1> QED
    BY <1>7 DEF client
-------------------------------------------------------------------------------
(* The inductive invariant *)

Context ==
    /\ clock \in 0..MaxTime /\ deployment \in Deployments
    /\ history \in [Keys -> Histories] /\ changedAt \in [Keys -> Never..MaxTime]

\* An entry was stored at most now, and its version was what the source held at most
\* one load before that.
Good(kind, e) ==
    /\ e.value \in 0..Version(e.key)
    /\ Stored(kind, e) <= clock /\ e.expiresAt <= clock + Ttl
    /\ e.value # 0 =>
          e.expiresAt <= LastTrue(e.key, e.value) + LoadTime + TtlOf(Content(kind, e.key, e.value))

CacheOK(kind, c) ==
    /\ Len(c) <= Cap /\ Distinct(c)
    /\ kind \in {"store", "metadata"} => Aged(kind, c)
    /\ \A e \in ToSet(c) : Good(kind, e)

Cached == cache \in [Kinds -> Seq(Entries)] /\ \A kind \in Kinds : CacheOK(kind, cache[kind])

Jobs == [step : {"idle", "check", "load", "keep"}, kind : Kinds, key : Keys,
         form : Forms \cup {NoKey}, now : Nat, value : 1..2, due : Nat]

\* A question: of a client only with a form.
Asked(j) ==
    /\ j \in Jobs /\ j.key \notin Static /\ (j.kind \in ClientKinds => j.form \in Forms)
    /\ j.value \in 1..Version(j.key) /\ j.now <= clock

\* A lookup that waits; what it has from the source was there at most one load before
\* it must be done.
Waiting(j) ==
    /\ j \in Jobs /\ j.key \notin Static /\ (j.kind \in ClientKinds => j.form \in Forms)
    /\ j.step \in {"check", "load", "keep"} /\ j.kind \in deployment.kinds
    /\ j.step = "check" => j.kind = "cimd"
    /\ j.value \in 1..Version(j.key)
    /\ j.now <= clock /\ clock <= j.due /\ j.due <= clock + LoadTime
    /\ j.step = "keep" => j.due <= LastTrue(j.key, j.value) + LoadTime

Looking ==
    /\ job \in [Requests -> Jobs \cup {Idle}]
    /\ \A r \in Requests : job[r] = Idle \/ Waiting(job[r])

Fresh(a) ==
    a.value # 0 =>
        Recent(a.key, a.value,
               IF Content(a.kind, a.key, a.value) = Absent THEN MissTtl ELSE Ttl)

Registered(a) ==
    a.outcome.kind \in {"error", "accepted"} =>
        \E record \in InForce(a.kind, a.key) : Meets(record, a.outcome)

Answered == \A a \in answers : Fresh(a) /\ Registered(a)

IInv == Context /\ Cached /\ Looking /\ Answered

\* What the context gives.
LEMMA ContextTyped ==
    ASSUME Context
    PROVE  /\ clock \in Nat /\ Cap \in Nat \ {0}
           /\ deployment.kinds \subseteq Kinds /\ deployment.keys \subseteq Keys
           /\ \A k \in Keys : /\ changedAt[k] \in Int /\ Version(k) \in {1, 2}
                              /\ \A v \in 1..2 : history[k][v] \in Contents
                              /\ \A v : LastTrue(k, v) \in Int
  <1>1. /\ deployment \in [kinds : SUBSET Kinds, cap : Nat \ {0}, keys : SUBSET Keys,
                           urls : SUBSET Keys, changing : Keys]
        /\ clock \in Nat
    BY RegistryAssumption DEF Context
  <1>2. Cap \in Nat \ {0} /\ deployment.kinds \subseteq Kinds /\ deployment.keys \subseteq Keys
    BY <1>1 DEF Cap
  <1>3. ASSUME NEW k \in Keys
        PROVE  /\ changedAt[k] \in Int /\ Version(k) \in {1, 2}
               /\ \A v \in 1..2 : history[k][v] \in Contents
               /\ \A v : LastTrue(k, v) \in Int
    <2>1. changedAt[k] \in Never..MaxTime /\ history[k] \in Histories
      BY DEF Context
    <2>2. changedAt[k] \in Int /\ history[k] \in Contents \X Contents
      BY <2>1, RegistryAssumption DEF Never
    <2>3. \A v \in 1..2 : history[k][v] \in Contents
      <3>1. \A v \in 1..2 : v = 1 \/ v = 2
        OBVIOUS
      <3>2. history[k][1] \in Contents /\ history[k][2] \in Contents
        BY <2>2
      <3> QED
        BY <3>1, <3>2
    <2> QED
      BY <1>1, <2>2, <2>3 DEF Version, LastTrue
  <1> QED
    BY <1>1, <1>2, <1>3

\* How long something is kept.
LEMMA TtlTyped ==
    ASSUME NEW content
    PROVE  TtlOf(content) \in 0..Ttl
  BY RegistryAssumption DEF TtlOf

\* What a source holds is a registration, nothing or something broken.
LEMMA ContentTyped ==
    ASSUME Context, NEW kind, NEW k \in Keys, NEW v \in 0..2
    PROVE  Content(kind, k, v) \in Contents
  <1>1. v = 0 \/ history[k][v] \in Contents
    BY ContextTyped
  <1>2. \A record \in Registrations :
            [record EXCEPT !.acrValues = {}, !.requirePkce = TRUE] \in Registrations
    BY DEF Registrations
  <1> QED
    BY <1>1, <1>2 DEF Content, Contents
-------------------------------------------------------------------------------
(* Answers *)

\* The value of an answer.
Told(j, v, outcome) == [kind |-> j.kind, key |-> j.key, value |-> v, outcome |-> outcome]

\* What is shown on a page, or has failed, promises nothing.
LEMMA NothingTold ==
    ASSUME NEW j, NEW outcome, outcome.kind \notin {"error", "accepted"}
    PROVE  Fresh(Told(j, 0, outcome)) /\ Registered(Told(j, 0, outcome))
  BY DEF Told, Fresh, Registered

\* A version that is recent enough may be told.
LEMMA RecentTold ==
    ASSUME Context, NEW j, Asked(j), NEW v \in 0..Version(j.key),
           v # 0 => Recent(j.key, v, TtlOf(Content(j.kind, j.key, v)))
    PROVE  LET a == Told(j, v, Outcome(j, Content(j.kind, j.key, v)))
           IN  Fresh(a) /\ Registered(a)
  <1> DEFINE content == Content(j.kind, j.key, v)
             outcome == Outcome(j, content)
             a == Told(j, v, outcome)
  <1>1. j.key \in Keys /\ j.key \notin Static /\ v \in 0..2
    BY ContextTyped DEF Asked, Jobs
  <1>2. a.kind = j.kind /\ a.key = j.key /\ a.value = v /\ a.outcome = outcome
    BY DEF Told
  <1> HIDE DEF a, outcome
  <1>3. Fresh(a)
    BY <1>2 DEF Fresh, TtlOf
  <1>4. Registered(a)
    <2> SUFFICES ASSUME outcome.kind \in {"error", "accepted"}
                 PROVE  \E record \in InForce(j.kind, j.key) : Meets(record, outcome)
      BY <1>2 DEF Registered
    <2>1. /\ j.kind \in ClientKinds /\ content \notin {Absent, Broken}
          /\ outcome = ParseRequest(Normalise(content), j.form)
      BY DEF outcome, Outcome, Page
    <2>2. content \in Registrations
      BY <1>1, <2>1, ContentTyped DEF Contents
    <2>3. Meets(content, outcome)
      BY <2>1, <2>2, ParseMeets
    <2>4. v # 0
      BY <2>1 DEF Content
    <2>5. v \in 1..Version(j.key) /\ Recent(j.key, v, Ttl)
      BY <1>1, <2>1, <2>4, ContextTyped DEF TtlOf
    <2>6. content \in InForce(j.kind, j.key)
      BY <1>1, <2>1, <2>5 DEF InForce
    <2> QED
      BY <2>3, <2>6
  <1>5. Fresh(a) /\ Registered(a)
    BY <1>3, <1>4
  <1> QED
    BY <1>5 DEF a, outcome

\* A client of the environment is told what the environment says.
LEMMA StaticTold ==
    ASSUME NEW j, j.key \in Static, NEW form
    PROVE  LET a == Told(j, 0, ParseRequest(Normalise(StaticClient[j.key]), form))
           IN  Fresh(a) /\ Registered(a)
  <1> DEFINE record == StaticClient[j.key]
             outcome == ParseRequest(Normalise(record), form)
             a == Told(j, 0, outcome)
  <1>1. record \in Registrations
    BY RegistryAssumption
  <1>2. a.kind = j.kind /\ a.key = j.key /\ a.value = 0 /\ a.outcome = outcome
    BY DEF Told
  <1> HIDE DEF a
  <1>3. outcome.kind \in {"error", "accepted"} => Meets(record, outcome)
    BY <1>1, ParseMeets
  <1> HIDE DEF outcome
  <1>4. InForce(j.kind, j.key) = {record}
    BY DEF InForce
  <1>5. Fresh(a) /\ Registered(a)
    BY <1>2, <1>3, <1>4 DEF Fresh, Registered
  <1> QED
    BY <1>5 DEF a, outcome
-------------------------------------------------------------------------------
(* One step of a lookup *)

\* No time passes and no source changes.
Still == UNCHANGED <<clock, deployment, history, changedAt>>

\* What is said of an instant stays so while nothing happens to it.
LEMMA StillHolds ==
    ASSUME Still
    PROVE  /\ Context => Context'
           /\ \A a : (Fresh(a) => Fresh(a)') /\ (Registered(a) => Registered(a)')
           /\ \A j : Waiting(j) => Waiting(j)'
           /\ \A kind, c : CacheOK(kind, c) => CacheOK(kind, c)'
  <1>1. Context => Context'
    BY DEF Still, Context
  <1>2. ASSUME NEW a
        PROVE  (Fresh(a) => Fresh(a)') /\ (Registered(a) => Registered(a)')
    BY DEF Still, Fresh, Registered, Recent, LastTrue, Version, Content, Urls, InForce
  <1>3. ASSUME NEW j
        PROVE  Waiting(j) => Waiting(j)'
    BY DEF Still, Waiting, LastTrue, Version
  <1>4. ASSUME NEW kind, NEW c
        PROVE  CacheOK(kind, c) => CacheOK(kind, c)'
    <2>1. \A e : Stored(kind, e)' = Stored(kind, e)
      BY DEF Still, Stored, Content, Urls
    <2>2. \A e : Good(kind, e) => Good(kind, e)'
      BY <2>1 DEF Still, Good, LastTrue, Version, Content, Urls
    <2>3. Aged(kind, c) => Aged(kind, c)'
      BY <2>1 DEF Aged
    <2>4. Cap' = Cap
      BY DEF Still, Cap
    <2> QED
      BY <2>2, <2>3, <2>4 DEF CacheOK
  <1> QED
    BY <1>1, <1>2, <1>3, <1>4

LEMMA AnswerStep ==
    ASSUME Looking, Still, NEW r \in Requests, NEW j, NEW v, NEW outcome,
           Answer(r, j, v, outcome), Fresh(Told(j, v, outcome)), Registered(Told(j, v, outcome))
    PROVE  Looking' /\ Answered'
  <1>1. job' = [job EXCEPT ![r] = Idle] /\ answers' = {Told(j, v, outcome)}
    BY DEF Answer, Told
  <1>2. job' \in [Requests -> Jobs \cup {Idle}]
    BY <1>1 DEF Looking
  <1>3. \A q \in Requests : job'[q] = Idle \/ (job'[q] = job[q] /\ Waiting(job[q]))
    BY <1>1 DEF Looking
  <1>4. Looking'
    BY <1>2, <1>3, StillHolds DEF Looking
  <1>5. Answered'
    BY <1>1, StillHolds DEF Answered
  <1> QED
    BY <1>4, <1>5

LEMMA WaitStep ==
    ASSUME Looking, Still, NEW r \in Requests, NEW j, Wait(r, j), Waiting(j)
    PROVE  Looking' /\ Answered'
  <1>1. job' = [job EXCEPT ![r] = j] /\ answers' = {}
    BY DEF Wait
  <1>2. job' \in [Requests -> Jobs \cup {Idle}]
    BY <1>1 DEF Looking, Waiting
  <1>3. \A q \in Requests : job'[q] = Idle \/ (job'[q] = job[q] /\ Waiting(job[q])) \/ job'[q] = j
    BY <1>1 DEF Looking
  <1>4. Looking'
    BY <1>2, <1>3, StillHolds DEF Looking
  <1>5. Answered'
    BY <1>1 DEF Answered
  <1> QED
    BY <1>4, <1>5

LEMMA CheckTargetStep ==
    ASSUME Context, Looking, Still, NEW r \in Requests, NEW j, Asked(j), j.form \in Forms,
           CheckTarget(r, j)
    PROVE  Looking' /\ Answered'
  <1>1. CASE j.key \in Urls /\ "cimd" \in deployment.kinds
    <2> DEFINE w == [j EXCEPT !.step = "check", !.kind = "cimd", !.due = clock + LoadTime]
    <2>1. Wait(r, w)
      BY <1>1 DEF CheckTarget
    <2>2. j \in Jobs /\ j.key \in Keys /\ clock \in Nat /\ LoadTime \in Nat
          /\ j.value \in 1..Version(j.key) /\ j.key \notin Static /\ j.now <= clock
      BY ContextTyped, RegistryAssumption DEF Asked, Jobs
    <2>3. clock + LoadTime \in Nat /\ "cimd" \in Kinds /\ j \in Jobs
      BY <2>2 DEF Kinds, ClientKinds
    <2>4. w \in Jobs /\ w.step = "check" /\ w.kind = "cimd" /\ w.key = j.key /\ w.form = j.form
          /\ w.value = j.value /\ w.now = j.now /\ w.due = clock + LoadTime
      BY <2>3 DEF Jobs
    <2> HIDE DEF w
    <2>5. Waiting(w)
      BY <1>1, <2>2, <2>4 DEF Waiting
    <2> QED
      BY <2>1, <2>5, WaitStep
  <1>2. CASE ~(j.key \in Urls /\ "cimd" \in deployment.kinds)
    <2>1. Answer(r, j, 0, Page)
      BY <1>2 DEF CheckTarget
    <2> QED
      BY <2>1, NothingTold, AnswerStep DEF Page
  <1> QED
    BY <1>1, <1>2

LEMMA DeliverStep ==
    ASSUME Context, Looking, Still, NEW r \in Requests, NEW j, Asked(j),
           NEW v \in 0..Version(j.key),
           v # 0 => Recent(j.key, v, TtlOf(Content(j.kind, j.key, v))), Deliver(r, j, v)
    PROVE  Looking' /\ Answered'
  <1> DEFINE content == Content(j.kind, j.key, v)
  <1>1. CASE j.kind = "store" /\ content = Absent /\ j.key \in Urls
    <2>1. CheckTarget(r, j) /\ j.form \in Forms
      BY <1>1 DEF Deliver, Asked, ClientKinds
    <2> QED
      BY <2>1, CheckTargetStep
  <1>2. CASE ~(j.kind = "store" /\ content = Absent /\ j.key \in Urls)
    <2>1. Answer(r, j, v, Outcome(j, content))
      BY <1>2 DEF Deliver
    <2>2. Fresh(Told(j, v, Outcome(j, content))) /\ Registered(Told(j, v, Outcome(j, content)))
      BY RecentTold
    <2> QED
      BY <2>1, <2>2, AnswerStep
  <1> QED
    BY <1>1, <1>2

\* An entry that is live was true recently enough.
LEMMA LiveRecent ==
    ASSUME Context, Cached, NEW kind \in Kinds, NEW k \in Keys, NEW e \in Lookup(kind, k)
    PROVE  /\ e.value \in 0..Version(k)
           /\ e.value # 0 => Recent(k, e.value, TtlOf(Content(kind, k, e.value)))
  <1>1. /\ cache[kind] \in Seq(Entries) /\ e \in ToSet(cache[kind]) /\ e.key = k
        /\ e.expiresAt > clock /\ Good(kind, e)
    BY DEF Lookup, Live, Cached, CacheOK
  <1>2. e \in Entries
    BY <1>1, Members
  <1>3. e.expiresAt \in Nat /\ clock \in Nat /\ LastTrue(k, e.value) \in Int
        /\ TtlOf(Content(kind, k, e.value)) \in Int /\ LoadTime \in Nat
    BY <1>2, ContextTyped, TtlTyped, RegistryAssumption DEF Entries
  <1> QED
    BY <1>1, <1>3 DEF Good, Recent

LEMMA GetStep ==
    ASSUME Context, Cached, Looking, Still, NEW r \in Requests, NEW j, Asked(j),
           j.kind \in deployment.kinds, Get(r, j)
    PROVE  Looking' /\ Answered'
  <1>1. /\ j \in Jobs /\ j.kind \in Kinds /\ j.key \in Keys /\ clock \in Nat /\ LoadTime \in Nat
        /\ j.value \in 1..Version(j.key) /\ j.key \notin Static /\ j.now <= clock
        /\ j.kind \in ClientKinds => j.form \in Forms
    BY ContextTyped, RegistryAssumption DEF Asked, Jobs
  <1>2. CASE Lookup(j.kind, j.key) # {}
    <2>1. PICK e \in Lookup(j.kind, j.key) : Deliver(r, j, e.value)
      BY <1>2 DEF Get
    <2>2. /\ e.value \in 0..Version(j.key)
          /\ e.value # 0 => Recent(j.key, e.value, TtlOf(Content(j.kind, j.key, e.value)))
      BY <1>1, LiveRecent
    <2> QED
      BY <2>1, <2>2, DeliverStep
  <1>3. CASE Lookup(j.kind, j.key) = {}
    <2> DEFINE now == IF j.kind = "jwks" THEN clock ELSE 0
               w == [j EXCEPT !.step = "load", !.now = now, !.due = clock + LoadTime]
    <2>1. Wait(r, w)
      BY <1>3 DEF Get
    <2>2. clock + LoadTime \in Nat /\ now \in Nat /\ now <= clock
      BY <1>1
    <2> HIDE DEF now
    <2>3. w \in Jobs /\ w.step = "load" /\ w.kind = j.kind /\ w.key = j.key /\ w.form = j.form
          /\ w.value = j.value /\ w.now = now /\ w.due = clock + LoadTime
      BY <1>1, <2>2 DEF Jobs
    <2> HIDE DEF w
    <2>4. Waiting(w)
      BY <1>1, <2>2, <2>3 DEF Waiting
    <2> QED
      BY <2>1, <2>4, WaitStep
  <1> QED
    BY <1>2, <1>3
-------------------------------------------------------------------------------
(* What happens to a cache *)

LEMMA CacheStays ==
    ASSUME Cached, Still, UNCHANGED cache
    PROVE  Cached'
  BY StillHolds DEF Cached

LEMMA CacheChanges ==
    ASSUME Cached, Still, NEW kind \in Kinds, NEW c \in Seq(Entries), CacheOK(kind, c),
           cache' = [cache EXCEPT ![kind] = c]
    PROVE  Cached'
  <1>1. cache' \in [Kinds -> Seq(Entries)]
    BY DEF Cached
  <1>2. \A q \in Kinds : CacheOK(q, cache'[q])
    BY DEF Cached
  <1> QED
    BY <1>1, <1>2, StillHolds DEF Cached

\* A cache that takes a good entry in is as good as before.
LEMMA KeptOK ==
    ASSUME Context, NEW kind \in Kinds, NEW c \in Seq(Entries), CacheOK(kind, c),
           NEW new \in Entries, Good(kind, new),
           kind \in {"store", "metadata"} => Stored(kind, new) = clock
    PROVE  Kept(kind, c, new) \in Seq(Entries) /\ CacheOK(kind, Kept(kind, c, new))
  <1> DEFINE after == Kept(kind, c, new)
  <1>1. Cap \in Nat \ {0} /\ Len(c) <= Cap /\ Distinct(c)
    BY ContextTyped DEF CacheOK
  <1>2. Fits(kind, c, new, after)
    BY <1>1, KeptFits
  <1> HIDE DEF after
  <1>3. \A e \in ToSet(after) : Good(kind, e)
    BY <1>2 DEF Fits, CacheOK
  <1>4. kind \in {"store", "metadata"} => Aged(kind, after)
    <2>1. \A e \in ToSet(c) : Stored(kind, e) <= clock
      BY DEF CacheOK, Good
    <2> QED
      BY <1>2, <2>1 DEF Fits, CacheOK
  <1>5. after \in Seq(Entries) /\ CacheOK(kind, after)
    BY <1>2, <1>3, <1>4 DEF Fits, CacheOK
  <1> QED
    BY <1>5 DEF after

\* An expired entry goes.
LEMMA WithoutOK ==
    ASSUME NEW kind \in Kinds, NEW c \in Seq(Entries), CacheOK(kind, c), NEW k, Context
    PROVE  Without(c, k) \in Seq(Entries) /\ CacheOK(kind, Without(c, k))
  <1> DEFINE after == Without(c, k)
  <1>1. after \in Seq(Entries) /\ Part(after, c) /\ Len(after) <= Len(c)
    BY WithoutPart
  <1> HIDE DEF after
  <1>2. /\ ToSet(after) \subseteq ToSet(c) /\ (Distinct(c) => Distinct(after))
        /\ Aged(kind, c) => Aged(kind, after)
    BY <1>1, PartKeeps
  <1>3. Len(after) <= Cap
    BY <1>1, ContextTyped DEF CacheOK
  <1>4. after \in Seq(Entries) /\ CacheOK(kind, after)
    BY <1>1, <1>2, <1>3 DEF CacheOK
  <1> QED
    BY <1>4 DEF after

\* Nothing that is live is given up, but for want of room.
Held(c, d) ==
    \A e \in ToSet(c) :
        Live(e) /\ (\A f \in ToSet(d) : f.key # e.key) => Len(Swept(c)) >= Cap

LEMMA HeldAll ==
    ASSUME NEW c \in Seq(Entries)
    PROVE  Held(c, c)
  BY DEF Held
-------------------------------------------------------------------------------
(* The steps *)

Steady == IInv' /\ \A kind \in Kinds \ {"dns"} : Held(cache[kind], cache'[kind])

\* Where the caches stay, only the lookups matter.
LEMMA SteadyCache ==
    ASSUME IInv, Still, UNCHANGED cache, Looking' /\ Answered'
    PROVE  Steady
  <1>1. IInv'
    BY CacheStays, StillHolds DEF IInv
  <1>2. \A kind \in Kinds : Held(cache[kind], cache'[kind])
    BY HeldAll DEF IInv, Cached
  <1> QED
    BY <1>1, <1>2 DEF Steady

\* What a question starts from.
Blank == [step : {"idle"}, kind : Kinds, key : Keys \cup {NoKey}, form : Forms \cup {NoKey},
          now : {0}, value : {1}, due : {0}]

Begun == [step : {"idle"}, kind : Kinds, key : Keys, form : Forms \cup {NoKey},
          now : {0}, value : {1}, due : {0}]

LEMMA IdleTyped == Idle \in Blank /\ Begun \subseteq Jobs
  BY DEF Idle, Blank, Begun, Jobs, Kinds, ClientKinds

LEMMA SteadyAuthorize ==
    ASSUME IInv, NEW r \in Requests, NEW form \in Forms, Authorize(r, form)
    PROVE  Steady
  <1> DEFINE j == [Idle EXCEPT !.kind = "store", !.key = form.clientId, !.form = form]
  <1>1. Context /\ Cached /\ Looking /\ Still /\ UNCHANGED cache
    BY DEF IInv, Authorize, Still
  <1>2. form.clientId \in Keys
    BY <1>1, ContextTyped DEF Authorize
  <1>3. /\ j \in Jobs /\ j.kind = "store" /\ j.key = form.clientId /\ j.form = form
        /\ j.value = 1 /\ j.now = 0
    <2>1. Idle \in Blank /\ "store" \in Kinds /\ Begun \subseteq Jobs
      BY IdleTyped DEF Kinds, ClientKinds
    <2>2. /\ j \in Begun /\ j.kind = "store" /\ j.key = form.clientId /\ j.form = form
          /\ j.value = 1 /\ j.now = 0
      BY <1>2, <2>1 DEF Blank, Begun
    <2> QED
      BY <2>1, <2>2
  <1>4. /\ form.clientId \in Static =>
              Answer(r, j, 0, ParseRequest(Normalise(StaticClient[form.clientId]), form))
        /\ form.clientId \notin Static =>
              \/ "store" \in deployment.kinds /\ Get(r, j)
              \/ CheckTarget(r, j)
    BY DEF Authorize
  <1> HIDE DEF j
  <1>5. form.clientId \notin Static => Asked(j)
    <2>1. 1 \in 1..Version(j.key) /\ 0 <= clock
      BY <1>1, <1>2, <1>3, ContextTyped
    <2> QED
      BY <1>3, <2>1 DEF Asked
  <1>6. Looking' /\ Answered'
    <2>1. CASE form.clientId \in Static
      BY <1>1, <1>3, <1>4, <2>1, StaticTold, AnswerStep
    <2>2. CASE form.clientId \notin Static
      BY <1>1, <1>3, <1>4, <1>5, <2>2, GetStep, CheckTargetStep
    <2> QED
      BY <2>1, <2>2
  <1> QED
    BY <1>1, <1>6, SteadyCache

LEMMA SteadyLookUp ==
    ASSUME IInv, NEW r \in Requests, NEW kind \in Kinds, NEW k \in Keys, LookUp(r, kind, k)
    PROVE  Steady
  <1> DEFINE j == [Idle EXCEPT !.kind = kind, !.key = k]
  <1>1. Context /\ Cached /\ Looking /\ Still /\ UNCHANGED cache
    BY DEF IInv, LookUp, Still
  <1>2. /\ j \in Jobs /\ j.kind = kind /\ j.key = k /\ j.value = 1 /\ j.now = 0
    <2>1. Idle \in Blank /\ Begun \subseteq Jobs
      BY IdleTyped
    <2>2. j \in Begun /\ j.kind = kind /\ j.key = k /\ j.value = 1 /\ j.now = 0
      BY <2>1 DEF Blank, Begun
    <2> QED
      BY <2>1, <2>2
  <1>3. Get(r, j) /\ kind \in deployment.kinds \ ClientKinds /\ k \notin Static
    BY DEF LookUp
  <1> HIDE DEF j
  <1>4. Asked(j)
    <2>1. 1 \in 1..Version(k) /\ 0 <= clock
      BY <1>1, ContextTyped
    <2> QED
      BY <1>2, <1>3, <2>1 DEF Asked
  <1> QED
    BY <1>1, <1>2, <1>3, <1>4, GetStep, SteadyCache

\* A lookup that waits is a question.
LEMMA WaitingAsks ==
    ASSUME IInv, NEW r \in Requests, job[r] # Idle
    PROVE  Waiting(job[r]) /\ Asked(job[r])
  BY DEF IInv, Looking, Waiting, Asked

\* A step that is not idle is not Idle's.
LEMMA IdleStep == Idle.step = "idle"
  BY DEF Idle

LEMMA SteadyTargetPublic ==
    ASSUME IInv, NEW r \in Requests, TargetPublic(r)
    PROVE  Steady
  <1> DEFINE j == job[r]
             c == cache["cimd"]
             d == IF Lookup("cimd", j.key) = {} THEN Without(c, j.key) ELSE c
  <1>1. Context /\ Cached /\ Looking /\ Still
    BY DEF IInv, TargetPublic, Still
  <1>2. /\ j.step = "check" /\ Get(r, j)
        /\ cache' = [cache EXCEPT !["cimd"] =
              IF Lookup("cimd", j.key) = {} THEN Without(@, j.key) ELSE @]
    BY DEF TargetPublic
  <1>3. Waiting(j) /\ Asked(j)
    BY <1>2, IdleStep, WaitingAsks
  <1>4. Looking' /\ Answered'
    BY <1>1, <1>2, <1>3, GetStep DEF Waiting
  <1>5. "cimd" \in Kinds /\ c \in Seq(Entries) /\ CacheOK("cimd", c)
    BY <1>1 DEF Cached, Kinds, ClientKinds
  <1>6. cache' = [cache EXCEPT !["cimd"] = d]
    BY <1>2
  <1>7. d \in Seq(Entries) /\ CacheOK("cimd", d)
    BY <1>1, <1>5, WithoutOK
  <1>8. Held(c, d)
    <2>1. CASE Lookup("cimd", j.key) = {}
      <3>1. \A e \in ToSet(c) : Live(e) => e.key # j.key
        BY <2>1 DEF Lookup
      <3>2. d = Without(c, j.key)
        BY <2>1
      <3>3. ToSet(d) = {e \in ToSet(c) : e.key # j.key}
        BY <1>5, <3>2, WithoutPart
      <3> HIDE DEF c, d, j
      <3> QED
        BY <3>1, <3>3 DEF Held
    <2>2. CASE Lookup("cimd", j.key) # {}
      BY <1>5, <2>2, HeldAll
    <2> QED
      BY <2>1, <2>2
  <1> HIDE DEF d
  <1>9. Cached'
    BY <1>1, <1>5, <1>6, <1>7, CacheChanges
  <1>10. \A kind \in Kinds : Held(cache[kind], cache'[kind])
    <2>1. \A kind \in Kinds : cache[kind] \in Seq(Entries) /\ (cache'[kind] = cache[kind] \/
              (kind = "cimd" /\ cache'[kind] = d))
      BY <1>1, <1>6 DEF Cached
    <2> QED
      BY <1>8, <2>1, HeldAll
  <1> QED
    BY <1>1, <1>4, <1>9, <1>10, StillHolds DEF Steady, IInv

LEMMA SteadyTargetRefused ==
    ASSUME IInv, NEW r \in Requests, TargetRefused(r)
    PROVE  Steady
  <1>1. Looking /\ Still /\ UNCHANGED cache
    BY DEF IInv, TargetRefused, Still
  <1>2. Answer(r, job[r], 0, Page)
    BY DEF TargetRefused
  <1>3. Looking' /\ Answered'
    BY <1>1, <1>2, NothingTold, AnswerStep DEF Page
  <1> QED
    BY <1>1, <1>3, SteadyCache

LEMMA SteadyLoad ==
    ASSUME IInv, NEW r \in Requests, Load(r)
    PROVE  Steady
  <1> DEFINE j == job[r]
             w == [j EXCEPT !.step = "keep", !.value = Version(j.key)]
  <1>1. Context /\ Looking /\ Still /\ UNCHANGED cache
    BY DEF IInv, Load, Still
  <1>2. j.step = "load" /\ job' = [job EXCEPT ![r] = w] /\ answers' = {}
    BY DEF Load
  <1>3. Waiting(j) /\ j \in Jobs /\ j.key \in Keys
    BY <1>2, IdleStep, WaitingAsks DEF Waiting, Jobs
  <1>4. Version(j.key) \in 1..2 /\ LastTrue(j.key, Version(j.key)) = clock
    BY <1>1, <1>3, ContextTyped DEF LastTrue
  <1>5. /\ w \in Jobs /\ w.step = "keep" /\ w.kind = j.kind /\ w.key = j.key /\ w.form = j.form
        /\ w.value = Version(j.key) /\ w.now = j.now /\ w.due = j.due
    <2> DEFINE version == Version(j.key)
    <2>1. version \in 1..2 /\ j \in Jobs
      BY <1>3, <1>4
    <2> HIDE DEF version, j
    <2>2. LET u == [j EXCEPT !.step = "keep", !.value = version]
          IN  /\ u \in Jobs /\ u.step = "keep" /\ u.kind = j.kind /\ u.key = j.key
              /\ u.form = j.form /\ u.value = version /\ u.now = j.now /\ u.due = j.due
      BY <2>1 DEF Jobs
    <2> QED
      BY <2>2 DEF version
  <1> HIDE DEF w
  <1>6. Waiting(w)
    <2> HIDE DEF j
    <2> QED
      BY <1>3, <1>4, <1>5 DEF Waiting
  <1>7. Wait(r, w)
    BY <1>2 DEF Wait
  <1> QED
    BY <1>1, <1>6, <1>7, WaitStep, SteadyCache

LEMMA SteadyLoadFails ==
    ASSUME IInv, NEW r \in Requests, LoadFails(r)
    PROVE  Steady
  <1>1. Looking /\ Still /\ UNCHANGED cache
    BY DEF IInv, LoadFails, Still
  <1>2. Answer(r, job[r], 0, IF job[r].kind = "store" THEN Page ELSE [kind |-> "failed"])
    BY DEF LoadFails
  <1>3. Looking' /\ Answered'
    BY <1>1, <1>2, NothingTold, AnswerStep DEF Page
  <1> QED
    BY <1>1, <1>3, SteadyCache

\* What is kept of an answer is an entry, and a good one.
LEMMA EntryGood ==
    ASSUME Context, NEW kind, NEW k \in Keys, NEW v \in 0..Version(k), NEW now \in 0..clock,
           v # 0 => clock <= LastTrue(k, v) + LoadTime
    PROVE  LET new == Entry(kind, k, v, now)
           IN  /\ new \in Entries /\ Good(kind, new)
               /\ kind # "jwks" => Stored(kind, new) = clock
  <1> DEFINE ttl == TtlOf(Content(kind, k, v))
             since == IF kind = "jwks" THEN now ELSE clock
             new == Entry(kind, k, v, now)
  <1>1. /\ clock \in Nat /\ ttl \in 0..Ttl /\ Ttl \in Nat /\ LoadTime \in Nat
        /\ Version(k) \in {1, 2} /\ LastTrue(k, v) \in Int
    BY ContextTyped, TtlTyped, RegistryAssumption
  <1>2. since \in 0..clock /\ (kind # "jwks" => since = clock)
    BY <1>1
  <1>3. new = [key |-> k, value |-> v, expiresAt |-> since + ttl]
    BY DEF Entry
  <1> HIDE DEF new, since
  <1>4. new.key = k /\ new.value = v /\ new.expiresAt = since + ttl
    BY <1>3
  <1>5. Stored(kind, new) = new.expiresAt - ttl
    BY <1>4 DEF Stored
  <1> HIDE DEF ttl
  <1>6. Stored(kind, new) = since
    BY <1>1, <1>2, <1>4, <1>5
  <1>7. new \in Entries
    BY <1>1, <1>2, <1>3 DEF Entries
  <1>8. Good(kind, new)
    <2>1. new.expiresAt <= clock + Ttl /\ Stored(kind, new) <= clock
      BY <1>1, <1>2, <1>4, <1>6
    <2>2. v # 0 => new.expiresAt <= LastTrue(k, v) + LoadTime + ttl
      BY <1>1, <1>2, <1>4
    <2> QED
      BY <1>4, <2>1, <2>2 DEF Good, ttl
  <1>9. new \in Entries /\ Good(kind, new) /\ (kind # "jwks" => Stored(kind, new) = clock)
    BY <1>2, <1>6, <1>7, <1>8
  <1> QED
    BY <1>9 DEF new

\* What taking an entry in does to the caches.
LEMMA KeptHeld ==
    ASSUME Context, Cached, Still, NEW kind \in Kinds, NEW new \in Entries, Good(kind, new),
           kind \in {"store", "metadata"} => Stored(kind, new) = clock,
           cache' = [cache EXCEPT ![kind] = Kept(kind, @, new)]
    PROVE  Cached' /\ \A q \in Kinds \ {"dns"} : Held(cache[q], cache'[q])
  <1> DEFINE c == cache[kind]
             d == Kept(kind, c, new)
  <1>1. c \in Seq(Entries) /\ CacheOK(kind, c) /\ cache' = [cache EXCEPT ![kind] = d]
    BY DEF Cached
  <1>2. d \in Seq(Entries) /\ CacheOK(kind, d)
    BY <1>1, KeptOK
  <1>3. kind # "dns" => Held(c, d)
    <2>1. Cap \in Nat \ {0} /\ Len(c) <= Cap /\ Distinct(c)
      BY <1>1, ContextTyped DEF CacheOK
    <2>2. Fits(kind, c, new, d)
      BY <1>1, <2>1, KeptFits
    <2> HIDE DEF d, c
    <2> QED
      BY <2>2 DEF Fits, Held
  <1>4. \A q \in Kinds : cache[q] \in Seq(Entries) /\ (cache'[q] = cache[q] \/
              (q = kind /\ cache'[q] = d))
    BY <1>1 DEF Cached
  <1> HIDE DEF d
  <1>5. Cached'
    BY <1>1, <1>2, CacheChanges
  <1> QED
    BY <1>3, <1>4, <1>5, HeldAll

LEMMA SteadyResolverFails ==
    ASSUME IInv, NEW r \in Requests, ResolverFails(r)
    PROVE  Steady
  <1> DEFINE j == job[r]
             new == [key |-> j.key, value |-> 0, expiresAt |-> clock + MissTtl]
  <1>1. Context /\ Cached /\ Looking /\ Still
    BY DEF IInv, ResolverFails, Still
  <1>2. /\ j.step = "load" /\ cache' = [cache EXCEPT !["dns"] = Remember(@, new)]
        /\ Answer(r, j, 0, [kind |-> "failed"])
    BY DEF ResolverFails
  <1>3. j.key \in Keys /\ clock \in Nat
    BY <1>1, <1>2, IdleStep, WaitingAsks, ContextTyped DEF Waiting, Jobs
  <1>4. new = Entry("dns", j.key, 0, 0)
    BY DEF Entry, Content, TtlOf
  <1> HIDE DEF new
  <1>5. new \in Entries /\ Good("dns", new)
    <2>1. 0 \in 0..Version(j.key) /\ 0 \in 0..clock
      BY <1>1, <1>3, ContextTyped
    <2> QED
      BY <1>1, <1>3, <1>4, <2>1, EntryGood
  <1>6. cache' = [cache EXCEPT !["dns"] = Kept("dns", @, new)]
    BY <1>2 DEF Kept
  <1>7. Cached' /\ \A q \in Kinds \ {"dns"} : Held(cache[q], cache'[q])
    BY <1>1, <1>5, <1>6, KeptHeld DEF Kinds
  <1>8. Looking' /\ Answered'
    BY <1>1, <1>2, NothingTold, AnswerStep
  <1> QED
    BY <1>1, <1>7, <1>8, StillHolds DEF Steady, IInv

LEMMA SteadyKeep ==
    ASSUME IInv, NEW r \in Requests, Keep(r)
    PROVE  Steady
  <1> DEFINE j == job[r]
             new == Entry(j.kind, j.key, j.value, j.now)
  <1>1. Context /\ Cached /\ Looking /\ Still
    BY DEF IInv, Keep, Still
  <1>2. /\ j.step = "keep" /\ Deliver(r, j, j.value)
        /\ UNCHANGED cache \/ cache' = [cache EXCEPT ![j.kind] = Kept(j.kind, @, new)]
    BY DEF Keep
  <1>3. Waiting(j) /\ Asked(j)
    BY <1>2, IdleStep, WaitingAsks
  <1>4. /\ j.kind \in Kinds /\ j.key \in Keys /\ j.value \in 1..Version(j.key)
        /\ j.now \in 0..clock /\ clock <= LastTrue(j.key, j.value) + LoadTime
        /\ clock - LastTrue(j.key, j.value) <= LoadTime
        /\ j.value \in 0..Version(j.key)
    <2>1. /\ clock \in Nat /\ Version(j.key) \in Int /\ LastTrue(j.key, j.value) \in Int
          /\ LoadTime \in Nat /\ j.kind \in Kinds /\ j.key \in Keys /\ j.now \in Nat /\ j.due \in Nat
      BY <1>1, <1>3, ContextTyped, RegistryAssumption DEF Waiting, Jobs
    <2> HIDE DEF j
    <2> QED
      BY <1>2, <1>3, <2>1 DEF Waiting
  <1> HIDE DEF j
  <1>5. new \in Entries /\ Good(j.kind, new) /\ (j.kind # "jwks" => Stored(j.kind, new) = clock)
    BY <1>1, <1>4, EntryGood
  <1> HIDE DEF new
  <1>6. Cached' /\ \A q \in Kinds \ {"dns"} : Held(cache[q], cache'[q])
    <2>1. CASE UNCHANGED cache
      BY <1>1, <2>1, CacheStays, HeldAll DEF Cached
    <2>2. CASE cache' = [cache EXCEPT ![j.kind] = Kept(j.kind, @, new)]
      BY <1>1, <1>4, <1>5, <2>2, KeptHeld
    <2> QED
      BY <1>2, <2>1, <2>2
  <1>7. Recent(j.key, j.value, TtlOf(Content(j.kind, j.key, j.value)))
    BY <1>4 DEF Recent
  <1>8. Looking' /\ Answered'
    BY <1>1, <1>2, <1>3, <1>4, <1>7, DeliverStep
  <1> QED
    BY <1>1, <1>6, <1>8, StillHolds DEF Steady, IInv

\* What the context gives after a step.
LEMMA ContextTypedThen ==
    ASSUME Context'
    PROVE  /\ clock' \in Nat
           /\ \A k \in Keys : Version(k)' \in {1, 2} /\ \A v : LastTrue(k, v)' \in Int
  <1>1. clock' \in Nat
    BY RegistryAssumption DEF Context
  <1>2. ASSUME NEW k \in Keys
        PROVE  Version(k)' \in {1, 2} /\ \A v : LastTrue(k, v)' \in Int
    <2>1. changedAt'[k] \in Never..MaxTime
      BY DEF Context
    <2>2. changedAt'[k] \in Int
      BY <2>1, RegistryAssumption DEF Never
    <2> QED
      BY <1>1, <2>2 DEF Version, LastTrue
  <1> QED
    BY <1>1, <1>2

\* Time has passed or a source has changed: a version has been true no shorter.
Later ==
    /\ Context /\ Context' /\ UNCHANGED <<deployment, history>> /\ clock <= clock'
    /\ \A k \in Keys : /\ Version(k) <= Version(k)'
                       /\ \A v \in 1..Version(k) : LastTrue(k, v) <= LastTrue(k, v)'

\* What is cached is then as good as it was.
LEMMA LaterCached ==
    ASSUME Later, Cached, UNCHANGED cache
    PROVE  Cached'
  <1>1. \A kind, e : Stored(kind, e)' = Stored(kind, e)
    BY DEF Later, Stored, Content, Urls
  <1>2. Cap' = Cap
    BY DEF Later, Cap
  <1>3. ASSUME NEW kind \in Kinds, NEW e \in Entries, Good(kind, e)
        PROVE  Good(kind, e)'
    <2> DEFINE ttl == TtlOf(Content(kind, e.key, e.value))
    <2>1. /\ e.key \in Keys /\ e.expiresAt \in Nat /\ e.value \in 0..Version(e.key)
          /\ Version(e.key) \in {1, 2} /\ Version(e.key)' \in {1, 2}
          /\ Version(e.key) <= Version(e.key)'
      BY <1>3, ContextTyped, ContextTypedThen DEF Later, Entries, Good
    <2>2. (ttl = ttl)' /\ ttl' = ttl /\ ttl \in 0..Ttl
      BY TtlTyped DEF Later, Content, Urls
    <2>3. /\ clock \in Nat /\ clock' \in Nat /\ clock <= clock' /\ Ttl \in Nat /\ LoadTime \in Nat
          /\ LastTrue(e.key, e.value) \in Int
      BY <2>1, ContextTyped, ContextTypedThen, RegistryAssumption DEF Later
    <2>4. \A v : LastTrue(e.key, v)' \in Int
      BY <2>1, ContextTypedThen DEF Later
    <2>5. e.value # 0 => LastTrue(e.key, e.value) <= LastTrue(e.key, e.value)'
      BY <2>1 DEF Later
    <2>6. Stored(kind, e) \in Int
      BY <2>1, <2>2, <2>3 DEF Stored
    <2> HIDE DEF ttl
    <2>7. /\ e.value \in 0..Version(e.key)' /\ Stored(kind, e) <= clock'
          /\ e.expiresAt <= clock' + Ttl
      BY <1>3, <2>1, <2>3, <2>6 DEF Good
    <2>8. e.value # 0 => e.expiresAt <= LastTrue(e.key, e.value)' + LoadTime + ttl
      <3> SUFFICES ASSUME e.value # 0
                   PROVE  e.expiresAt <= LastTrue(e.key, e.value)' + LoadTime + ttl
        OBVIOUS
      <3>1. e.expiresAt <= LastTrue(e.key, e.value) + LoadTime + ttl
        BY <1>3 DEF Good, ttl
      <3>2. LastTrue(e.key, e.value)' \in Int
        BY <2>4
      <3> QED
        BY <2>1, <2>2, <2>3, <2>5, <3>1, <3>2
    <2>9. e.value # 0 => e.expiresAt <=
              LastTrue(e.key, e.value)' + LoadTime + TtlOf(Content(kind, e.key, e.value))'
      BY <2>2, <2>8 DEF ttl
    <2> QED
      BY <1>1, <2>7, <2>9 DEF Good
  <1>4. ASSUME NEW kind \in Kinds
        PROVE  CacheOK(kind, cache[kind])'
    <2>1. cache[kind] \in Seq(Entries) /\ CacheOK(kind, cache[kind]) /\ cache'[kind] = cache[kind]
      BY DEF Cached
    <2>2. \A e \in ToSet(cache[kind]) : Good(kind, e)'
      BY <1>3, <2>1, Members DEF CacheOK
    <2>3. Aged(kind, cache[kind]) => Aged(kind, cache[kind])'
      BY <1>1, <2>1 DEF Aged
    <2> QED
      BY <1>2, <2>1, <2>2, <2>3 DEF CacheOK
  <1> QED
    BY <1>4 DEF Cached

LEMMA SteadyChange ==
    ASSUME IInv, NEW k \in Keys, Change(k)
    PROVE  Steady
  <1>1. /\ Context /\ Cached /\ Looking
        /\ UNCHANGED <<clock, deployment, history, cache, job>> /\ answers' = {}
        /\ changedAt' = [changedAt EXCEPT ![k] = clock] /\ changedAt[k] = Never
    BY DEF IInv, Change
  <1>2. Context'
    <2>1. clock \in Never..MaxTime
      BY <1>1, ContextTyped DEF Context, Never
    <2> QED
      BY <1>1, <2>1 DEF Context
  <1>3. ASSUME NEW q \in Keys
        PROVE  /\ Version(q) <= Version(q)'
               /\ \A v \in 1..Version(q) : LastTrue(q, v)' = LastTrue(q, v)
    <2>1. changedAt'[q] = IF q = k THEN clock ELSE changedAt[q]
      BY <1>1 DEF Context
    <2>2. clock \in Nat /\ clock # Never
      BY <1>1, ContextTyped DEF Never
    <2>3. CASE q = k
      <3>1. Version(q) = 1 /\ Version(q)' = 2 /\ changedAt'[q] = clock
        BY <1>1, <2>1, <2>2, <2>3 DEF Version
      <3>2. \A v \in 1..1 : v = 1
        OBVIOUS
      <3>3. LastTrue(q, 1) = clock /\ LastTrue(q, 1)' = clock
        BY <1>1, <3>1 DEF LastTrue
      <3> QED
        BY <3>1, <3>2, <3>3
    <2>4. CASE q # k
      <3>1. Version(q)' = Version(q) /\ \A v : LastTrue(q, v)' = LastTrue(q, v)
        BY <1>1, <2>1, <2>4 DEF Version, LastTrue
      <3> QED
        BY <1>1, <3>1, ContextTyped
    <2> QED
      BY <2>3, <2>4
  <1>4. Later
    <2>1. clock <= clock'
      BY <1>1, ContextTyped
    <2>2. \A q \in Keys : \A v \in 1..Version(q) : LastTrue(q, v) <= LastTrue(q, v)'
      BY <1>1, <1>3, ContextTyped
    <2> QED
      BY <1>1, <1>2, <1>3, <2>1, <2>2 DEF Later
  <1>5. Cached'
    BY <1>1, <1>4, LaterCached
  <1>6. Looking'
    <2>1. ASSUME NEW r \in Requests, Waiting(job[r])
          PROVE  Waiting(job[r])'
      <3> DEFINE j == job[r]
      <3>1. /\ j.key \in Keys /\ j.value \in 1..Version(j.key) /\ j' = j
            /\ Version(j.key) \in Int /\ Version(j.key)' \in Int
        <4>1. j.key \in Keys
          BY <2>1 DEF Waiting, Jobs
        <4>2. Version(j.key)' \in {1, 2}
          <5>1. \A q \in Keys : Version(q)' \in {1, 2}
            BY <1>2, ContextTypedThen
          <5> HIDE DEF j
          <5>2. j' = j
            BY <1>1 DEF j
          <5> QED
            BY <4>1, <5>1, <5>2
        <4> QED
          BY <1>1, <2>1, <4>1, <4>2, ContextTyped DEF Waiting
      <3> HIDE DEF j
      <3>2. j.value \in 1..Version(j.key)' /\ LastTrue(j.key, j.value)' = LastTrue(j.key, j.value)
        BY <1>3, <3>1
      <3>3. Waiting(j)
        BY <2>1 DEF j
      <3>4. Waiting(j)'
        BY <1>1, <3>1, <3>2, <3>3 DEF Waiting
      <3> QED
        BY <3>4 DEF j
    <2> QED
      BY <1>1, <2>1 DEF Looking
  <1>7. Answered'
    BY <1>1 DEF Answered
  <1>8. \A kind \in Kinds : Held(cache[kind], cache'[kind])
    BY <1>1, HeldAll DEF Cached
  <1> QED
    BY <1>2, <1>5, <1>6, <1>7, <1>8 DEF Steady, IInv

LEMMA SteadyTick ==
    ASSUME IInv, Tick
    PROVE  Steady
  <1>1. /\ Context /\ Cached /\ Looking
        /\ UNCHANGED <<deployment, history, changedAt, cache, job>> /\ answers' = {}
        /\ clock' = clock + 1 /\ clock < MaxTime
        /\ \A r \in Requests : job[r].step # "idle" => clock < job[r].due
    BY DEF IInv, Tick
  <1>2. Context' /\ clock \in Nat /\ clock <= clock'
    BY <1>1, ContextTyped, RegistryAssumption DEF Context
  <1>3. ASSUME NEW q \in Keys
        PROVE  /\ Version(q)' = Version(q) /\ Version(q) \in Int
               /\ \A v : /\ LastTrue(q, v) <= LastTrue(q, v)'
                         /\ LastTrue(q, v) \in Int /\ LastTrue(q, v)' \in Int
    <2>1. Version(q)' = Version(q) /\ Version(q) \in Int /\ changedAt[q] \in Int
      BY <1>1, ContextTyped DEF Version
    <2> QED
      BY <1>1, <1>2, <2>1 DEF LastTrue
  <1>4. Later
    <2>1. \A q \in Keys : Version(q) <= Version(q)'
      BY <1>3
    <2> QED
      BY <1>1, <1>2, <1>3, <2>1 DEF Later
  <1>5. Cached'
    BY <1>1, <1>4, LaterCached
  <1>6. Looking'
    <2>1. ASSUME NEW r \in Requests, Waiting(job[r])
          PROVE  Waiting(job[r])'
      <3> DEFINE j == job[r]
      <3>1. /\ Waiting(j) /\ j' = j /\ j.key \in Keys /\ clock < j.due
            /\ j.now \in Nat /\ j.due \in Nat /\ LoadTime \in Nat
        BY <1>1, <2>1, RegistryAssumption DEF Waiting, Jobs
      <3> HIDE DEF j
      <3>2. j.now <= clock' /\ clock' <= j.due /\ j.due <= clock' + LoadTime
        BY <1>1, <1>2, <3>1 DEF Waiting
      <3>3. j.step = "keep" => j.due <= LastTrue(j.key, j.value)' + LoadTime
        BY <1>3, <3>1 DEF Waiting
      <3>4. j.value \in 1..Version(j.key)'
        BY <1>3, <3>1 DEF Waiting
      <3>5. Waiting(j)'
        BY <1>1, <3>1, <3>2, <3>3, <3>4 DEF Waiting
      <3> QED
        BY <3>5 DEF j
    <2> QED
      BY <1>1, <2>1 DEF Looking
  <1>7. Answered'
    BY <1>1 DEF Answered
  <1>8. \A kind \in Kinds : Held(cache[kind], cache'[kind])
    BY <1>1, HeldAll DEF Cached
  <1> QED
    BY <1>2, <1>5, <1>6, <1>7, <1>8 DEF Steady, IInv
-------------------------------------------------------------------------------
(* The theorems *)

LEMMA Starts == Init => IInv
  <1> SUFFICES ASSUME Init
               PROVE  IInv
    OBVIOUS
  <1>1. Context
    BY RegistryAssumption DEF Init, Context, Never
  <1>2. Cached
    <2>1. Cap \in Nat \ {0}
      BY <1>1, ContextTyped
    <2>2. /\ <<>> \in Seq(Entries) /\ Len(<<>>) = 0 /\ ToSet(<<>>) = {}
          /\ \A kind : Distinct(<<>>) /\ Aged(kind, <<>>)
      BY DEF ToSet, Distinct, Aged
    <2>3. \A kind : CacheOK(kind, <<>>)
      BY <2>1, <2>2 DEF CacheOK
    <2> QED
      BY <2>2, <2>3 DEF Init, Cached
  <1>3. Looking /\ Answered
    BY DEF Init, Looking, Answered
  <1> QED
    BY <1>1, <1>2, <1>3 DEF IInv

LEMMA Steps == IInv /\ Next => Steady
  <1> SUFFICES ASSUME IInv, Next
               PROVE  Steady
    OBVIOUS
  <1>1. CASE \E r \in Requests : \E form \in Forms : Authorize(r, form)
    BY <1>1, SteadyAuthorize
  <1>2. CASE \E r \in Requests : \E kind \in Kinds, k \in Keys : LookUp(r, kind, k)
    BY <1>2, SteadyLookUp
  <1>3. CASE \E r \in Requests : TargetPublic(r) \/ TargetRefused(r)
    BY <1>3, SteadyTargetPublic, SteadyTargetRefused
  <1>4. CASE \E r \in Requests : Load(r) \/ LoadFails(r) \/ ResolverFails(r) \/ Keep(r)
    BY <1>4, SteadyLoad, SteadyLoadFails, SteadyResolverFails, SteadyKeep
  <1>5. CASE \E k \in Keys : Change(k)
    BY <1>5, SteadyChange
  <1>6. CASE Tick
    BY <1>6, SteadyTick
  <1> QED
    BY <1>1, <1>2, <1>3, <1>4, <1>5, <1>6 DEF Next

\* Where nothing happens, everything stays.
LEMMA Stutters == IInv /\ UNCHANGED vars => Steady
  <1> SUFFICES ASSUME IInv, UNCHANGED vars
               PROVE  Steady
    OBVIOUS
  <1>1. Still /\ UNCHANGED <<cache, job, answers>>
    BY DEF vars, Still
  <1>2. Looking' /\ Answered'
    BY <1>1, StillHolds DEF IInv, Looking, Answered
  <1> QED
    BY <1>1, <1>2, SteadyCache

LEMMA Inductive == Spec => []IInv
  <1>1. IInv /\ [Next]_vars => IInv'
    BY Steps, Stutters DEF Steady
  <1> QED
    BY Starts, <1>1, PTL DEF Spec

LEMMA WaitingShape ==
    ASSUME IInv, NEW r \in Requests, job[r] # Idle
    PROVE  /\ job[r].step \in {"check", "load", "keep"} /\ job[r].kind \in deployment.kinds
           /\ job[r].key \in Keys /\ job[r].value \in 1..Version(job[r].key)
           /\ job[r].now \in 0..clock /\ clock <= job[r].due
  <1>1. Waiting(job[r]) /\ clock \in Nat
    BY WaitingAsks, ContextTyped DEF IInv
  <1>2. job[r].key \in Keys /\ job[r].now \in Nat
    BY <1>1 DEF Waiting, Jobs
  <1> QED
    BY <1>1, <1>2 DEF Waiting

LEMMA CacheShape ==
    ASSUME IInv, NEW kind \in Kinds
    PROVE  /\ \A e \in ToSet(cache[kind]) :
                  /\ e.key \in Keys /\ e.value \in 0..Version(e.key)
                  /\ e.expiresAt \in 0..(clock + Ttl)
           /\ Len(cache[kind]) <= Cap
           /\ \A i, j \in 1..Len(cache[kind]) : cache[kind][i].key = cache[kind][j].key => i = j
  <1>1. Cached /\ cache[kind] \in Seq(Entries) /\ CacheOK(kind, cache[kind])
    BY DEF IInv, Cached
  <1>2. clock \in Nat /\ Ttl \in Nat
    BY ContextTyped, RegistryAssumption DEF IInv
  <1>3. ASSUME NEW e \in ToSet(cache[kind])
        PROVE  /\ e.key \in Keys /\ e.value \in 0..Version(e.key)
               /\ e.expiresAt \in 0..(clock + Ttl)
    <2>1. e \in Entries /\ Good(kind, e)
      BY <1>1, Members DEF CacheOK
    <2> QED
      BY <1>2, <2>1 DEF Entries, Good
  <1> QED
    BY <1>1, <1>3 DEF CacheOK, Distinct

\* Whatever lookups overlap, and however sources change meanwhile, no cache holds more
\* than its cap or two entries of one key, none keeps an answer for longer than it
\* may, and the client store's and the metadata's stay in the order of what was stored
\* in them (src/clients/store.js:98-115, src/clients/index.js:104-115,
\* src/crypto/jose.js:246-257, src/upstream/dns.js:85-94).
THEOREM CachesStayBounded == Spec => []Bounded
  <1>1. IInv => Bounded
    <2> SUFFICES ASSUME IInv
                 PROVE  Bounded
      OBVIOUS
    <2>1. TypeOK
      BY CacheShape, WaitingShape DEF TypeOK, IInv, Context
    <2>2. \A kind \in {"store", "metadata"} : Aged(kind, cache[kind])
      BY DEF IInv, Cached, CacheOK, Kinds, ClientKinds
    <2>3. \A kind \in {"store", "metadata"} : \A i, j \in 1..Len(cache[kind]) :
            i < j => LET StoredAt(e) == e.expiresAt - TtlOf(Content(kind, e.key, e.value))
                     IN  StoredAt(cache[kind][i]) <= StoredAt(cache[kind][j])
      BY <2>2 DEF Aged, Stored
    <2> QED
      BY <2>1, <2>3, CacheShape DEF Bounded
  <1> QED
    BY Inductive, <1>1, PTL

\* Nobody is told a record, or the absence of one, that was replaced longer ago than
\* it may be kept, and one load: not even by an answer that overtook a newer one and
\* was cached last (src/clients/store.js:104-114).
THEOREM NothingStaleIsServed == Spec => []ServedFresh
  <1>1. IInv => ServedFresh
    BY DEF IInv, Answered, Fresh, ServedFresh
  <1> QED
    BY Inductive, <1>1, PTL

\* A browser is sent only to a URI of a registration that its client has, or had until
\* a cache's lifetime and a load ago, however lookups overlap and registrations change;
\* what is accepted has the scopes, the algorithm and the PKCE challenge that the same
\* registration asks for (src/oauth/request.js:1-7, 88-148).
THEOREM AnswersKeepToOneRegistration == Spec => []AnswersAreRegistered
  <1>1. IInv => AnswersAreRegistered
    BY DEF IInv, Answered, Registered, Meets, AnswersAreRegistered
  <1> QED
    BY Inductive, <1>1, PTL

\* A cache gives an entry that is still good up only when every one of its places is
\* taken by one that is, but for that of mail records (src/clients/store.js:75-95).
THEOREM GoodEntriesStay == Spec => LiveKept
  <1>1. IInv /\ [Next]_vars =>
          [\A kind \in Kinds \ {"dns"} : \A e \in ToSet(cache[kind]) :
              Live(e) /\ (\A f \in ToSet(cache'[kind]) : f.key # e.key)
                => Len(Swept(cache[kind])) >= Cap]_vars
    BY Steps, Stutters DEF Steady, Held
  <1> QED
    BY Inductive, <1>1, PTL DEF Spec, LiveKept
===============================================================================
