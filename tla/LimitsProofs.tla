----------------------------- MODULE LimitsProofs -----------------------------
(***************************************************************************)
(* Proofs about Limits, for any requests, forms, windows, limits and delays. *)
(***************************************************************************)
EXTENDS Limits, FiniteSetTheorems, SequenceTheorems, TLAPS

(* Arithmetic *)

\* What a quotient is.
LEMMA DivBounds ==
    ASSUME NEW t \in Nat, NEW w \in Nat \ {0}
    PROVE  t \div w \in Nat /\ (t \div w) * w <= t /\ t < (t \div w) * w + w
  OBVIOUS

\* The next multiple is a whole step away.
LEMMA NextMultiple ==
    ASSUME NEW a \in Nat, NEW c \in Nat, a < c, NEW w \in Nat
    PROVE  a * w + w <= c * w
  <1>1. PICK d \in Nat : c = a + 1 + d
    <2>1. c - a - 1 \in Nat /\ c = a + 1 + (c - a - 1)
      OBVIOUS
    <2> QED
      BY <2>1
  <1>2. c * w = a * w + w + d * w
    BY <1>1
  <1>3. d * w \in Nat /\ a * w \in Nat
    OBVIOUS
  <1> QED
    BY <1>2, <1>3

\* A time lies in one bucket only.
LEMMA OneBucket ==
    ASSUME NEW t \in Nat, NEW w \in Nat \ {0}, NEW c \in Nat, c * w <= t, t <= c * w + w - 1
    PROVE  t \div w = c
  <1> DEFINE q == t \div w
  <1>1. q \in Nat /\ q * w <= t /\ t < q * w + w
    BY DivBounds
  <1> HIDE DEF q
  <1>2. q * w \in Nat /\ c * w \in Nat
    BY <1>1
  <1>3. ~(q < c) /\ ~(c < q)
    BY <1>1, <1>2, NextMultiple
  <1>4. q = c
    BY <1>1, <1>3
  <1> QED
    BY <1>4 DEF q

\* How often v fits into n.
LEMMA FitsIn ==
    ASSUME NEW g \in Nat, NEW v \in Nat \ {0}, NEW n \in Nat, g * v <= n
    PROVE  g <= n \div v
  <1> DEFINE q == n \div v
  <1>1. q \in Nat /\ n < q * v + v
    BY DivBounds
  <1> HIDE DEF q
  <1>2. q * v \in Nat /\ g * v \in Nat
    BY <1>1
  <1>3. ~(q < g)
    BY <1>1, <1>2, NextMultiple
  <1>4. g <= q
    BY <1>1, <1>3
  <1> QED
    BY <1>4 DEF q

\* Multiplication grows.
LEMMA Multiply ==
    ASSUME NEW a \in Nat, NEW c \in Nat, a <= c, NEW w \in Nat
    PROVE  a * w <= c * w /\ a * w \in Nat /\ c * w \in Nat
  <1>1. a * w \in Nat /\ c * w \in Nat
    OBVIOUS
  <1>2. CASE a < c
    BY <1>1, <1>2, NextMultiple
  <1>3. CASE a = c
    BY <1>1, <1>3
  <1> QED
    BY <1>1, <1>2, <1>3

\* Finitely many sets of at most limit elements each have together at most as
\* many as that makes: there is no least selection of them that has more.
LEMMA Together ==
    ASSUME NEW T, IsFiniteSet(T), NEW limit \in Nat, NEW set,
           \A x \in T : IsFiniteSet(set[x]) /\ Cardinality(set[x]) <= limit
    PROVE  LET all == UNION {set[x] : x \in T}
           IN  IsFiniteSet(all) /\ Cardinality(all) <= limit * Cardinality(T)
  <1> DEFINE All(U) == UNION {set[x] : x \in U}
             Good(U) == IsFiniteSet(All(U)) /\ Cardinality(All(U)) <= limit * Cardinality(U)
             Bad == {U \in SUBSET T : ~Good(U)}
  <1>1. SUFFICES ASSUME Bad # {} PROVE FALSE
    BY <1>1
  <1>2. Bad \subseteq FiniteSubsetsOf(T)
    BY FS_Subset DEF FiniteSubsetsOf
  <1>3. \E U \in Bad : \A V \in Bad : ~(<<V, U>> \in StrictSubsetOrdering(T))
    <2> HIDE DEF Bad
    <2> QED
      BY <1>1, <1>2, FS_StrictSubsetOrderingWellFounded, WFMin
  <1>4. PICK U \in Bad : \A V \in Bad : ~(<<V, U>> \in StrictSubsetOrdering(T))
    BY <1>3
  <1>5. U \subseteq T /\ IsFiniteSet(U) /\ ~Good(U)
    BY <1>4, FS_Subset
  <1>6. U # {}
    <2>1. ASSUME U = {} PROVE Good(U)
      <3>1. All(U) = {}
        BY <2>1
      <3>2. IsFiniteSet({}) /\ Cardinality({}) = 0 /\ 0 <= limit * 0
        BY FS_EmptySet
      <3> HIDE DEF All
      <3> QED
        BY <2>1, <3>1, <3>2
    <2> QED
      BY <1>5, <2>1
  <1>7. PICK x \in U : TRUE
    BY <1>6
  <1> DEFINE V == U \ {x}
  <1>8. V \subseteq T /\ V \subseteq U /\ V # U
    BY <1>5, <1>7
  <1>9. Good(V)
    <2>1. <<V, U>> \in StrictSubsetOrdering(T)
      <3> HIDE DEF V
      <3> QED
        BY <1>5, <1>8 DEF StrictSubsetOrdering
    <2>2. V \notin Bad
      BY <1>4, <2>1
    <2> QED
      BY <1>8, <2>2
  <1>10. All(U) = All(V) \cup set[x]
    BY <1>7
  <1>11. IsFiniteSet(set[x]) /\ Cardinality(set[x]) <= limit
    BY <1>5, <1>7
  <1>12. Cardinality(V) = Cardinality(U) - 1 /\ Cardinality(U) \in Nat /\ Cardinality(V) \in Nat
    BY <1>5, <1>7, FS_RemoveElement, FS_CardinalityType
  <1> HIDE DEF V, All
  <1>13. /\ IsFiniteSet(All(V) \cup set[x])
         /\ Cardinality(All(V) \cup set[x])
               = Cardinality(All(V)) + Cardinality(set[x]) - Cardinality(All(V) \cap set[x])
    BY <1>9, <1>11, FS_Union
  <1>14. /\ Cardinality(All(V)) \in Nat /\ Cardinality(set[x]) \in Nat
         /\ Cardinality(All(V) \cap set[x]) \in Nat
    BY <1>9, <1>11, FS_CardinalityType, FS_Intersection
  <1>15. limit * Cardinality(U) = limit * Cardinality(V) + limit /\ limit * Cardinality(V) \in Nat
    <2> DEFINE n == Cardinality(V)
    <2>1. n \in Nat /\ Cardinality(U) = n + 1
      BY <1>12
    <2> HIDE DEF n
    <2>2. limit * (n + 1) = limit * n + limit /\ limit * n \in Nat
      BY <2>1
    <2> QED
      BY <2>1, <2>2 DEF n
  <1>16. Good(U)
    BY <1>9, <1>10, <1>11, <1>13, <1>14, <1>15
  <1> QED
    BY <1>5, <1>16
-------------------------------------------------------------------------------
(* The counters of a check *)

Names == {"otp-send", "otp-day", "local-network", "local-address"}

Width(name) == IF name = "otp-send" THEN SendWindow ELSE IF name = "otp-day" THEN Day
               ELSE AttemptWindow

Cap(name) == IF name = "otp-send" THEN SendBurst ELSE IF name = "otp-day" THEN SendDailyLimit
             ELSE IF name = "local-network" THEN NetworkMaxAttempts ELSE MaxAttempts

\* The counters that are not protected.
Mails == {"otp-send", "otp-day"}

\* The counter that a check counts first, if it applies, and the one it ends with.
FirstOf(r) == IF form[r].kind = "otp" THEN "otp-send" ELSE "local-network"
LastOf(r) == IF form[r].kind = "otp" THEN "otp-day" ELSE "local-address"

Applies(name, r) ==
    /\ name \in {FirstOf(r), LastOf(r)}
    /\ name = "otp-send" => Windowed
    /\ name = "otp-day" => SendDailyLimit > 0
    /\ name = "local-network" => form[r].network # NoNetwork /\ NetworkMaxAttempts > 0

Tag(name, r) == IF name = "local-network" THEN form[r].network ELSE AddressKey(r)

KeyAt(name, r, t) == <<name, Tag(name, r), t \div Width(name)>>
LimitAt(name, r, t) == Limit(KeyAt(name, r, t), Width(name), Cap(name), name \notin Mails)

\* What the constants are.
LEMMA Given ==
    /\ SendWindow \in Nat /\ SendBurst \in Nat /\ SendDailyLimit \in Nat /\ NetworkMaxAttempts \in Nat
    /\ MaxDelay \in Nat /\ MaxTime \in Nat /\ Day \in Nat \ {0} /\ AttemptWindow \in Nat \ {0}
    /\ MaxAttempts \in Nat \ {0} /\ IsFiniteSet(Requests)
  BY LimitsAssumption

\* A counter that applies has a width, and every one a cap.
LEMMA WidthAndCap ==
    /\ \A name : Cap(name) \in Nat
    /\ \A name, r : Applies(name, r) => Width(name) \in Nat \ {0} /\ name \in Names
  BY Given DEF Applies, FirstOf, LastOf, Width, Cap, Windowed, Names

\* The parts of a limit.
LEMMA LimitParts ==
    ASSUME NEW name, NEW r, NEW t
    PROVE  /\ LimitAt(name, r, t).key = KeyAt(name, r, t) /\ LimitAt(name, r, t).ttl = Width(name)
           /\ LimitAt(name, r, t).max = Cap(name)
           /\ LimitAt(name, r, t).failClosed = (name \notin Mails)
           /\ KeyAt(name, r, t)[1] = name /\ KeyAt(name, r, t)[3] = t \div Width(name)
  BY DEF LimitAt, Limit, KeyAt

\* The plans of one and of two limits.
LEMMA Plans ==
    ASSUME NEW a, NEW b
    PROVE  /\ Head(<<a, b>>) = a /\ Tail(<<a, b>>) = <<b>> /\ Len(<<a, b>>) = 2 /\ <<a, b>> # <<>>
           /\ Head(<<a>>) = a /\ Tail(<<a>>) = <<>> /\ Len(<<a>>) = 1 /\ <<a>> # <<>>
           /\ <<a>> \o <<b>> = <<a, b>> /\ <<>> \o <<b>> = <<b>> /\ <<a>> \o <<>> = <<a>>
           /\ <<>> \o <<>> = <<>>
  <1>1. Head(<<a, b>>) = a /\ Len(<<a, b>>) = 2
    OBVIOUS
  <1>2. Tail(<<a, b>>) = <<b>>
    OBVIOUS
  <1>3. <<a, b>> # <<>> /\ <<a>> # <<>>
    OBVIOUS
  <1>4. Head(<<a>>) = a /\ Len(<<a>>) = 1
    OBVIOUS
  <1>5. Tail(<<a>>) = <<>>
    OBVIOUS
  <1>6. <<a>> \o <<b>> = <<a, b>>
    <2>1. <<a>> \in Seq({a, b}) /\ <<b>> \in Seq({a, b}) /\ <<a, b>> \in Seq({a, b})
      OBVIOUS
    <2>2. /\ <<a>> \o <<b>> \in Seq({a, b}) /\ Len(<<a>> \o <<b>>) = 2
          /\ \A i \in 1..2 : (<<a>> \o <<b>>)[i] = IF i <= 1 THEN <<a>>[i] ELSE <<b>>[i - 1]
      BY <2>1, <1>4, ConcatProperties
    <2>3. (<<a>> \o <<b>>)[1] = a /\ (<<a>> \o <<b>>)[2] = b
      BY <2>2
    <2> DEFINE both == <<a>> \o <<b>>
               pair == <<a, b>>
    <2>4. both \in Seq({a, b}) /\ pair \in Seq({a, b}) /\ Len(both) = Len(pair)
      BY <2>1, <2>2
    <2>5. \A i \in 1..Len(both) : both[i] = pair[i]
      BY <2>2, <2>3
    <2> HIDE DEF both, pair
    <2>6. both = pair
      BY <2>4, <2>5, SeqEqual
    <2> QED
      BY <2>6 DEF both, pair
  <1>7. <<>> \o <<b>> = <<b>>
    OBVIOUS
  <1>8. <<a>> \o <<>> = <<a>>
    OBVIOUS
  <1>9. <<>> \o <<>> = <<>>
    OBVIOUS
  <1> QED
    BY <1>1, <1>2, <1>3, <1>4, <1>5, <1>6, <1>7, <1>8, <1>9

\* A check has one limit to count, or two.
LEMMA PlanShape ==
    ASSUME NEW r \in Requests, form[r].kind \in {"otp", "local"}, PlanFor(r) # <<>>
    PROVE  LET first == FirstOf(r)
               last == LastOf(r)
           IN  \/ /\ Applies(first, r) /\ Applies(last, r)
                  /\ PlanFor(r) = <<LimitAt(first, r, now), LimitAt(last, r, now)>>
               \/ Applies(first, r) /\ ~Applies(last, r) /\ PlanFor(r) = <<LimitAt(first, r, now)>>
               \/ ~Applies(first, r) /\ Applies(last, r) /\ PlanFor(r) = <<LimitAt(last, r, now)>>
  <1> DEFINE A == LimitAt(FirstOf(r), r, now)
             B == LimitAt(LastOf(r), r, now)
  <1>1. PlanFor(r) = (IF Applies(FirstOf(r), r) THEN <<A>> ELSE <<>>)
                       \o (IF Applies(LastOf(r), r) THEN <<B>> ELSE <<>>)
    <2>1. CASE form[r].kind = "otp"
      <3>1. FirstOf(r) = "otp-send" /\ LastOf(r) = "otp-day"
        BY <2>1 DEF FirstOf, LastOf
      <3>2. (Applies("otp-send", r) <=> Windowed) /\ (Applies("otp-day", r) <=> SendDailyLimit > 0)
        BY <3>1 DEF Applies
      <3>3. /\ LimitAt("otp-send", r, now)
                  = Limit(<<"otp-send", AddressKey(r), now \div SendWindow>>, SendWindow, SendBurst, FALSE)
            /\ LimitAt("otp-day", r, now)
                  = Limit(<<"otp-day", AddressKey(r), now \div Day>>, Day, SendDailyLimit, FALSE)
        BY DEF LimitAt, KeyAt, Tag, Width, Cap, Mails
      <3> QED
        BY <2>1, <3>1, <3>2, <3>3 DEF PlanFor, SendPlan
    <2>2. CASE form[r].kind = "local"
      <3>1. FirstOf(r) = "local-network" /\ LastOf(r) = "local-address"
        BY <2>2 DEF FirstOf, LastOf
      <3>2. /\ Applies("local-network", r) <=> form[r].network # NoNetwork /\ NetworkMaxAttempts > 0
            /\ Applies("local-address", r)
        BY <3>1 DEF Applies
      <3>3. /\ LimitAt("local-network", r, now)
                  = Limit(<<"local-network", form[r].network, now \div AttemptWindow>>,
                          AttemptWindow, NetworkMaxAttempts, TRUE)
            /\ LimitAt("local-address", r, now)
                  = Limit(<<"local-address", AddressKey(r), now \div AttemptWindow>>,
                          AttemptWindow, MaxAttempts, TRUE)
        BY DEF LimitAt, KeyAt, Tag, Width, Cap, Mails
      <3> QED
        BY <2>2, <3>1, <3>2, <3>3 DEF PlanFor, AttemptPlan
    <2> QED
      BY <2>1, <2>2
  <1> HIDE DEF A, B
  <1>2. /\ <<A>> \o <<B>> = <<A, B>> /\ <<>> \o <<B>> = <<B>> /\ <<A>> \o <<>> = <<A>>
        /\ <<>> \o <<>> = <<>>
    BY Plans
  <1>3. \/ Applies(FirstOf(r), r) /\ Applies(LastOf(r), r) /\ PlanFor(r) = <<A, B>>
        \/ Applies(FirstOf(r), r) /\ ~Applies(LastOf(r), r) /\ PlanFor(r) = <<A>>
        \/ ~Applies(FirstOf(r), r) /\ Applies(LastOf(r), r) /\ PlanFor(r) = <<B>>
    BY <1>1, <1>2
  <1> QED
    BY <1>3 DEF A, B
-------------------------------------------------------------------------------
(* What a counter accounts for *)

Entries == [expiresAt : Nat, count : Nat \ {0}, failClosed : BOOLEAN]

\* A counter of a bucket that began at start and lets cap through.  It was renewed
\* g times, a life of w + 1 seconds after the other, and evicted v times, and n
\* checks got past it.
Sound(e, start, w, cap, n, v) ==
    /\ e \in Entries
    /\ e.expiresAt <= start + w + w + MaxDelay - 1
    /\ \E g \in Nat : /\ start + w + g * (w + 1) <= e.expiresAt
                      /\ n <= (g + v) * cap + e.count
                      /\ n <= (g + v) * cap + cap

\* The same of a bucket without a counter at t: there was none, or it is evicted.
Gone(t, start, w, cap, n, v) ==
    \E g \in Nat : /\ start + g * (w + 1) <= t
                  /\ g * (w + 1) <= w + MaxDelay - 1
                  /\ n <= (g + v) * cap

\* Nothing was counted.
LEMMA NeverCounted ==
    ASSUME NEW start \in Nat, NEW w \in Nat \ {0}, NEW cap \in Nat, NEW t \in Nat, start <= t
    PROVE  Gone(t, start, w, cap, 0, 0)
  <1>1. 0 * (w + 1) = 0 /\ (0 + 0) * cap = 0
    OBVIOUS
  <1>2. start + 0 * (w + 1) <= t /\ 0 * (w + 1) <= w + MaxDelay - 1 /\ 0 <= (0 + 0) * cap
    BY <1>1, Given
  <1> QED
    BY <1>2 DEF Gone

\* It stays so, however late it gets.
LEMMA StaysGone ==
    ASSUME NEW start \in Nat, NEW w \in Nat \ {0}, NEW cap \in Nat, NEW t \in Nat, NEW n \in Nat,
           NEW v \in Nat, Gone(t, start, w, cap, n, v), NEW later \in Nat, t <= later
    PROVE  Gone(later, start, w, cap, n, v)
  <1>1. PICK g \in Nat : /\ start + g * (w + 1) <= t
                        /\ g * (w + 1) <= w + MaxDelay - 1
                        /\ n <= (g + v) * cap
    BY DEF Gone
  <1>2. g * (w + 1) \in Nat
    OBVIOUS
  <1>3. start + g * (w + 1) <= later
    BY <1>1, <1>2
  <1> QED
    BY <1>1, <1>3 DEF Gone

\* The first count of a bucket, and the first after an eviction.
LEMMA FirstCount ==
    ASSUME NEW start \in Nat, NEW w \in Nat \ {0}, NEW cap \in Nat, NEW t \in Nat,
           t <= start + w - 1 + MaxDelay, NEW closed \in BOOLEAN,
           NEW n \in Nat, NEW v \in Nat, Gone(t, start, w, cap, n, v),
           NEW m \in Nat, m = n \/ (m = n + 1 /\ 1 <= cap)
    PROVE  Sound([expiresAt |-> t + w, count |-> 1, failClosed |-> closed], start, w, cap, m, v)
  <1> DEFINE e == [expiresAt |-> t + w, count |-> 1, failClosed |-> closed]
  <1>1. e \in Entries /\ e.expiresAt = t + w /\ e.count = 1
    BY DEF Entries
  <1> HIDE DEF e
  <1>2. PICK g \in Nat : /\ start + g * (w + 1) <= t
                        /\ g * (w + 1) <= w + MaxDelay - 1
                        /\ n <= (g + v) * cap
    BY DEF Gone
  <1>3. g * (w + 1) \in Nat /\ (g + v) * cap \in Nat
    OBVIOUS
  <1>4. /\ start + w + g * (w + 1) <= e.expiresAt
        /\ m <= (g + v) * cap + e.count /\ m <= (g + v) * cap + cap
    <2> DEFINE p == g * (w + 1)
               u == (g + v) * cap
    <2>1. p \in Nat /\ u \in Nat /\ start + p <= t /\ n <= u
      BY <1>2, <1>3
    <2> HIDE DEF p, u
    <2>2. start + w + p <= e.expiresAt /\ m <= u + e.count /\ m <= u + cap
      BY <1>1, <2>1
    <2> QED
      BY <2>2 DEF p, u
  <1>5. e.expiresAt <= start + w + w + MaxDelay - 1
    BY <1>1, Given
  <1>6. Sound(e, start, w, cap, m, v)
    BY <1>1, <1>4, <1>5 DEF Sound
  <1> QED
    BY <1>6 DEF e

\* Each eviction lets cap more checks past.
LEMMA Evicted ==
    ASSUME NEW start \in Nat, NEW w \in Nat \ {0}, NEW cap \in Nat, NEW t \in Nat,
           NEW n \in Nat, NEW v \in Nat, NEW e, Sound(e, start, w, cap, n, v),
           e.expiresAt <= t + w
    PROVE  Gone(t, start, w, cap, n, v + 1)
  <1>1. e.expiresAt \in Nat
    BY DEF Sound, Entries
  <1>2. PICK g \in Nat : start + w + g * (w + 1) <= e.expiresAt /\ n <= (g + v) * cap + cap
    BY DEF Sound
  <1>3. e.expiresAt <= start + w + w + MaxDelay - 1
    BY DEF Sound
  <1> DEFINE p == g * (w + 1)
             h == g + v
  <1>4. p \in Nat /\ h \in Nat /\ start + w + p <= e.expiresAt /\ n <= h * cap + cap
    BY <1>2
  <1>5. g + (v + 1) = h + 1
    OBVIOUS
  <1> HIDE DEF p, h
  <1>6. (h + 1) * cap = h * cap + cap
    BY <1>4
  <1>7. start + p <= t /\ p <= w + MaxDelay - 1 /\ n <= (h + 1) * cap
    BY <1>1, <1>3, <1>4, <1>6, Given
  <1>8. start + g * (w + 1) <= t /\ g * (w + 1) <= w + MaxDelay - 1 /\ n <= (g + (v + 1)) * cap
    BY <1>5, <1>7 DEF p
  <1> QED
    BY <1>8 DEF Gone

\* One count more: a check that gets past it was within the cap.
LEMMA CountMore ==
    ASSUME NEW start \in Nat, NEW w \in Nat \ {0}, NEW cap \in Nat, NEW n \in Nat, NEW v \in Nat,
           NEW e, Sound(e, start, w, cap, n, v), NEW f \in Entries,
           f.expiresAt = e.expiresAt, f.count = e.count + 1,
           NEW m \in Nat, m = n \/ (m = n + 1 /\ e.count + 1 <= cap)
    PROVE  Sound(f, start, w, cap, m, v)
  <1>1. e.count \in Nat \ {0} /\ e.expiresAt \in Nat
    BY DEF Sound, Entries
  <1>2. PICK g \in Nat : /\ start + w + g * (w + 1) <= e.expiresAt
                        /\ n <= (g + v) * cap + e.count /\ n <= (g + v) * cap + cap
    BY DEF Sound
  <1>3. (g + v) * cap \in Nat
    OBVIOUS
  <1>4. m <= (g + v) * cap + f.count /\ m <= (g + v) * cap + cap
    <2> DEFINE u == (g + v) * cap
    <2>1. u \in Nat /\ n <= u + e.count /\ n <= u + cap
      BY <1>2, <1>3
    <2> HIDE DEF u
    <2>2. m <= u + f.count /\ m <= u + cap
      BY <1>1, <2>1
    <2> QED
      BY <2>2 DEF u
  <1>5. start + w + g * (w + 1) <= f.expiresAt /\ f.expiresAt <= start + w + w + MaxDelay - 1
    BY <1>2 DEF Sound
  <1> QED
    BY <1>4, <1>5 DEF Sound

\* A new counter after one that has run out.
LEMMA Renew ==
    ASSUME NEW start \in Nat, NEW w \in Nat \ {0}, NEW cap \in Nat, NEW n \in Nat, NEW v \in Nat,
           NEW e, Sound(e, start, w, cap, n, v), NEW t \in Nat,
           e.expiresAt < t, t <= start + w - 1 + MaxDelay, NEW closed \in BOOLEAN,
           NEW m \in Nat, m = n \/ (m = n + 1 /\ 1 <= cap)
    PROVE  Sound([expiresAt |-> t + w, count |-> 1, failClosed |-> closed], start, w, cap, m, v)
  <1> DEFINE f == [expiresAt |-> t + w, count |-> 1, failClosed |-> closed]
  <1>1. e.count \in Nat \ {0} /\ e.expiresAt \in Nat
    BY DEF Sound, Entries
  <1>2. f \in Entries /\ f.expiresAt = t + w /\ f.count = 1
    BY DEF Entries
  <1> HIDE DEF f
  <1>3. PICK g \in Nat : /\ start + w + g * (w + 1) <= e.expiresAt
                        /\ n <= (g + v) * cap + cap
    BY DEF Sound
  <1> DEFINE h == g + v
  <1>4. h \in Nat /\ n <= h * cap + cap /\ (g + 1) + v = h + 1
    BY <1>3
  <1>5. g * (w + 1) \in Nat /\ (g + 1) * (w + 1) = g * (w + 1) + w + 1
    OBVIOUS
  <1>6. m <= ((g + 1) + v) * cap + f.count /\ m <= ((g + 1) + v) * cap + cap
    <2> HIDE DEF h
    <2>1. h * cap \in Nat /\ (h + 1) * cap = h * cap + cap
      BY <1>4
    <2>2. m <= (h + 1) * cap + f.count /\ m <= (h + 1) * cap + cap
      BY <1>2, <1>4, <2>1
    <2> QED
      BY <1>4, <2>2
  <1>7. start + w + (g + 1) * (w + 1) <= f.expiresAt
    BY <1>1, <1>2, <1>3, <1>5
  <1>8. f.expiresAt <= start + w + w + MaxDelay - 1
    BY <1>2, Given
  <1>9. \E i \in Nat : /\ start + w + i * (w + 1) <= f.expiresAt
                       /\ m <= (i + v) * cap + f.count /\ m <= (i + v) * cap + cap
    <2>1. g + 1 \in Nat
      OBVIOUS
    <2> QED
      BY <1>6, <1>7, <2>1, Zenon
  <1>10. Sound(f, start, w, cap, m, v)
    BY <1>2, <1>8, <1>9 DEF Sound
  <1> QED
    BY <1>10 DEF f

\* Lives that fit into the time a bucket's checks may take.
LEMMA LivesFit ==
    ASSUME NEW w \in Nat \ {0}, NEW cap \in Nat, NEW g \in Nat, NEW v \in Nat,
           g * (w + 1) <= w + MaxDelay - 1, NEW n \in Nat, n <= (g + v) * cap + cap
    PROVE  n <= cap * (Lives(w) + v) /\ Lives(w) \in Nat
  <1> DEFINE room == w + MaxDelay - 1
  <1>1. room \in Nat /\ w + 1 \in Nat \ {0} /\ g * (w + 1) <= room
    BY Given
  <1> HIDE DEF room
  <1>2. g <= room \div (w + 1) /\ room \div (w + 1) \in Nat
    BY <1>1, FitsIn, DivBounds
  <1>3. Lives(w) = 1 + room \div (w + 1)
    BY DEF Lives, room
  <1>4. Lives(w) \in Nat /\ g + 1 <= Lives(w)
    <2> DEFINE q == room \div (w + 1)
    <2>1. q \in Nat /\ g <= q /\ Lives(w) = 1 + q
      BY <1>2, <1>3
    <2> HIDE DEF q
    <2> QED
      BY <2>1
  <1> DEFINE L == Lives(w) + v
             h == g + v
  <1>5. L \in Nat /\ h \in Nat /\ h + 1 <= L /\ n <= h * cap + cap
    <2> DEFINE lives == Lives(w)
    <2>1. lives \in Nat /\ g + 1 <= lives
      BY <1>4
    <2> HIDE DEF lives
    <2>2. lives + v \in Nat /\ g + v + 1 <= lives + v
      BY <2>1
    <2> QED
      BY <2>2 DEF lives
  <1> HIDE DEF L, h
  <1>6. (h + 1) * cap <= L * cap
    BY <1>5, Multiply
  <1>7. (h + 1) * cap = h * cap + cap /\ L * cap = cap * L /\ L * cap \in Nat /\ h * cap \in Nat
    BY <1>5
  <1>8. n <= cap * L
    BY <1>5, <1>6, <1>7
  <1> QED
    BY <1>4, <1>8 DEF L

\* However often it was renewed and evicted, that leaves a bound.
LEMMA SoundBound ==
    ASSUME NEW start \in Nat, NEW w \in Nat \ {0}, NEW cap \in Nat, NEW n \in Nat, NEW v \in Nat,
           NEW e, Sound(e, start, w, cap, n, v)
    PROVE  n <= cap * (Lives(w) + v)
  <1>1. e.expiresAt \in Nat /\ e.expiresAt <= start + w + w + MaxDelay - 1
    BY DEF Sound, Entries
  <1>2. PICK g \in Nat : start + w + g * (w + 1) <= e.expiresAt /\ n <= (g + v) * cap + cap
    BY DEF Sound
  <1>3. g * (w + 1) <= w + MaxDelay - 1
    <2> DEFINE p == g * (w + 1)
    <2>1. p \in Nat /\ start + w + p <= e.expiresAt
      BY <1>2
    <2> HIDE DEF p
    <2>2. p <= w + MaxDelay - 1
      BY <1>1, <2>1, Given
    <2> QED
      BY <2>2 DEF p
  <1> QED
    BY <1>2, <1>3, LivesFit

LEMMA GoneBound ==
    ASSUME NEW start \in Nat, NEW w \in Nat \ {0}, NEW cap \in Nat, NEW n \in Nat, NEW v \in Nat,
           NEW t, Gone(t, start, w, cap, n, v)
    PROVE  n <= cap * (Lives(w) + v)
  <1>1. PICK g \in Nat : g * (w + 1) <= w + MaxDelay - 1 /\ n <= (g + v) * cap
    BY DEF Gone
  <1>2. n <= (g + v) * cap + cap
    <2> DEFINE u == (g + v) * cap
    <2>1. u \in Nat /\ n <= u
      BY <1>1
    <2> HIDE DEF u
    <2>2. n <= u + cap
      BY <2>1
    <2> QED
      BY <2>2 DEF u
  <1> QED
    BY <1>1, <1>2, LivesFit
-------------------------------------------------------------------------------
(* The ledger *)

KeyOf(name, r) == KeyAt(name, r, readAt[r])
LimitOf(name, r) == LimitAt(name, r, readAt[r])

\* The ledger is a set of pairs: the request got past the counter of the key.
Past(ledger, key) == {r \in Requests : <<r, key>> \in ledger}

Start(key) == key[3] * Width(key[1])

\* The keys that were counted.
Known == DOMAIN counters \cup DOMAIN evictions

\* A counter, or what is left of it, accounts for the checks that got past it.
Account(key, ledger) ==
    /\ Width(key[1]) \in Nat \ {0} /\ key[3] \in Nat /\ Evictions(key) \in Nat
    /\ key \in DOMAIN counters =>
          /\ Sound(counters[key], Start(key), Width(key[1]), Cap(key[1]),
                   Cardinality(Past(ledger, key)), Evictions(key))
          /\ counters[key].expiresAt <= now + Width(key[1])
          /\ key[1] \notin Mails => counters[key].failClosed = TRUE
    /\ key \notin DOMAIN counters =>
          Gone(now, Start(key), Width(key[1]), Cap(key[1]),
               Cardinality(Past(ledger, key)), Evictions(key))

\* A check in progress is at its first counter, or past it.
Planned(r, ledger) ==
    LET first == FirstOf(r)
        last == LastOf(r)
    IN  \/ Applies(first, r) /\ Applies(last, r) /\ plan[r] = <<LimitOf(first, r), LimitOf(last, r)>>
        \/ Applies(first, r) /\ ~Applies(last, r) /\ plan[r] = <<LimitOf(first, r)>>
        \/ /\ Applies(last, r) /\ plan[r] = <<LimitOf(last, r)>>
           /\ Applies(first, r) => <<r, KeyOf(first, r)>> \in ledger

\* The request made the store keep an address counter, and its source let it.
Owner(r, key, ledger) ==
    /\ outcome[r] # "none" /\ form[r].kind = "local" /\ key = KeyOf("local-address", r)
    /\ Applies("local-network", r) => <<r, KeyOf("local-network", r)>> \in ledger

Passed(r, ledger) ==
    \A name : Applies(name, r) => <<r, KeyOf(name, r)>> \in ledger

Kept(ledger) ==
    /\ ledger \subseteq Requests \X Known
    /\ \A key \in Known : Account(key, ledger)
    /\ \A key \in DOMAIN evictions : key[1] \in Mails
    /\ \A r \in Requests : outcome[r] = "allowed" => Passed(r, ledger)
    /\ \A r \in Requests : outcome[r] = "checking" => Planned(r, ledger)
    /\ \A key \in DOMAIN counters :
          key[1] = "local-address" => \E r \in Requests : Owner(r, key, ledger)

\* No call is later than MaxDelay, and a credential is let through in one way only.
Timed ==
    /\ plan = [r \in Requests |-> plan[r]]
    /\ \A r \in Requests :
          /\ outcome[r] = "checking" => readAt[r] <= now /\ now <= readAt[r] + MaxDelay
          /\ form[r].kind = "local" => outcome[r] \notin {"unenforced", "degraded"}

IInv == TypeOK /\ Timed /\ \E ledger : Kept(ledger)

\* A check counts in the bucket in which it read the clock.
LEMMA InBucket ==
    ASSUME NEW r, NEW name, Applies(name, r), NEW t \in Nat
    PROVE  LET key == KeyAt(name, r, t)
           IN  /\ key[3] \in Nat /\ key[1] = name /\ Start(key) \in Nat
               /\ Start(key) <= t /\ t <= Start(key) + Width(name) - 1
  <1> DEFINE w == Width(name)
             q == t \div w
             key == KeyAt(name, r, t)
  <1>1. w \in Nat \ {0}
    BY WidthAndCap
  <1>2. q \in Nat /\ q * w <= t /\ t < q * w + w
    <2> HIDE DEF w
    <2> QED
      BY <1>1, DivBounds
  <1>3. key[3] = q /\ key[1] = name
    BY LimitParts
  <1> HIDE DEF q, key
  <1>4. Start(key) = q * w
    BY <1>3 DEF Start
  <1> HIDE DEF w
  <1>5. q * w \in Nat
    BY <1>1, <1>2
  <1>6. key[3] \in Nat /\ key[1] = name /\ Start(key) \in Nat /\ Start(key) <= t /\ t <= Start(key) + w - 1
    BY <1>1, <1>2, <1>3, <1>4, <1>5
  <1> QED
    BY <1>6 DEF w, key

\* Sets of requests are finite.
LEMMA PastIsFinite ==
    ASSUME NEW ledger, NEW key
    PROVE  IsFiniteSet(Past(ledger, key)) /\ Cardinality(Past(ledger, key)) \in Nat
  <1>1. Past(ledger, key) \in SUBSET Requests
    BY DEF Past
  <1> QED
    BY <1>1, Given, FS_Subset, FS_CardinalityType

\* What a count makes of the counter, whether it was live, run out or not there.
LEMMA CountedSound ==
    ASSUME TypeOK, Timed, NEW ledger, ledger \subseteq Requests \X Known,
           \A key \in Known : Account(key, ledger),
           NEW r \in Requests, outcome[r] = "checking", NEW name, Applies(name, r),
           NEW m \in Nat,
           \/ m = Cardinality(Past(ledger, KeyOf(name, r)))
           \/ /\ m = Cardinality(Past(ledger, KeyOf(name, r))) + 1
              /\ Counted(LimitOf(name, r)).count <= Cap(name)
    PROVE  LET entry == Counted(LimitOf(name, r))
           IN  /\ Sound(entry, Start(KeyOf(name, r)), Width(name), Cap(name), m,
                        Evictions(KeyOf(name, r)))
               /\ entry.expiresAt <= now + Width(name)
               /\ name \notin Mails => entry.failClosed = TRUE
               /\ Evictions(KeyOf(name, r)) \in Nat
  <1> DEFINE key == KeyOf(name, r)
             w == Width(name)
             cap == Cap(name)
             n == Cardinality(Past(ledger, key))
             v == Evictions(key)
             closed == name \notin Mails
             fresh == [expiresAt |-> now + w, count |-> 1, failClosed |-> closed]
             more == [expiresAt |-> counters[key].expiresAt, count |-> counters[key].count + 1,
                      failClosed |-> counters[key].failClosed \/ closed]
  <1>1. /\ now \in Nat /\ readAt[r] \in Nat /\ readAt[r] <= now /\ now <= readAt[r] + MaxDelay
        /\ w \in Nat \ {0} /\ cap \in Nat /\ n \in Nat /\ MaxDelay \in Nat
    BY WidthAndCap, PastIsFinite, Given DEF TypeOK, Timed
  <1>2. key[1] = name /\ Start(key) \in Nat /\ Start(key) <= readAt[r] /\ readAt[r] <= Start(key) + w - 1
    BY <1>1, InBucket DEF KeyOf
  <1>3. /\ LimitOf(name, r).key = key /\ LimitOf(name, r).ttl = w
        /\ LimitOf(name, r).failClosed = closed
    BY LimitParts DEF LimitOf, KeyOf
  <1>4. Counted(LimitOf(name, r)) = IF Live(key) THEN more ELSE fresh
    BY <1>3 DEF Counted
  <1>5. fresh.count = 1 /\ fresh.expiresAt = now + w /\ fresh.failClosed = closed
    OBVIOUS
  <1>6. now <= Start(key) + w - 1 + MaxDelay /\ Start(key) <= now
    <2> HIDE DEF key, w
    <2> QED
      BY <1>1, <1>2
  <1>7. CASE key \notin DOMAIN counters
    <2>1. v \in Nat /\ Gone(now, Start(key), w, cap, n, v)
      <3>1. CASE key \in Known
        BY <1>2, <1>7, <3>1 DEF Account
      <3>2. CASE key \notin Known
        <4>1. Past(ledger, key) = {}
          BY <3>2 DEF Past
        <4>2. n = 0 /\ v = 0
          BY <3>2, <4>1, FS_EmptySet DEF Known, Evictions
        <4> HIDE DEF key, w, cap, n, v
        <4> QED
          BY <1>1, <1>2, <1>6, <4>2, NeverCounted
      <3> QED
        BY <3>1, <3>2
    <2>2. Counted(LimitOf(name, r)) = fresh
      BY <1>4, <1>7 DEF Live
    <2>3. m = n \/ (m = n + 1 /\ 1 <= cap)
      BY <1>5, <2>2
    <2>4. Sound(fresh, Start(key), w, cap, m, v)
      <3> HIDE DEF key, w, cap, n, v
      <3> QED
        BY <1>1, <1>2, <1>6, <2>1, <2>3, FirstCount
    <2>5. fresh.expiresAt <= now + w
      BY <1>1, <1>5
    <2> HIDE DEF fresh, key, w, cap, n, v
    <2> QED
      BY <1>5, <2>1, <2>2, <2>4, <2>5 DEF key, w, cap, v
  <1>8. CASE key \in DOMAIN counters
    <2>1. /\ Sound(counters[key], Start(key), w, cap, n, v)
          /\ counters[key].expiresAt <= now + w /\ v \in Nat
          /\ name \notin Mails => counters[key].failClosed = TRUE
      BY <1>2, <1>8 DEF Account, Known
    <2>2. counters[key].expiresAt \in Nat /\ counters[key] \in Entries
      BY <2>1 DEF Sound, Entries
    <2>3. CASE Live(key)
      <3>1. /\ Counted(LimitOf(name, r)) = more /\ more.count = counters[key].count + 1
            /\ more.expiresAt = counters[key].expiresAt /\ more \in Entries
        BY <1>4, <2>2, <2>3 DEF Entries
      <3>2. m = n \/ (m = n + 1 /\ counters[key].count + 1 <= cap)
        BY <3>1
      <3>3. Sound(more, Start(key), w, cap, m, v)
        <4> HIDE DEF key, w, cap, n, v, more
        <4> QED
          BY <1>1, <1>2, <2>1, <3>1, <3>2, CountMore
      <3>4. name \notin Mails => more.failClosed = TRUE
        BY <2>1, <2>2 DEF Entries
      <3>5. more.expiresAt <= now + w
        BY <2>1, <3>1
      <3> HIDE DEF more, key, w, cap, n, v
      <3> QED
        BY <2>1, <3>1, <3>3, <3>4, <3>5 DEF key, w, cap, v
    <2>4. CASE ~Live(key)
      <3>1. Counted(LimitOf(name, r)) = fresh /\ counters[key].expiresAt < now
        BY <1>1, <1>4, <1>8, <2>2, <2>4 DEF Live
      <3>2. m = n \/ (m = n + 1 /\ 1 <= cap)
        BY <1>5, <3>1
      <3>3. Sound(fresh, Start(key), w, cap, m, v)
        <4> HIDE DEF key, w, cap, n, v
        <4> QED
          BY <1>1, <1>2, <1>6, <2>1, <3>1, <3>2, Renew
      <3>4. fresh.expiresAt <= now + w
        BY <1>1, <1>5
      <3> HIDE DEF fresh, key, w, cap, n, v
      <3> QED
        BY <1>5, <2>1, <3>1, <3>3, <3>4 DEF key, w, cap, v
    <2> QED
      BY <2>3, <2>4
  <1> QED
    BY <1>7, <1>8
\* A count leaves every account right: the ledger stays, or takes in a check that
\* was within the cap.
LEMMA CountKeeps ==
    ASSUME TypeOK, Timed, NEW ledger, ledger \subseteq Requests \X Known,
           \A key \in Known : Account(key, ledger), UNCHANGED <<now, evictions>>,
           NEW r \in Requests, outcome[r] = "checking", NEW name, Applies(name, r),
           counters' = Put(KeyOf(name, r), Counted(LimitOf(name, r))),
           NEW after,
           \/ after = ledger
           \/ /\ after = ledger \cup {<<r, KeyOf(name, r)>>}
              /\ Counted(LimitOf(name, r)).count <= Cap(name)
    PROVE  /\ DOMAIN counters' = DOMAIN counters \cup {KeyOf(name, r)}
           /\ ledger \subseteq after /\ after \subseteq Requests \X Known'
           /\ \A key \in Known' : Account(key, after)'
  <1> DEFINE mine == KeyOf(name, r)
             entry == Counted(LimitOf(name, r))
  <1>1. /\ DOMAIN counters' = DOMAIN counters \cup {mine}
        /\ counters'[mine] = entry
        /\ \A key \in DOMAIN counters : key # mine => counters'[key] = counters[key]
    BY DEF Put
  <1>2. ledger \subseteq after /\ after \subseteq Requests \X Known' /\ Known' = Known \cup {mine}
    BY <1>1 DEF Known
  <1>3. \A key : key # mine => Past(after, key) = Past(ledger, key)
    BY DEF Past
  <1>4. \A key \in Known : key # mine => Account(key, after)'
    <2>1. ASSUME NEW key \in Known, key # mine
          PROVE  Account(key, after)'
      <3>1. /\ Account(key, ledger) /\ Past(after, key) = Past(ledger, key)
            /\ key \in DOMAIN counters' <=> key \in DOMAIN counters
            /\ key \in DOMAIN counters => counters'[key] = counters[key]
        BY <1>1, <1>3, <2>1
      <3>2. Past(after, key)' = Past(after, key) /\ Start(key)' = Start(key)
            /\ Evictions(key)' = Evictions(key)
        BY DEF Past, Start, Width, Evictions
      <3> QED
        BY <3>1, <3>2 DEF Account, Width, Cap
    <2> QED
      BY <2>1
  <1>5. \A key : key = mine => Account(key, after)'
    <2> DEFINE n == Cardinality(Past(ledger, mine))
               m == Cardinality(Past(after, mine))
    <2>1. IsFiniteSet(Past(ledger, mine)) /\ n \in Nat /\ m \in Nat
      BY PastIsFinite
    <2>2. m = n \/ (m = n + 1 /\ entry.count <= Cap(name))
      <3>1. CASE after = ledger
        BY <3>1
      <3>2. CASE after = ledger \cup {<<r, mine>>} /\ entry.count <= Cap(name)
        <4>1. Past(after, mine) = Past(ledger, mine) \cup {r}
          BY <3>2 DEF Past
        <4>2. m = IF r \in Past(ledger, mine) THEN n ELSE n + 1
          BY <2>1, <4>1, FS_AddElement
        <4> QED
          BY <3>2, <4>2
      <3> QED
        BY <3>1, <3>2
    <2>3. /\ Sound(entry, Start(mine), Width(name), Cap(name), m, Evictions(mine))
          /\ entry.expiresAt <= now + Width(name) /\ Evictions(mine) \in Nat
          /\ name \notin Mails => entry.failClosed = TRUE
      BY <2>1, <2>2, CountedSound
    <2>4. readAt[r] \in Nat
      BY Given DEF TypeOK
    <2>5. mine[1] = name /\ mine[3] \in Nat /\ Width(name) \in Nat \ {0}
      BY <2>4, InBucket, WidthAndCap DEF KeyOf
    <2>6. ASSUME NEW key, key = mine
          PROVE  Account(key, after)'
      <3>1. counters'[key] = entry /\ key[1] = name /\ key \in DOMAIN counters'
        BY <1>1, <2>5, <2>6
      <3>2. /\ Sound(counters'[key], Start(key), Width(key[1]), Cap(key[1]),
                     Cardinality(Past(after, key)), Evictions(key))
            /\ counters'[key].expiresAt <= now + Width(key[1]) /\ Evictions(key) \in Nat
            /\ key[1] \notin Mails => counters'[key].failClosed = TRUE
        BY <2>3, <2>6, <3>1
      <3>3. Width(key[1]) \in Nat \ {0} /\ key[3] \in Nat
        BY <2>5, <2>6
      <3>4. Past(after, key)' = Past(after, key) /\ Start(key)' = Start(key)
            /\ Evictions(key)' = Evictions(key)
        BY DEF Past, Start, Width, Evictions
      <3> QED
        BY <3>1, <3>2, <3>3, <3>4 DEF Account
    <2> QED
      BY <2>6
  <1>6. \A key \in Known' : Account(key, after)'
    BY <1>2, <1>4, <1>5
  <1> QED
    BY <1>1, <1>2, <1>6

\* What a step of one request leaves of the others.
LEMMA OthersKept ==
    ASSUME NEW ledger, Kept(ledger), NEW after, ledger \subseteq after,
           NEW r \in Requests, form' = form, evictions' = evictions,
           \A q \in Requests : q # r =>
              outcome'[q] = outcome[q] /\ plan'[q] = plan[q] /\ readAt'[q] = readAt[q],
           outcome[r] # "none" => readAt'[r] = readAt[r] /\ outcome'[r] # "none",
           after \subseteq Requests \X Known',
           \A key \in Known' : Account(key, after)',
           outcome'[r] = "allowed" => Passed(r, after)',
           outcome'[r] = "checking" => Planned(r, after)',
           \A key \in DOMAIN counters' : key[1] = "local-address" =>
              key \in DOMAIN counters \/ Owner(r, key, after)'
    PROVE  Kept(after)'
  <1>1. ASSUME NEW q \in Requests, q # r
        PROVE  /\ outcome'[q] = outcome[q] /\ plan'[q] = plan[q] /\ readAt'[q] = readAt[q]
               /\ Passed(q, ledger) => Passed(q, after)'
               /\ Planned(q, ledger) => Planned(q, after)'
    <2>1. outcome'[q] = outcome[q] /\ plan'[q] = plan[q] /\ readAt'[q] = readAt[q]
      BY <1>1
    <2>2. \A name : /\ Applies(name, q)' <=> Applies(name, q)
                    /\ KeyOf(name, q)' = KeyOf(name, q) /\ LimitOf(name, q)' = LimitOf(name, q)
      BY <2>1 DEF Applies, FirstOf, LastOf, Windowed, KeyOf, LimitOf, KeyAt, LimitAt, Tag, Limit,
                  Width, Cap, AddressKey
    <2>3. FirstOf(q)' = FirstOf(q) /\ LastOf(q)' = LastOf(q)
      BY DEF FirstOf, LastOf
    <2>4. Passed(q, ledger) => Passed(q, after)'
      BY <2>2 DEF Passed
    <2>5. Planned(q, ledger) => Planned(q, after)'
      BY <2>1, <2>2, <2>3 DEF Planned
    <2> QED
      BY <2>1, <2>4, <2>5
  <1>2. ASSUME NEW q \in Requests, NEW key, Owner(q, key, ledger)
        PROVE  Owner(q, key, after)'
    <2>1. readAt'[q] = readAt[q] /\ outcome'[q] # "none"
      BY <1>2 DEF Owner
    <2>2. \A name : /\ Applies(name, q)' <=> Applies(name, q)
                    /\ KeyOf(name, q)' = KeyOf(name, q)
      BY <2>1 DEF Applies, FirstOf, LastOf, Windowed, KeyOf, KeyAt, Tag, Width, AddressKey
    <2> QED
      BY <1>2, <2>1, <2>2 DEF Owner
  <1>3. \A q \in Requests : outcome'[q] = "allowed" => Passed(q, after)'
    BY <1>1 DEF Kept
  <1>4. \A q \in Requests : outcome'[q] = "checking" => Planned(q, after)'
    BY <1>1 DEF Kept
  <1>5. \A key \in DOMAIN counters' :
          key[1] = "local-address" => \E q \in Requests : Owner(q, key, after)'
    BY <1>2 DEF Kept
  <1> QED
    BY <1>3, <1>4, <1>5 DEF Kept
\* A check in progress counts one of its limits next, and then has one more to
\* count or is past all of them.
LEMMA AtLimit ==
    ASSUME TypeOK, NEW r \in Requests, NEW ledger, Planned(r, ledger)
    PROVE  \E name :
              /\ Applies(name, r) /\ Head(plan[r]) = LimitOf(name, r)
              /\ name = "local-address" =>
                    /\ form[r].kind = "local"
                    /\ Applies("local-network", r) => <<r, KeyOf("local-network", r)>> \in ledger
              /\ \/ /\ Len(plan[r]) = 2 /\ name = FirstOf(r) /\ Applies(LastOf(r), r)
                    /\ Tail(plan[r]) = <<LimitOf(LastOf(r), r)>>
                 \/ /\ Len(plan[r]) = 1 /\ Tail(plan[r]) = <<>>
                    /\ \A other : Applies(other, r) => other = name \/ <<r, KeyOf(other, r)>> \in ledger
  <1> DEFINE first == FirstOf(r)
             last == LastOf(r)
  <1>0. form[r].kind \in {"otp", "local"}
    BY LimitsAssumption DEF TypeOK
  <1>1. /\ first # last /\ first # "local-address"
        /\ last = "local-address" => form[r].kind = "local" /\ first = "local-network"
        /\ \A other : Applies(other, r) => other = first \/ other = last
    BY <1>0 DEF FirstOf, LastOf, Applies
  <1> HIDE DEF first, last
  <1>2. CASE Applies(first, r) /\ Applies(last, r) /\ plan[r] = <<LimitOf(first, r), LimitOf(last, r)>>
    <2>1. /\ Head(plan[r]) = LimitOf(first, r) /\ Len(plan[r]) = 2
          /\ Tail(plan[r]) = <<LimitOf(last, r)>>
      BY <1>2, Plans
    <2> QED
      BY <1>1, <1>2, <2>1 DEF first, last
  <1>3. CASE Applies(first, r) /\ ~Applies(last, r) /\ plan[r] = <<LimitOf(first, r)>>
    <2>1. Head(plan[r]) = LimitOf(first, r) /\ Len(plan[r]) = 1 /\ Tail(plan[r]) = <<>>
      BY <1>3, Plans
    <2> QED
      BY <1>1, <1>3, <2>1
  <1>4. CASE /\ Applies(last, r) /\ plan[r] = <<LimitOf(last, r)>>
             /\ Applies(first, r) => <<r, KeyOf(first, r)>> \in ledger
    <2>1. Head(plan[r]) = LimitOf(last, r) /\ Len(plan[r]) = 1 /\ Tail(plan[r]) = <<>>
      BY <1>4, Plans
    <2> QED
      BY <1>1, <1>4, <2>1
  <1> QED
    BY <1>2, <1>3, <1>4 DEF Planned, first, last

\* A request that stays what it is, and read the clock no later.
LEMMA SameKeys ==
    ASSUME NEW r, form' = form, readAt'[r] = readAt[r]
    PROVE  /\ \A name : /\ Applies(name, r)' <=> Applies(name, r)
                        /\ KeyOf(name, r)' = KeyOf(name, r) /\ LimitOf(name, r)' = LimitOf(name, r)
           /\ FirstOf(r)' = FirstOf(r) /\ LastOf(r)' = LastOf(r)
  BY DEF Applies, FirstOf, LastOf, Windowed, KeyOf, LimitOf, KeyAt, LimitAt, Tag, Limit,
         Width, Cap, AddressKey

\* Who makes the store keep an address counter owns it.
LEMMA NewOwner ==
    ASSUME NEW r \in Requests, NEW name, readAt[r] \in Nat, Applies(name, r), NEW after,
           form' = form, readAt'[r] = readAt[r], outcome'[r] # "none",
           DOMAIN counters' = DOMAIN counters \cup {KeyOf(name, r)},
           name = "local-address" =>
              /\ form[r].kind = "local"
              /\ Applies("local-network", r) => <<r, KeyOf("local-network", r)>> \in after
    PROVE  \A key \in DOMAIN counters' : key[1] = "local-address" =>
              key \in DOMAIN counters \/ Owner(r, key, after)'
  <1> SUFFICES ASSUME NEW key, key = KeyOf(name, r), key[1] = "local-address"
               PROVE  Owner(r, key, after)'
    OBVIOUS
  <1>1. name = "local-address"
    BY InBucket DEF KeyOf
  <1>2. /\ KeyOf("local-address", r)' = KeyOf("local-address", r)
        /\ KeyOf("local-network", r)' = KeyOf("local-network", r)
        /\ Applies("local-network", r)' <=> Applies("local-network", r)
    BY SameKeys
  <1> QED
    BY <1>1, <1>2 DEF Owner

\* A count keeps the ledger.
LEMMA IncrementKept ==
    ASSUME TypeOK, Timed, NEW ledger, Kept(ledger), NEW r \in Requests, Increment(r)
    PROVE  \E after : Kept(after)'
  <1>0. /\ outcome[r] = "checking" /\ Planned(r, ledger) /\ readAt[r] \in Nat
        /\ form' = form /\ readAt' = readAt
        /\ ledger \subseteq Requests \X Known /\ UNCHANGED <<now, evictions>>
        /\ \A key \in Known : Account(key, ledger)
    BY Given DEF Increment, Kept, TypeOK
  <1>1. PICK name :
              /\ Applies(name, r) /\ Head(plan[r]) = LimitOf(name, r)
              /\ name = "local-address" =>
                    /\ form[r].kind = "local"
                    /\ Applies("local-network", r) => <<r, KeyOf("local-network", r)>> \in ledger
              /\ \/ /\ Len(plan[r]) = 2 /\ name = FirstOf(r) /\ Applies(LastOf(r), r)
                    /\ Tail(plan[r]) = <<LimitOf(LastOf(r), r)>>
                 \/ /\ Len(plan[r]) = 1 /\ Tail(plan[r]) = <<>>
                    /\ \A other : Applies(other, r) => other = name \/ <<r, KeyOf(other, r)>> \in ledger
    BY <1>0, AtLimit
  <1> DEFINE mine == KeyOf(name, r)
             used == Counted(LimitOf(name, r)).count
  <1>2. LimitOf(name, r).key = mine /\ LimitOf(name, r).max = Cap(name)
    BY LimitParts DEF LimitOf, KeyOf
  <1>3. /\ counters' = Put(mine, Counted(LimitOf(name, r)))
        /\ plan' = [plan EXCEPT ![r] = IF used > Cap(name) THEN <<>> ELSE Tail(@)]
        /\ outcome' = [outcome EXCEPT ![r] =
              IF used > Cap(name) THEN "refused"
              ELSE IF Len(plan[r]) = 1 THEN "allowed" ELSE "checking"]
    BY <1>1, <1>2 DEF Increment
  <1>4. \A q \in Requests : q # r =>
           outcome'[q] = outcome[q] /\ plan'[q] = plan[q] /\ readAt'[q] = readAt[q]
    BY <1>0, <1>3 DEF Timed, TypeOK
  <1>5. /\ \A other : /\ Applies(other, r)' <=> Applies(other, r)
                      /\ KeyOf(other, r)' = KeyOf(other, r) /\ LimitOf(other, r)' = LimitOf(other, r)
        /\ FirstOf(r)' = FirstOf(r) /\ LastOf(r)' = LastOf(r)
    BY <1>0, SameKeys
  <1>6. /\ plan'[r] = IF used > Cap(name) THEN <<>> ELSE Tail(plan[r])
        /\ outcome'[r] = IF used > Cap(name) THEN "refused"
                         ELSE IF Len(plan[r]) = 1 THEN "allowed" ELSE "checking"
    BY <1>3 DEF Timed, TypeOK
  <1>7. outcome'[r] # "none"
    BY <1>6
  <1> HIDE DEF used
  <1>8. CASE used > Cap(name)
    <2>1. /\ DOMAIN counters' = DOMAIN counters \cup {mine}
          /\ ledger \subseteq Requests \X Known'
          /\ \A key \in Known' : Account(key, ledger)'
      BY <1>0, <1>1, <1>3, CountKeeps
    <2>2. \A key \in DOMAIN counters' : key[1] = "local-address" =>
             key \in DOMAIN counters \/ Owner(r, key, ledger)'
      BY <1>0, <1>1, <1>7, <2>1, NewOwner
    <2>3. outcome'[r] = "refused"
      BY <1>6, <1>8
    <2>4. Kept(ledger)'
      BY <1>0, <1>4, <2>1, <2>2, <2>3, OthersKept
    <2> QED
      BY <2>4
  <1>9. CASE ~(used > Cap(name))
    <2> PICK more : more = ledger \cup {<<r, mine>>}
      OBVIOUS
    <2>0. used <= Cap(name)
      <3>1. Sound(Counted(LimitOf(name, r)), Start(mine), Width(name), Cap(name),
                  Cardinality(Past(ledger, mine)), Evictions(mine))
        BY <1>0, <1>1, PastIsFinite, CountedSound
      <3>2. used \in Nat /\ Cap(name) \in Nat
        BY <3>1, WidthAndCap DEF Sound, Entries, used
      <3> QED
        BY <1>9, <3>2
    <2>1. /\ DOMAIN counters' = DOMAIN counters \cup {mine}
          /\ ledger \subseteq more /\ more \subseteq Requests \X Known'
          /\ \A key \in Known' : Account(key, more)'
      <3>1. /\ more = ledger \cup {<<r, KeyOf(name, r)>>}
            /\ Counted(LimitOf(name, r)).count <= Cap(name)
            /\ Applies(name, r) /\ counters' = Put(KeyOf(name, r), Counted(LimitOf(name, r)))
        BY <1>1, <1>3, <2>0 DEF used
      <3> QED
        BY <1>0, <3>1, CountKeeps
    <2>2. name = "local-address" =>
              /\ form[r].kind = "local"
              /\ Applies("local-network", r) => <<r, KeyOf("local-network", r)>> \in more
      BY <1>1
    <2>3. \A key \in DOMAIN counters' : key[1] = "local-address" =>
             key \in DOMAIN counters \/ Owner(r, key, more)'
      BY <1>0, <1>1, <1>7, <2>1, <2>2, NewOwner
    <2>4. outcome'[r] = "allowed" => Passed(r, more)'
      <3>1. ASSUME outcome'[r] = "allowed", NEW other, Applies(other, r)'
            PROVE  <<r, KeyOf(other, r)'>> \in more
        <4>1. Len(plan[r]) = 1
          BY <1>6, <1>9, <3>1
        <4>2. other = name \/ <<r, KeyOf(other, r)>> \in ledger
          BY <1>1, <1>5, <3>1, <4>1
        <4> QED
          BY <1>5, <4>2
      <3> QED
        BY <3>1 DEF Passed
    <2>5. outcome'[r] = "checking" => Planned(r, more)'
      <3>1. ASSUME outcome'[r] = "checking"
            PROVE  Planned(r, more)'
        <4>1. Len(plan[r]) # 1
          BY <1>6, <1>9, <3>1
        <4>2. /\ name = FirstOf(r) /\ Applies(LastOf(r), r)
              /\ plan'[r] = <<LimitOf(LastOf(r), r)>>
          BY <1>1, <1>6, <1>9, <4>1
        <4>3. <<r, KeyOf(FirstOf(r), r)>> \in more
          BY <4>2
        <4>4. Applies(LastOf(r), r)' /\ plan'[r] = <<LimitOf(LastOf(r), r)>>'
              /\ <<r, KeyOf(FirstOf(r), r)'>> \in more
          BY <1>5, <4>2, <4>3
        <4> QED
          BY <4>4 DEF Planned
      <3> QED
        BY <3>1
    <2>6. Kept(more)'
      BY <1>0, <1>4, <1>7, <2>1, <2>3, <2>4, <2>5, OthersKept
    <2> QED
      BY <2>6
  <1> QED
    BY <1>8, <1>9
\* A call that fails keeps the ledger, whether or not the store has counted it.
LEMMA FailKept ==
    ASSUME TypeOK, Timed, NEW ledger, Kept(ledger), NEW r \in Requests, Fail(r)
    PROVE  Kept(ledger)'
  <1>0. /\ outcome[r] = "checking" /\ Planned(r, ledger) /\ readAt[r] \in Nat
        /\ form' = form /\ readAt' = readAt
        /\ ledger \subseteq Requests \X Known /\ UNCHANGED <<now, evictions>>
        /\ \A key \in Known : Account(key, ledger)
    BY Given DEF Fail, Kept, TypeOK
  <1>1. outcome'[r] \in {"degraded", "denied"}
        /\ \A q \in Requests : q # r =>
              outcome'[q] = outcome[q] /\ plan'[q] = plan[q] /\ readAt'[q] = readAt[q]
    BY DEF Fail, OnFailure, Timed, TypeOK
  <1>2. CASE UNCHANGED counters
    <2>1. /\ \A key \in Known' : Account(key, ledger)'
          /\ Known' = Known
      BY <1>0, <1>2 DEF Known, Account, Start, Width, Cap, Past, Evictions
    <2> QED
      BY <1>0, <1>1, <1>2, <2>1, OthersKept
  <1>3. CASE counters' = Put(Head(plan[r]).key, Counted(Head(plan[r])))
    <2>1. PICK name :
              /\ Applies(name, r) /\ Head(plan[r]) = LimitOf(name, r)
              /\ name = "local-address" =>
                    /\ form[r].kind = "local"
                    /\ Applies("local-network", r) => <<r, KeyOf("local-network", r)>> \in ledger
      BY <1>0, AtLimit
    <2>2. LimitOf(name, r).key = KeyOf(name, r)
      BY LimitParts DEF LimitOf, KeyOf
    <2>3. /\ DOMAIN counters' = DOMAIN counters \cup {KeyOf(name, r)}
          /\ ledger \subseteq Requests \X Known'
          /\ \A key \in Known' : Account(key, ledger)'
      BY <1>0, <1>3, <2>1, <2>2, CountKeeps
    <2>4. \A key \in DOMAIN counters' : key[1] = "local-address" =>
             key \in DOMAIN counters \/ Owner(r, key, ledger)'
      BY <1>0, <1>1, <2>1, <2>3, NewOwner
    <2> QED
      BY <1>0, <1>1, <2>3, <2>4, OthersKept
  <1> QED
    BY <1>2, <1>3 DEF Fail

\* A check that begins has got past nothing yet.
LEMMA BeginKept ==
    ASSUME TypeOK, Timed, NEW ledger, Kept(ledger), NEW r \in Requests, Begin(r)
    PROVE  Kept(ledger)'
  <1>0. /\ outcome[r] = "none" /\ form' = form /\ UNCHANGED counters /\ readAt'[r] = now
        /\ ledger \subseteq Requests \X Known /\ UNCHANGED <<now, evictions>>
        /\ \A key \in Known : Account(key, ledger)
        /\ form[r].kind \in {"otp", "local"}
    BY LimitsAssumption DEF Begin, Kept, TypeOK
  <1>1. \A q \in Requests : q # r =>
              outcome'[q] = outcome[q] /\ plan'[q] = plan[q] /\ readAt'[q] = readAt[q]
    BY DEF Begin, Timed, TypeOK
  <1>2. /\ \A key \in Known' : Account(key, ledger)'
        /\ Known' = Known
    BY <1>0 DEF Known, Account, Start, Width, Cap, Past, Evictions
  <1>3. /\ outcome'[r] # "allowed"
        /\ outcome'[r] = "checking" => PlanFor(r) # <<>> /\ plan'[r] = PlanFor(r)
    BY DEF Begin, WithoutStore, Timed, TypeOK
  <1>4. ASSUME outcome'[r] = "checking"
        PROVE  Planned(r, ledger)'
    <2>1. /\ FirstOf(r)' = FirstOf(r) /\ LastOf(r)' = LastOf(r)
          /\ \A name : /\ Applies(name, r)' <=> Applies(name, r)
                       /\ LimitOf(name, r)' = LimitAt(name, r, now)
      BY <1>0 DEF Applies, FirstOf, LastOf, Windowed, LimitOf, KeyAt, LimitAt, Tag, Limit, Width, Cap,
                  AddressKey
    <2>2. /\ PlanFor(r) # <<>> /\ plan'[r] = PlanFor(r)
      BY <1>3, <1>4
    <2>3. \/ /\ Applies(FirstOf(r), r) /\ Applies(LastOf(r), r)
             /\ plan'[r] = <<LimitAt(FirstOf(r), r, now), LimitAt(LastOf(r), r, now)>>
          \/ /\ Applies(FirstOf(r), r) /\ ~Applies(LastOf(r), r)
             /\ plan'[r] = <<LimitAt(FirstOf(r), r, now)>>
          \/ /\ ~Applies(FirstOf(r), r) /\ Applies(LastOf(r), r)
             /\ plan'[r] = <<LimitAt(LastOf(r), r, now)>>
      BY <1>0, <2>2, PlanShape
    <2> QED
      BY <2>1, <2>3 DEF Planned
  <1> QED
    BY <1>0, <1>1, <1>2, <1>3, <1>4, OthersKept

\* An evicted counter leaves room for as many checks again.
LEMMA EvictKept ==
    ASSUME TypeOK, NEW ledger, Kept(ledger), NEW mine \in DOMAIN counters, Evict(mine)
    PROVE  Kept(ledger)'
  <1>0. /\ now \in Nat /\ DOMAIN counters' = DOMAIN counters \ {mine}
        /\ \A key \in DOMAIN counters' : counters'[key] = counters[key]
        /\ \A key : key # mine => Evictions(key)' = Evictions(key)
        /\ Evictions(mine)' = Evictions(mine) + 1
        /\ DOMAIN evictions' = DOMAIN evictions \cup {mine}
        /\ UNCHANGED <<form, now, plan, readAt, outcome>>
    <2>1. Account(mine, ledger)
      BY DEF Kept, Known
    <2>2. Evictions(mine) \in Nat /\ now \in Nat
      BY <2>1 DEF Account, TypeOK
    <2>3. evictions' = [k \in DOMAIN evictions \cup {mine} |->
                          Evictions(k) + (IF k = mine THEN 1 ELSE 0)]
      BY DEF Evict
    <2>4. ASSUME NEW key, key # mine
          PROVE  Evictions(key)' = Evictions(key)
      <3>1. CASE key \in DOMAIN evictions
        <4>1. key \in Known /\ Evictions(key) \in Nat
          BY <3>1 DEF Kept, Known, Account
        <4>2. Evictions(key)' = Evictions(key) + 0
          BY <2>3, <2>4, <3>1 DEF Evictions
        <4> QED
          BY <4>1, <4>2
      <3>2. CASE key \notin DOMAIN evictions
        BY <2>3, <2>4, <3>2 DEF Evictions
      <3> QED
        BY <3>1, <3>2
    <2> QED
      BY <2>2, <2>3, <2>4 DEF Evict, Evictions
  <1>1. Known' = Known
    BY <1>0 DEF Known
  <1>2. ASSUME NEW key \in Known
        PROVE  /\ Account(key, ledger) /\ Past(ledger, key)' = Past(ledger, key)
               /\ Start(key)' = Start(key)
    BY DEF Kept, Past, Start, Width
  <1>3. mine[1] \in Mails
    <2>1. mine \in Known
      BY DEF Known
    <2>2. mine[1] \notin Mails => counters[mine].failClosed = TRUE
      BY <1>2, <2>1 DEF Account
    <2> QED
      BY <2>2 DEF Evict
  <1>4. ASSUME NEW key \in Known
        PROVE  Account(key, ledger)'
    <2>1. CASE key = mine
      <3> DEFINE w == Width(mine[1])
                 cap == Cap(mine[1])
                 n == Cardinality(Past(ledger, mine))
                 v == Evictions(mine)
                 start == Start(mine)
      <3>1. /\ w \in Nat \ {0} /\ mine[3] \in Nat /\ v \in Nat
            /\ Sound(counters[mine], start, w, cap, n, v)
            /\ counters[mine].expiresAt <= now + w
        BY <1>2, <2>1 DEF Account
      <3>2. cap \in Nat /\ n \in Nat /\ start \in Nat
        <4>1. start = mine[3] * w
          BY DEF Start
        <4> HIDE DEF w
        <4> QED
          BY <3>1, <4>1, WidthAndCap, PastIsFinite
      <3>3. Gone(now, start, w, cap, n, v + 1)
        <4> HIDE DEF w, cap, n, v, start
        <4> QED
          BY <1>0, <3>1, <3>2, Evicted
      <3>4. mine \notin DOMAIN counters' /\ now' = now /\ Evictions(mine)' = v + 1
        BY <1>0
      <3>5. Account(mine, ledger)'
        BY <1>2, <2>1, <3>1, <3>3, <3>4 DEF Account, Width, Cap
      <3> QED
        BY <2>1, <3>5
    <2>2. CASE key # mine
      <3>1. /\ key \in DOMAIN counters' <=> key \in DOMAIN counters
            /\ key \in DOMAIN counters => counters'[key] = counters[key]
            /\ Evictions(key)' = Evictions(key) /\ now' = now
        BY <1>0, <2>2
      <3> QED
        BY <1>2, <3>1 DEF Account, Width, Cap
    <2> QED
      BY <2>1, <2>2
  <1>5. /\ ledger \subseteq Requests \X Known'
        /\ \A key \in DOMAIN evictions' : key[1] \in Mails
    BY <1>0, <1>1, <1>3 DEF Kept
  <1>6. ASSUME NEW r \in Requests
        PROVE  /\ Passed(r, ledger)' <=> Passed(r, ledger)
               /\ Planned(r, ledger)' <=> Planned(r, ledger)
               /\ \A key : Owner(r, key, ledger)' <=> Owner(r, key, ledger)
    <2>1. /\ \A name : /\ Applies(name, r)' <=> Applies(name, r)
                       /\ KeyOf(name, r)' = KeyOf(name, r) /\ LimitOf(name, r)' = LimitOf(name, r)
          /\ FirstOf(r)' = FirstOf(r) /\ LastOf(r)' = LastOf(r)
      BY <1>0, SameKeys
    <2> QED
      BY <1>0, <2>1 DEF Passed, Planned, Owner
  <1>7. /\ \A r \in Requests : outcome'[r] = "allowed" => Passed(r, ledger)'
        /\ \A r \in Requests : outcome'[r] = "checking" => Planned(r, ledger)'
    BY <1>0, <1>6 DEF Kept
  <1>8. \A key \in DOMAIN counters' :
          key[1] = "local-address" => \E r \in Requests : Owner(r, key, ledger)'
    BY <1>0, <1>6 DEF Kept
  <1> QED
    BY <1>1, <1>4, <1>5, <1>7, <1>8 DEF Kept

\* Time changes nothing of it.
LEMMA SameKept ==
    ASSUME TypeOK, NEW ledger, Kept(ledger),
           UNCHANGED <<form, counters, evictions, plan, readAt, outcome>>,
           now' \in Nat, now <= now'
    PROVE  Kept(ledger)'
  <1>1. now \in Nat
    BY DEF TypeOK
  <1>2. ASSUME NEW key \in Known
        PROVE  Account(key, ledger)'
    <2> DEFINE w == Width(key[1])
               cap == Cap(key[1])
               n == Cardinality(Past(ledger, key))
               v == Evictions(key)
               start == Start(key)
    <2>1. /\ Account(key, ledger) /\ w \in Nat \ {0} /\ key[3] \in Nat /\ v \in Nat
          /\ cap \in Nat /\ n \in Nat
      BY WidthAndCap, PastIsFinite DEF Kept, Account
    <2>2. start \in Nat
      <3>1. start = key[3] * w
        BY DEF Start
      <3> HIDE DEF w
      <3> QED
        BY <2>1, <3>1
    <2>3. /\ Past(ledger, key)' = Past(ledger, key) /\ Start(key)' = Start(key)
          /\ Evictions(key)' = Evictions(key)
      BY DEF Past, Start, Width, Evictions
    <2>4. ASSUME Gone(now, start, w, cap, n, v)
          PROVE  Gone(now', start, w, cap, n, v)
      <3> HIDE DEF w, cap, n, v, start
      <3> QED
        BY <1>1, <2>1, <2>2, <2>4, StaysGone
    <2>5. ASSUME Sound(counters[key], start, w, cap, n, v), counters[key].expiresAt <= now + w
          PROVE  counters[key].expiresAt <= now' + w
      <3>1. counters[key].expiresAt \in Nat
        BY <2>5 DEF Sound, Entries
      <3> HIDE DEF w
      <3> QED
        BY <1>1, <2>1, <2>5, <3>1
    <2> QED
      BY <2>1, <2>3, <2>4, <2>5 DEF Account, Width, Cap
  <1>3. ASSUME NEW r \in Requests
        PROVE  /\ Passed(r, ledger)' <=> Passed(r, ledger)
               /\ Planned(r, ledger)' <=> Planned(r, ledger)
               /\ \A key : Owner(r, key, ledger)' <=> Owner(r, key, ledger)
    <2>1. /\ \A name : /\ Applies(name, r)' <=> Applies(name, r)
                       /\ KeyOf(name, r)' = KeyOf(name, r) /\ LimitOf(name, r)' = LimitOf(name, r)
          /\ FirstOf(r)' = FirstOf(r) /\ LastOf(r)' = LastOf(r)
      BY SameKeys
    <2> QED
      BY <2>1 DEF Passed, Planned, Owner
  <1>4. Known' = Known
    BY DEF Known
  <1> QED
    BY <1>2, <1>3, <1>4 DEF Kept

-------------------------------------------------------------------------------
\* Every step keeps the types.
LEMMA TypeStep ==
    ASSUME IInv, [Next]_vars
    PROVE  TypeOK'
  <1>0. TypeOK /\ plan = [r \in Requests |-> plan[r]]
    BY DEF IInv, Timed
  <1>1. ASSUME NEW r \in Requests, Begin(r)
        PROVE  TypeOK'
    <2>1. /\ outcome'[r] # "none" /\ outcome'[r] \in Outcomes
          /\ plan'[r] # <<>> <=> outcome'[r] = "checking"
      BY <1>0, <1>1 DEF Begin, WithoutStore, Outcomes, TypeOK
    <2>2. \A q \in Requests : q # r => outcome'[q] = outcome[q] /\ plan'[q] = plan[q]
      BY <1>0, <1>1 DEF Begin, TypeOK
    <2>3. outcome' \in [Requests -> Outcomes]
      BY <1>0, <1>1, <2>1 DEF Begin, TypeOK
    <2>4. readAt' \in [Requests -> 0..MaxTime]
      BY <1>0, <1>1 DEF Begin, TypeOK
    <2> QED
      BY <1>0, <1>1, <2>1, <2>2, <2>3, <2>4 DEF Begin, TypeOK
  <1>2. ASSUME NEW r \in Requests, Increment(r) \/ Fail(r)
        PROVE  TypeOK'
    <2>1. PICK ledger : Kept(ledger)
      BY DEF IInv
    <2>2. outcome[r] = "checking" /\ Planned(r, ledger) /\ TypeOK
      BY <1>0, <1>2, <2>1 DEF Increment, Fail, Kept
    <2>3. PICK name :
            /\ Applies(name, r)
            /\ \/ Len(plan[r]) = 2 /\ Tail(plan[r]) = <<LimitOf(LastOf(r), r)>>
               \/ Len(plan[r]) = 1 /\ Tail(plan[r]) = <<>>
      BY <2>2, AtLimit
    <2>4. (Len(plan[r]) = 1) <=> (Tail(plan[r]) = <<>>)
      BY <2>3
    <2>5. outcome'[r] \in Outcomes /\ (plan'[r] # <<>> <=> outcome'[r] = "checking")
      BY <1>0, <1>2, <2>4 DEF Increment, Fail, OnFailure, Outcomes, TypeOK
    <2>6. \A q \in Requests : q # r => outcome'[q] = outcome[q] /\ plan'[q] = plan[q]
      BY <1>0, <1>2 DEF Increment, Fail, TypeOK
    <2>7. outcome' \in [Requests -> Outcomes]
      BY <1>0, <1>2, <2>5 DEF Increment, Fail, TypeOK
    <2>8. \A key \in DOMAIN counters' : counters'[key].count > 0
      <3>1. Kept(ledger)' \/ \E after : Kept(after)'
        BY <1>2, <2>1, <2>2, IncrementKept, FailKept DEF IInv
      <3>2. PICK after : Kept(after)'
        BY <3>1
      <3>3. \A key \in DOMAIN counters' : counters'[key] \in Entries
        BY <3>2 DEF Kept, Account, Sound, Known
      <3> QED
        BY <3>3 DEF Entries
    <2> QED
      BY <1>0, <1>2, <2>5, <2>6, <2>7, <2>8 DEF Increment, Fail, TypeOK
  <1>3. CASE Tick
    <2>1. now' \in 0..MaxTime
      BY <1>0, <1>3, Given DEF Tick, TypeOK
    <2> QED
      BY <1>0, <1>3, <2>1 DEF Tick, TypeOK
  <1>4. ASSUME NEW key \in DOMAIN counters, Evict(key)
        PROVE  TypeOK'
    BY <1>0, <1>4 DEF Evict, TypeOK
  <1>5. CASE UNCHANGED vars
    BY <1>0, <1>5 DEF vars, TypeOK
  <1> QED
    BY <1>1, <1>2, <1>3, <1>4, <1>5 DEF Next

\* And the times.
LEMMA TimedStep ==
    ASSUME TypeOK, Timed, [Next]_vars
    PROVE  Timed'
  <1>0. now \in Nat /\ MaxDelay \in Nat /\ \A r \in Requests : readAt[r] \in Nat
    BY Given DEF TypeOK
  <1>1. ASSUME NEW r \in Requests, Begin(r)
        PROVE  Timed'
    <2>1. plan' = [q \in Requests |-> plan'[q]]
      BY <1>1 DEF Begin, Timed
    <2>2. readAt'[r] = now /\ now' = now /\ form' = form
      BY <1>1 DEF Begin, TypeOK
    <2>3. form[r].kind = "local" => outcome'[r] \notin {"unenforced", "degraded"}
      BY <1>1 DEF Begin, WithoutStore, TypeOK
    <2>4. \A q \in Requests : q # r => outcome'[q] = outcome[q] /\ readAt'[q] = readAt[q]
      BY <1>1 DEF Begin, TypeOK
    <2> QED
      BY <1>0, <2>1, <2>2, <2>3, <2>4 DEF Timed
  <1>2. ASSUME NEW r \in Requests, Increment(r) \/ Fail(r)
        PROVE  Timed'
    <2>1. plan' = [q \in Requests |-> plan'[q]]
      BY <1>2 DEF Increment, Fail, Timed
    <2>2. readAt' = readAt /\ now' = now /\ form' = form /\ outcome[r] = "checking"
      BY <1>2 DEF Increment, Fail
    <2>3. form[r].kind = "local" => outcome'[r] \notin {"unenforced", "degraded"}
      BY <1>2 DEF Increment, Fail, OnFailure, TypeOK
    <2>4. \A q \in Requests : q # r => outcome'[q] = outcome[q]
      BY <1>2 DEF Increment, Fail, TypeOK
    <2> QED
      BY <2>1, <2>2, <2>3, <2>4 DEF Timed
  <1>3. CASE Tick
    BY <1>0, <1>3 DEF Tick, Timed
  <1>4. ASSUME NEW key \in DOMAIN counters, Evict(key)
        PROVE  Timed'
    BY <1>4 DEF Evict, Timed
  <1>5. CASE UNCHANGED vars
    BY <1>5 DEF vars, Timed
  <1> QED
    BY <1>1, <1>2, <1>3, <1>4, <1>5 DEF Next

\* Nothing is counted in the beginning.
LEMMA InitInv == Init => IInv
  <1> SUFFICES ASSUME Init PROVE IInv
    OBVIOUS
  <1>1. DOMAIN counters = {} /\ DOMAIN evictions = {}
    BY DEF Init
  <1>2. TypeOK
    BY <1>1, Given DEF Init, TypeOK, Outcomes
  <1>3. Timed
    BY DEF Init, Timed
  <1>4. Kept({})
    BY <1>1 DEF Init, Kept, Known
  <1> QED
    BY <1>2, <1>3, <1>4 DEF IInv

\* And every step keeps the ledger.
LEMMA StepInv == IInv /\ [Next]_vars => IInv'
  <1> SUFFICES ASSUME IInv, [Next]_vars PROVE IInv'
    OBVIOUS
  <1>1. TypeOK' /\ Timed'
    BY TypeStep, TimedStep DEF IInv
  <1>2. PICK ledger : Kept(ledger)
    BY DEF IInv
  <1>3. \E after : Kept(after)'
    <2>1. ASSUME NEW r \in Requests, Begin(r) \/ Increment(r) \/ Fail(r)
          PROVE  \E after : Kept(after)'
      BY <1>2, <2>1, BeginKept, IncrementKept, FailKept DEF IInv
    <2>2. CASE Tick \/ UNCHANGED vars
      <3>1. TypeOK /\ now \in Nat
        BY DEF IInv, TypeOK
      <3>2. now' \in Nat /\ now <= now'
        BY <2>2, <3>1 DEF Tick, vars
      <3> QED
        BY <1>2, <2>2, <3>1, <3>2, SameKept DEF Tick, vars
    <2>3. ASSUME NEW key \in DOMAIN counters, Evict(key)
          PROVE  \E after : Kept(after)'
      BY <1>2, <2>3, EvictKept DEF IInv
    <2> QED
      BY <2>1, <2>2, <2>3 DEF Next
  <1> QED
    BY <1>1, <1>3 DEF IInv

\* And so there always is one.
LEMMA Invariant == Spec => []IInv
  BY InitInv, StepInv, PTL DEF Spec
-------------------------------------------------------------------------------
(* The limits *)

\* A bucket's key has a number of lives.
LEMMA SomeLives ==
    ASSUME NEW w \in Nat \ {0}
    PROVE  Lives(w) \in Nat
  <1> DEFINE room == w + MaxDelay - 1
             v == w + 1
             q == room \div v
  <1>1. room \in Nat /\ v \in Nat \ {0}
    BY Given
  <1>2. q \in Nat
    <2> HIDE DEF room, v
    <2> QED
      BY <1>1, DivBounds
  <1>3. Lives(w) = 1 + q
    BY DEF Lives
  <1> HIDE DEF q
  <1> QED
    BY <1>2, <1>3

\* No more checks get past the counters of a key than its limit, once for each life
\* and each eviction.
LEMMA PastBound ==
    ASSUME NEW ledger, Kept(ledger), NEW key, Width(key[1]) \in Nat \ {0}
    PROVE  /\ Cardinality(Past(ledger, key)) <= Cap(key[1]) * (Lives(Width(key[1])) + Evictions(key))
           /\ Evictions(key) \in Nat
           /\ key[1] \notin Mails => Evictions(key) = 0
  <1> DEFINE w == Width(key[1])
             cap == Cap(key[1])
             n == Cardinality(Past(ledger, key))
             v == Evictions(key)
  <1>0. key[1] \notin Mails => Evictions(key) = 0
    BY DEF Kept, Evictions
  <1>1. w \in Nat \ {0} /\ cap \in Nat /\ n \in Nat
    BY WidthAndCap, PastIsFinite
  <1>2. CASE key \in Known
    <2>1. /\ key[3] \in Nat /\ v \in Nat
          /\ \/ Sound(counters[key], Start(key), w, cap, n, v)
             \/ Gone(now, Start(key), w, cap, n, v)
      BY <1>2 DEF Kept, Account
    <2>2. Start(key) \in Nat
      <3>1. Start(key) = key[3] * w
        BY DEF Start
      <3> HIDE DEF w
      <3> QED
        BY <1>1, <2>1, <3>1
    <2> HIDE DEF w, cap, n, v
    <2>3. n <= cap * (Lives(w) + v)
      BY <1>1, <2>1, <2>2, SoundBound, GoneBound
    <2> QED
      BY <1>0, <2>1, <2>3 DEF w, cap, n, v
  <1>3. CASE key \notin Known
    <2>1. Past(ledger, key) = {}
      BY <1>3 DEF Kept, Past
    <2>2. n = 0 /\ v = 0
      BY <1>3, <2>1, FS_EmptySet DEF Known, Evictions
    <2> DEFINE lives == Lives(w)
    <2>3. lives \in Nat
      BY <1>1, SomeLives
    <2> HIDE DEF w, cap, n, v, lives
    <2>4. n <= cap * (lives + v)
      BY <1>1, <2>2, <2>3
    <2> QED
      BY <2>2, <2>4 DEF w, cap, n, v, lives
  <1> QED
    BY <1>2, <1>3

\* So no more are allowed for a mailbox in a bucket.
LEMMA Admitted ==
    ASSUME IInv, NEW name, Width(name) \in Nat \ {0}, NEW tag, NEW c \in Nat,
           NEW S \in SUBSET Requests,
           \A r \in S : /\ outcome[r] = "allowed" /\ Applies(name, r) /\ Tag(name, r) = tag
                        /\ c * Width(name) <= readAt[r]
                        /\ readAt[r] <= c * Width(name) + Width(name) - 1
    PROVE  /\ Cardinality(S) <= Cap(name) * (Lives(Width(name)) + Evictions(<<name, tag, c>>))
           /\ name \notin Mails => Evictions(<<name, tag, c>>) = 0
  <1> PICK ledger : Kept(ledger)
    BY DEF IInv
  <1> DEFINE key == <<name, tag, c>>
  <1>1. ASSUME NEW r \in S
        PROVE  r \in Past(ledger, key)
    <2>1. r \in Requests /\ readAt[r] \in Nat
      BY Given DEF IInv, TypeOK
    <2>2. readAt[r] \div Width(name) = c
      <3> DEFINE w == Width(name)
      <3>1. w \in Nat \ {0} /\ c * w <= readAt[r] /\ readAt[r] <= c * w + w - 1
        OBVIOUS
      <3> HIDE DEF w
      <3>2. readAt[r] \div w = c
        BY <2>1, <3>1, OneBucket
      <3> QED
        BY <3>2 DEF w
    <2>3. KeyOf(name, r) = key
      BY <2>2 DEF KeyOf, KeyAt
    <2>4. <<r, KeyOf(name, r)>> \in ledger
      BY <2>1 DEF Kept, Passed
    <2> QED
      BY <2>1, <2>3, <2>4 DEF Past
  <1>2. S \in SUBSET Past(ledger, key) /\ key[1] = name
    BY <1>1
  <1>3. /\ IsFiniteSet(Past(ledger, key)) /\ Cardinality(Past(ledger, key)) \in Nat
    BY PastIsFinite
  <1>4. Cardinality(S) <= Cardinality(Past(ledger, key)) /\ Cardinality(S) \in Nat
    BY <1>2, <1>3, FS_Subset, FS_CardinalityType
  <1>5. /\ Cardinality(Past(ledger, key)) <= Cap(name) * (Lives(Width(name)) + Evictions(key))
        /\ Evictions(key) \in Nat
        /\ name \notin Mails => Evictions(key) = 0
    <2>1. Width(key[1]) \in Nat \ {0}
      BY <1>2
    <2> QED
      BY <1>2, <2>1, PastBound
  <1>6. Cap(name) * (Lives(Width(name)) + Evictions(key)) \in Nat
    <2> DEFINE cap == Cap(name)
               lives == Lives(Width(name))
               v == Evictions(key)
    <2>1. cap \in Nat /\ lives \in Nat /\ v \in Nat
      BY <1>5, WidthAndCap, SomeLives
    <2> HIDE DEF cap, lives, v
    <2>2. cap * (lives + v) \in Nat
      BY <2>1
    <2> QED
      BY <2>2 DEF cap, lives, v
  <1>7. Cardinality(S) <= Cap(name) * (Lives(Width(name)) + Evictions(key))
    <2> DEFINE bound == Cap(name) * (Lives(Width(name)) + Evictions(key))
    <2> HIDE DEF bound, key
    <2> QED
      BY <1>3, <1>4, <1>5, <1>6 DEF bound
  <1> QED
    BY <1>5, <1>7

\* The invariant bounds the mails of a mailbox.
LEMMA SendsBounded == IInv => SendsPerBucket
  <1> SUFFICES ASSUME IInv, NEW m \in Mailboxes
      PROVE  /\ Windowed => \A b \in Buckets(SendWindow) :
                   Cardinality(AllowedWithin("otp", m, b, b + SendWindow - 1))
                      <= SendBurst * (Lives(SendWindow) + Evictions(<<"otp-send", m, b \div SendWindow>>))
             /\ SendDailyLimit > 0 => \A b \in Buckets(Day) :
                   Cardinality(AllowedWithin("otp", m, b, b + Day - 1)) <= SendDailyLimit * (Lives(Day) + Evictions(<<"otp-day", m, b \div Day>>))
    BY DEF SendsPerBucket
  <1>1. /\ Width("otp-send") = SendWindow /\ Cap("otp-send") = SendBurst
        /\ Width("otp-day") = Day /\ Cap("otp-day") = SendDailyLimit
    BY DEF Width, Cap
  <1>2. ASSUME Windowed, NEW b \in Buckets(SendWindow)
        PROVE  Cardinality(AllowedWithin("otp", m, b, b + SendWindow - 1))
                  <= SendBurst * (Lives(SendWindow) + Evictions(<<"otp-send", m, b \div SendWindow>>))
    <2> DEFINE S == AllowedWithin("otp", m, b, b + SendWindow - 1)
    <2>1. SendWindow \in Nat \ {0}
      BY <1>2, Given DEF Windowed
    <2>2. PICK c \in 0..(MaxTime \div SendWindow) : b = c * SendWindow
      BY <1>2 DEF Buckets
    <2>3. c \in Nat /\ c * SendWindow \in Nat
      BY <2>1, <2>2, DivBounds, Given
    <2>4. ASSUME NEW r \in S
          PROVE  /\ outcome[r] = "allowed" /\ Applies("otp-send", r) /\ Tag("otp-send", r) = m
                 /\ c * SendWindow <= readAt[r] /\ readAt[r] <= c * SendWindow + SendWindow - 1
      <3>1. /\ r \in Requests /\ outcome[r] = "allowed" /\ form[r].kind = "otp"
            /\ Mailbox[form[r].address] = m /\ readAt[r] \in b..(b + SendWindow - 1)
        BY DEF AllowedWithin
      <3>2. Applies("otp-send", r) /\ Tag("otp-send", r) = m
        BY <1>2, <3>1 DEF Applies, FirstOf, Tag, AddressKey
      <3>3. b <= readAt[r] /\ readAt[r] <= b + SendWindow - 1
        BY <3>1, <2>1, <2>2, <2>3
      <3> QED
        BY <2>2, <3>1, <3>2, <3>3
    <2>5. S \in SUBSET Requests
      BY DEF AllowedWithin
    <2> HIDE DEF S
    <2>6. b \div SendWindow = c
      BY <2>1, <2>2, <2>3, OneBucket
    <2>7. Cardinality(S) <= SendBurst * (Lives(SendWindow) + Evictions(<<"otp-send", m, b \div SendWindow>>))
      BY <1>1, <2>1, <2>3, <2>4, <2>5, <2>6, Admitted
    <2> QED
      BY <2>7 DEF S
  <1>3. ASSUME SendDailyLimit > 0, NEW b \in Buckets(Day)
        PROVE  Cardinality(AllowedWithin("otp", m, b, b + Day - 1)) <= SendDailyLimit * (Lives(Day) + Evictions(<<"otp-day", m, b \div Day>>))
    <2> DEFINE S == AllowedWithin("otp", m, b, b + Day - 1)
    <2>1. Day \in Nat \ {0}
      BY Given
    <2>2. PICK c \in 0..(MaxTime \div Day) : b = c * Day
      BY <1>3 DEF Buckets
    <2>3. c \in Nat /\ c * Day \in Nat
      BY <2>1, <2>2, DivBounds, Given
    <2>4. ASSUME NEW r \in S
          PROVE  /\ outcome[r] = "allowed" /\ Applies("otp-day", r) /\ Tag("otp-day", r) = m
                 /\ c * Day <= readAt[r] /\ readAt[r] <= c * Day + Day - 1
      <3>1. /\ r \in Requests /\ outcome[r] = "allowed" /\ form[r].kind = "otp"
            /\ Mailbox[form[r].address] = m /\ readAt[r] \in b..(b + Day - 1)
        BY DEF AllowedWithin
      <3>2. Applies("otp-day", r) /\ Tag("otp-day", r) = m
        BY <1>3, <3>1 DEF Applies, LastOf, Tag, AddressKey
      <3>3. b <= readAt[r] /\ readAt[r] <= b + Day - 1
        BY <3>1, <2>1, <2>2, <2>3
      <3> QED
        BY <2>2, <3>1, <3>2, <3>3
    <2>5. S \in SUBSET Requests
      BY DEF AllowedWithin
    <2> HIDE DEF S
    <2>6. b \div Day = c
      BY <2>1, <2>2, <2>3, OneBucket
    <2>7. Cardinality(S) <= SendDailyLimit * (Lives(Day) + Evictions(<<"otp-day", m, b \div Day>>))
      BY <1>1, <2>1, <2>3, <2>4, <2>5, <2>6, Admitted
    <2> QED
      BY <2>7 DEF S
  <1> QED
    BY <1>2, <1>3

\* And the attempts at one.
LEMMA AttemptsBounded == IInv => AttemptsPerBucket
  <1> SUFFICES ASSUME IInv, NEW m \in Mailboxes, NEW b \in Buckets(AttemptWindow)
      PROVE  Cardinality({r \in Requests : /\ Permitted(r)
                                           /\ form[r].kind = "local"
                                           /\ Mailbox[form[r].address] = m
                                           /\ readAt[r] \in b..(b + AttemptWindow - 1)})
                <= MaxAttempts * Lives(AttemptWindow)
    BY DEF AttemptsPerBucket
  <1> DEFINE S == {r \in Requests : /\ Permitted(r)
                                    /\ form[r].kind = "local"
                                    /\ Mailbox[form[r].address] = m
                                    /\ readAt[r] \in b..(b + AttemptWindow - 1)}
  <1>1. Width("local-address") = AttemptWindow /\ Cap("local-address") = MaxAttempts
    BY DEF Width, Cap
  <1>2. AttemptWindow \in Nat \ {0}
    BY Given
  <1>3. PICK c \in 0..(MaxTime \div AttemptWindow) : b = c * AttemptWindow
    BY DEF Buckets
  <1>4. c \in Nat /\ c * AttemptWindow \in Nat
    BY <1>2, <1>3, DivBounds, Given
  <1>5. ASSUME NEW r \in S
        PROVE  /\ outcome[r] = "allowed" /\ Applies("local-address", r) /\ Tag("local-address", r) = m
               /\ c * AttemptWindow <= readAt[r]
               /\ readAt[r] <= c * AttemptWindow + AttemptWindow - 1
    <2>1. /\ r \in Requests /\ Permitted(r) /\ form[r].kind = "local"
          /\ Mailbox[form[r].address] = m /\ readAt[r] \in b..(b + AttemptWindow - 1)
      OBVIOUS
    <2>2. outcome[r] = "allowed"
      BY <2>1 DEF Permitted, IInv, Timed
    <2>3. Applies("local-address", r) /\ Tag("local-address", r) = m
      BY <2>1 DEF Applies, LastOf, Tag, AddressKey
    <2>4. b <= readAt[r] /\ readAt[r] <= b + AttemptWindow - 1
      BY <1>2, <1>3, <1>4, <2>1
    <2> QED
      BY <1>3, <2>2, <2>3, <2>4
  <1>6. S \in SUBSET Requests
    OBVIOUS
  <1> HIDE DEF S
  <1>7. Cardinality(S) <= MaxAttempts * Lives(AttemptWindow)
    <2> DEFINE v == Evictions(<<"local-address", m, c>>)
               lives == Lives(AttemptWindow)
    <2>1. Cardinality(S) <= MaxAttempts * (lives + v) /\ v = 0
      BY <1>1, <1>2, <1>4, <1>5, <1>6, Admitted DEF Mails
    <2>2. lives \in Nat
      BY <1>2, SomeLives
    <2> HIDE DEF v, lives
    <2>3. lives + v = lives
      BY <2>1, <2>2
    <2> QED
      BY <2>1, <2>3 DEF lives
  <1> QED
    BY <1>7 DEF S

\* However the checks of any number of requests interleave, whichever spelling of a
\* mailbox they use and however late a call reaches the store, a bucket lets no more
\* attempts at a credential through than LOCAL_AUTH_MAX_ATTEMPTS, whatever fails or
\* is evicted, and no more mails than the burst and the daily limit say, once more
\* for each time a full store gave the counter up
\* (src/store/limits.js:57-120, src/store/index.js:98-107).
THEOREM LimitsHold == Spec => []WithinLimits
  <1>1. IInv => WithinLimits
    BY SendsBounded, AttemptsBounded DEF IInv, WithinLimits
  <1> QED
    BY <1>1, Invariant, PTL

\* The image of a finite set under a function has no more elements.
LEMMA ImageBound ==
    ASSUME NEW f, IsFiniteSet(DOMAIN f), f = [x \in DOMAIN f |-> f[x]]
    PROVE  LET image == {f[x] : x \in DOMAIN f}
           IN  IsFiniteSet(image) /\ Cardinality(image) <= Cardinality(DOMAIN f)
  <1> DEFINE image == {f[x] : x \in DOMAIN f}
  <1>1. f \in Surjection(DOMAIN f, image)
    BY DEF Surjection
  <1> HIDE DEF image
  <1>2. IsFiniteSet(image) /\ Cardinality(image) <= Cardinality(DOMAIN f)
    BY <1>1, FS_Surjection
  <1> QED
    BY <1>2 DEF image

\* The invariant bounds the address counters by the sources: the requests that made
\* the store keep the counters of a bucket all got past the counter of their source,
\* and no two counters have the same such request.
LEMMA NetworkBounds == IInv => NetworkBoundsAddressKeys
  <1> DEFINE locals == {q \in Requests : form[q].kind = "local"}
             sources == {form[r].network : r \in locals}
             limit == NetworkMaxAttempts * Lives(AttemptWindow)
  <1> SUFFICES ASSUME IInv, NetworkMaxAttempts > 0, NoNetwork \notin sources,
                      NEW b \in 0..(MaxTime \div AttemptWindow)
      PROVE  Cardinality({key \in DOMAIN counters : key[1] = "local-address" /\ key[3] = b})
                <= limit * Cardinality(sources)
    BY DEF NetworkBoundsAddressKeys
  <1> DEFINE keys == {key \in DOMAIN counters : key[1] = "local-address" /\ key[3] = b}
  <1> PICK ledger : Kept(ledger)
    BY DEF IInv
  <1>1. limit \in Nat
    <2> DEFINE lives == Lives(AttemptWindow)
    <2>1. lives \in Nat /\ NetworkMaxAttempts \in Nat
      BY Given, SomeLives
    <2> HIDE DEF lives
    <2>2. NetworkMaxAttempts * lives \in Nat
      BY <2>1
    <2> QED
      BY <2>2 DEF lives
  <1>2. IsFiniteSet(sources) /\ Cardinality(sources) \in Nat
    <2> DEFINE f == [r \in locals |-> form[r].network]
    <2>1. locals \in SUBSET Requests
      OBVIOUS
    <2>2. IsFiniteSet(locals)
      BY <2>1, Given, FS_Subset
    <2>3. DOMAIN f = locals /\ sources = {f[r] : r \in DOMAIN f} /\ f = [r \in DOMAIN f |-> f[r]]
      OBVIOUS
    <2> HIDE DEF f, locals, sources
    <2>4. IsFiniteSet(sources)
      BY <2>2, <2>3, ImageBound
    <2> QED
      BY <2>4, FS_CardinalityType
  <1> DEFINE set == [n \in sources |-> Past(ledger, <<"local-network", n, b>>)]
             all == UNION {set[n] : n \in sources}
  <1>3. ASSUME NEW n \in sources
        PROVE  IsFiniteSet(set[n]) /\ Cardinality(set[n]) <= limit
    <2> DEFINE key == <<"local-network", n, b>>
    <2>1. set[n] = Past(ledger, key) /\ key[1] = "local-network"
      OBVIOUS
    <2>2. Width("local-network") = AttemptWindow /\ Cap("local-network") = NetworkMaxAttempts
          /\ AttemptWindow \in Nat \ {0}
      BY Given DEF Width, Cap
    <2> HIDE DEF key, set
    <2>3. IsFiniteSet(Past(ledger, key))
      BY PastIsFinite
    <2>4. /\ Cardinality(Past(ledger, key))
                <= NetworkMaxAttempts * (Lives(AttemptWindow) + Evictions(key))
          /\ Evictions(key) = 0
      BY <2>1, <2>2, PastBound DEF Mails
    <2>5. Lives(AttemptWindow) + Evictions(key) = Lives(AttemptWindow)
      <3> DEFINE lives == Lives(AttemptWindow)
      <3>1. lives \in Nat
        BY <2>2, SomeLives
      <3> HIDE DEF lives
      <3>2. lives + Evictions(key) = lives
        BY <2>4, <3>1
      <3> QED
        BY <3>2 DEF lives
    <2>6. Cardinality(Past(ledger, key)) <= limit
      BY <2>4, <2>5
    <2> QED
      BY <2>1, <2>3, <2>6
  <1>4. IsFiniteSet(all) /\ Cardinality(all) <= limit * Cardinality(sources)
    <2> HIDE DEF sources, limit, set
    <2> QED
      BY <1>1, <1>2, <1>3, Together
  <1> DEFINE f == [r \in all |-> <<"local-address", AddressKey(r), b>>]
             image == {f[r] : r \in DOMAIN f}
  <1>5. IsFiniteSet(image) /\ Cardinality(image) <= Cardinality(all)
    <2>1. DOMAIN f = all /\ f = [r \in DOMAIN f |-> f[r]]
      OBVIOUS
    <2> HIDE DEF f, all
    <2> QED
      BY <1>4, <2>1, ImageBound
  <1>6. ASSUME NEW key \in keys
        PROVE  key \in image
    <2>1. PICK r \in Requests : Owner(r, key, ledger)
      BY DEF Kept
    <2>2. form[r].kind = "local" /\ key = KeyOf("local-address", r) /\ key[3] = b
      BY <2>1 DEF Owner
    <2>3. form[r].network \in sources
      BY <2>1, <2>2
    <2>4. Applies("local-network", r)
      BY <2>2, <2>3 DEF Applies, FirstOf
    <2>5. <<r, KeyOf("local-network", r)>> \in ledger
      BY <2>1, <2>4 DEF Owner
    <2>6. readAt[r] \div AttemptWindow = b
      BY <2>2 DEF KeyOf, KeyAt, Width
    <2>7. KeyOf("local-network", r) = <<"local-network", form[r].network, b>>
      BY <2>6 DEF KeyOf, KeyAt, Width, Tag
    <2>8. r \in set[form[r].network]
      BY <2>3, <2>5, <2>7 DEF Past
    <2>9. r \in all
      <3> HIDE DEF set, sources
      <3> QED
        BY <2>3, <2>8
    <2>10. key = <<"local-address", AddressKey(r), b>>
      BY <2>2, <2>6 DEF KeyOf, KeyAt, Width, Tag
    <2> HIDE DEF all
    <2> QED
      BY <2>9, <2>10
  <1>7. keys \in SUBSET image
    <2> HIDE DEF keys, image
    <2> QED
      BY <1>6
  <1>8. Cardinality(keys) <= Cardinality(image) /\ IsFiniteSet(keys)
    BY <1>5, <1>7, FS_Subset
  <1>9. limit * Cardinality(sources) \in Nat
    <2> DEFINE size == Cardinality(sources)
    <2>1. size \in Nat
      BY <1>2
    <2> HIDE DEF limit, size
    <2>2. limit * size \in Nat
      BY <1>1, <2>1
    <2> QED
      BY <2>2 DEF size
  <1>10. /\ Cardinality(keys) \in Nat /\ Cardinality(image) \in Nat /\ Cardinality(all) \in Nat
    BY <1>4, <1>5, <1>8, FS_CardinalityType
  <1>11. Cardinality(keys) <= limit * Cardinality(sources)
    <2> HIDE DEF keys, image, all, limit, sources
    <2> QED
      BY <1>4, <1>5, <1>8, <1>9, <1>10
  <1> QED
    BY <1>11

\* Any number of sources, with any number of requests each, make the store keep no
\* more address counters in a bucket than their own limits allow them attempts, since
\* a source's own counter is the first that a check has to get past
\* (src/store/limits.js:111-115).
THEOREM NetworkLimitsKeys == Spec => []NetworkBoundsAddressKeys
  BY NetworkBounds, Invariant, PTL
===============================================================================
