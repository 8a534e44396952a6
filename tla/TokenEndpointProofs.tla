-------------------------- MODULE TokenEndpointProofs --------------------------
(***************************************************************************)
(* Proofs about TokenEndpoint, for any number of codes, assertions,         *)
(* requests and instances, any clock offsets and any lifetimes.            *)
(***************************************************************************)
EXTENDS TokenEndpoint, TLAPS

--------------------------------------------------------------------------------
(* The inductive invariant *)

\* The clock has started and the record has a version.
Started == time >= TicksPerSecond /\ version # 0

\* A request that was presented names a code that was minted.
Begun == \A r \in Requests : step[r] # "idle" => codeExp[form[r].code] # 0

\* A request that waits to claim its code began when the code was good, and has
\* not waited longer than MaxDelay.
Waiting ==
    \A r \in Requests : step[r] = "code" =>
        /\ since[r] <= time
        /\ time <= since[r] + MaxDelay
        /\ codeExp[form[r].code] >= (since[r] + Offset[form[r].at]) \div TicksPerSecond

\* The claim on c outlives the code by the grace, as the claimant's clock has it.
HeldLong(c) ==
    IF Backend = "record"
    THEN held[c] >= codeExp[c] + Grace
    ELSE \E i \in Instances :
            held[c] + Offset[i] >= (codeExp[c] + Grace) * TicksPerSecond

\* A code with a redeemer is held that long.
Covered == \A c \in Codes : Redeemers(c) # {} => HeldLong(c)

\* A request waits for the claim of an assertion only if it presents one.
AssertionPresented ==
    \A r \in Requests : step[r] = "assertion" => form[r].assertion # NoAssertion

\* The inductive form of TypeOK.
TypeInv == TypeOK /\ Started /\ AssertionPresented

\* The inductive form of CodeSpentOnce.
SafeInv == TypeInv /\ Begun /\ Waiting /\ Covered /\ CodeSpentOnce

--------------------------------------------------------------------------------
(* Arithmetic *)

\* What \div rounds away is less than the divisor.
LEMMA DivBounds ==
    ASSUME NEW a \in Nat, NEW b \in Nat \ {0}
    PROVE  /\ a \div b \in Nat
           /\ b * (a \div b) <= a
           /\ a < b * (a \div b) + b
  BY Z3

\* A clock is behind the real time it stands for by less than a second.
LEMMA ClockBounds ==
    ASSUME TypeOK, NEW i \in Instances
    PROVE  /\ Clock(i) \in Nat
           /\ TicksPerSecond * Clock(i) <= time + Offset[i]
           /\ time + Offset[i] < TicksPerSecond * Clock(i) + TicksPerSecond
  <1>1. time + Offset[i] \in Nat /\ TicksPerSecond \in Nat \ {0}
    BY TokenAssumption DEF TypeOK
  <1> QED
    BY <1>1, DivBounds DEF Clock

\* The deadline of a claim by i reaches `until', as i's clock has it.
LEMMA DeadlineReaches ==
    ASSUME TypeOK, NEW i \in Instances, NEW until \in Nat
    PROVE  LET d == Deadline(i, Less(until, Clock(i)))
           IN  /\ d \in Nat
               /\ Backend = "record" => d >= until
               /\ Backend = "alarm" => d + Offset[i] >= until * TicksPerSecond
  <1> DEFINE k == Clock(i)
             t == TicksPerSecond
             m == Most(MinTtl, Less(until, k))
  <1>1. /\ k \in Nat
        /\ t * k <= time + Offset[i]
        /\ t \in Nat /\ time \in Nat /\ MinTtl \in Nat /\ Offset[i] \in Nat
    BY ClockBounds, TokenAssumption DEF TypeOK
  <1>2. m \in Nat /\ m + k >= until
    BY <1>1 DEF Most, Less
  <1> HIDE DEF k, t, m
  <1>3. t * m + t * k >= t * until /\ t * m \in Nat
    <2>1. t * (m + k) >= t * until
      BY <1>1, <1>2
    <2> QED
      BY <2>1, <1>1, <1>2
  <1>4. time + t * m + Offset[i] >= t * until
    BY <1>1, <1>3, t * k \in Nat, t * until \in Nat
  <1>5. m * t = t * m /\ until * t = t * until
    BY <1>1, <1>2
  <1>6. Deadline(i, Less(until, k)) = IF Backend = "record" THEN k + m ELSE time + m * t
    BY DEF Deadline, k, m, t
  <1>7. Backend = "record" \/ Backend = "alarm"
    BY TokenAssumption
  <1>8. CASE Backend = "record"
    BY <1>1, <1>2, <1>6, <1>8 DEF k
  <1>9. CASE Backend = "alarm"
    BY <1>1, <1>2, <1>3, <1>4, <1>5, <1>6, <1>9 DEF k, t
  <1> QED
    BY <1>7, <1>8, <1>9

--------------------------------------------------------------------------------
(* Type correctness *)

\* A request moves to a step, and notes the time when that step awaits a claim.
LEMMA GotoType ==
    ASSUME TypeOK, NEW r \in Requests, NEW next \in Steps, Goto(r, next)
    PROVE  step' \in [Requests -> Steps] /\ since' \in [Requests -> Nat]
  BY DEF TypeOK, Goto

\* A claim leaves the store well-formed.
LEMMA ClaimType ==
    ASSUME TypeOK, NEW id \in Claimable, NEW i \in Instances, NEW until \in Nat,
           Claim(id, i, Less(until, Clock(i)))
    PROVE  held' \in [Claimable -> Nat]
  <1>1. Deadline(i, Less(until, Clock(i))) \in Nat
    BY DeadlineReaches
  <1> QED
    BY <1>1 DEF Claim, TypeOK

\* What a request presents is well-formed.
LEMMA FormType ==
    ASSUME TypeOK, NEW r \in Requests
    PROVE  /\ form[r] \in Forms
           /\ form[r].at \in Instances
           /\ form[r].code \in Codes
           /\ form[r].assertion \in Assertions \cup {NoAssertion}
           /\ form[r].bound \in BOOLEAN
  BY DEF TypeOK, Forms

\* The initial states are well-formed.
LEMMA TypeInitially == Init => TypeInv
  <1> SUFFICES ASSUME Init PROVE TypeInv
    OBVIOUS
  <1>1. TypeOK
    BY TokenAssumption DEF Init, TypeOK, Steps, Claimable
  <1>2. Started /\ AssertionPresented
    BY TokenAssumption DEF Init, Started, AssertionPresented
  <1> QED
    BY <1>1, <1>2 DEF TypeInv

\* Every step keeps the state well-formed.
LEMMA TypeStep == TypeInv /\ [Next]_vars => TypeInv'
  <1> SUFFICES ASSUME TypeInv, [Next]_vars PROVE TypeInv'
    OBVIOUS
  <1> USE DEF TypeInv
  <1>1. ASSUME NEW i \in Instances, NEW c \in Codes, IssueCode(i, c)
        PROVE  TypeInv'
    <2>1. Clock(i) \in Nat /\ Clock(i) + CodeTtl \in Nat \ {0}
      <3>1. Clock(i) \in Nat /\ TicksPerSecond <= time + Offset[i]
            /\ time + Offset[i] < TicksPerSecond * Clock(i) + TicksPerSecond
        BY ClockBounds, TokenAssumption DEF TypeOK, Started
      <3>2. Clock(i) # 0
        <4>1. time + Offset[i] \in Nat /\ TicksPerSecond \in Nat
          BY TokenAssumption DEF TypeOK
        <4> SUFFICES ASSUME Clock(i) = 0 PROVE FALSE
          OBVIOUS
        <4>2. TicksPerSecond * Clock(i) = 0
          BY <4>1
        <4>3. time + Offset[i] < 0 + TicksPerSecond
          BY <3>1, <4>2
        <4> QED
          BY <3>1, <4>1, <4>3
      <3> QED
        BY <3>1, <3>2, TokenAssumption
    <2>2. TypeOK'
      BY <1>1, <2>1 DEF IssueCode, TypeOK, Started
    <2> QED
      BY <1>1, <2>2 DEF IssueCode, Started, AssertionPresented
  <1>2. ASSUME NEW r \in Requests, Present(r)
        PROVE  TypeInv'
    <2> DEFINE next == IF form[r].assertion = NoAssertion THEN "redeem"
                       ELSE IF AssertionValid(form[r].assertion, form[r].at) THEN "assertion"
                       ELSE "refused"
    <2>1. Goto(r, next)
      BY <1>2 DEF Present
    <2>2. next \in Steps /\ (next = "assertion" => form[r].assertion # NoAssertion)
      BY DEF Steps
    <2> HIDE DEF next
    <2>3. step' \in [Requests -> Steps] /\ since' \in [Requests -> Nat]
      BY <2>1, <2>2, GotoType
    <2>4. TypeOK'
      BY <1>2, <2>3 DEF Present, TypeOK
    <2>5. AssertionPresented'
      BY <1>2, <2>1, <2>2 DEF Present, Goto, AssertionPresented, TypeOK
    <2> QED
      BY <1>2, <2>4, <2>5 DEF Present, Started
  <1>3. ASSUME NEW r \in Requests, ClaimAssertion(r)
        PROVE  TypeInv'
    <2> DEFINE next == IF Live(form[r].assertion, form[r].at) THEN "refused" ELSE "redeem"
    <2>1. Goto(r, next) /\ next \in Steps /\ next # "assertion"
      BY <1>3 DEF ClaimAssertion, Steps
    <2> HIDE DEF next
    <2>2. step' \in [Requests -> Steps] /\ since' \in [Requests -> Nat]
      BY <2>1, GotoType
    <2>3. form[r].assertion \in Assertions
      BY <1>3, FormType DEF ClaimAssertion, AssertionPresented
    <2>4. held' \in [Claimable -> Nat]
      <3>1. AssertionExp[form[r].assertion] + ClockSkew \in Nat
        BY <2>3, TokenAssumption
      <3> QED
        BY <1>3, <2>3, <3>1, FormType, ClaimType DEF ClaimAssertion, AssertionTtl, Claimable
    <2>5. TypeOK'
      BY <1>3, <2>2, <2>4 DEF ClaimAssertion, TypeOK
    <2> QED
      BY <1>3, <2>1, <2>5 DEF ClaimAssertion, Goto, Started, AssertionPresented, TypeOK
  <1>4. ASSUME NEW r \in Requests, Redeem(r)
        PROVE  TypeInv'
    <2> DEFINE next == IF codeExp[form[r].code] >= Clock(form[r].at) /\ form[r].bound
                       THEN "code" ELSE "refused"
    <2>1. Goto(r, next) /\ next \in Steps /\ next # "assertion"
      BY <1>4 DEF Redeem, Steps
    <2> HIDE DEF next
    <2>2. step' \in [Requests -> Steps] /\ since' \in [Requests -> Nat]
      BY <2>1, GotoType
    <2>3. TypeOK'
      BY <1>4, <2>2 DEF Redeem, TypeOK
    <2> QED
      BY <1>4, <2>1, <2>3 DEF Redeem, Goto, Started, AssertionPresented, TypeOK
  <1>5. ASSUME NEW r \in Requests, ClaimCode(r)
        PROVE  TypeInv'
    <2> DEFINE next == IF Live(form[r].code, form[r].at) THEN "refused"
                       ELSE IF form[r].code \in LocalCodes THEN "recheck" ELSE "sign"
    <2>1. Goto(r, next) /\ next \in Steps /\ next # "assertion"
      BY <1>5 DEF ClaimCode, Steps
    <2> HIDE DEF next
    <2>2. step' \in [Requests -> Steps] /\ since' \in [Requests -> Nat]
      BY <2>1, GotoType
    <2>3. codeExp[form[r].code] + Grace \in Nat
      BY FormType, TokenAssumption DEF TypeOK
    <2>4. held' \in [Claimable -> Nat]
      BY <1>5, <2>3, FormType, ClaimType DEF ClaimCode, CodeClaimTtl, Claimable
    <2>5. TypeOK'
      BY <1>5, <2>2, <2>4 DEF ClaimCode, TypeOK
    <2> QED
      BY <1>5, <2>1, <2>5 DEF ClaimCode, Goto, Started, AssertionPresented, TypeOK
  <1>6. ASSUME NEW r \in Requests, ClaimFails(r)
        PROVE  TypeInv'
    <2>1. Goto(r, "refused") /\ "refused" \in Steps
      BY <1>6 DEF ClaimFails, Steps
    <2>2. step' \in [Requests -> Steps] /\ since' \in [Requests -> Nat]
      BY <2>1, GotoType
    <2>3. held' \in [Claimable -> Nat]
      <3>1. CASE step[r] = "assertion"
        <4>1. form[r].assertion \in Assertions
          BY <3>1, FormType DEF AssertionPresented
        <4>2. AssertionExp[form[r].assertion] + ClockSkew \in Nat
          BY <4>1, TokenAssumption
        <4> QED
          BY <1>6, <3>1, <4>1, <4>2, FormType, ClaimType
             DEF ClaimFails, AssertionTtl, Claimable, TypeOK
      <3>2. CASE step[r] = "code"
        <4>1. codeExp[form[r].code] + Grace \in Nat
          BY FormType, TokenAssumption DEF TypeOK
        <4> QED
          BY <1>6, <3>2, <4>1, FormType, ClaimType
             DEF ClaimFails, CodeClaimTtl, Claimable, TypeOK
      <3> QED
        BY <1>6, <3>1, <3>2 DEF ClaimFails
    <2>4. TypeOK'
      BY <1>6, <2>2, <2>3 DEF ClaimFails, TypeOK
    <2> QED
      BY <1>6, <2>1, <2>4 DEF ClaimFails, Goto, Started, AssertionPresented, TypeOK
  <1>7. ASSUME NEW r \in Requests, Recheck(r) \/ Sign(r)
        PROVE  TypeInv'
    <2>1. PICK next \in Steps : Goto(r, next) /\ next # "assertion"
      BY <1>7 DEF Recheck, Sign, Steps
    <2>2. step' \in [Requests -> Steps] /\ since' \in [Requests -> Nat]
      BY <2>1, GotoType
    <2>3. TypeOK'
      BY <1>7, <2>2 DEF Recheck, Sign, TypeOK
    <2> QED
      BY <1>7, <2>1, <2>3 DEF Recheck, Sign, Goto, Started, AssertionPresented, TypeOK
  <1>8. ASSUME Administer \/ Tick
        PROVE  TypeInv'
    <2>1. CASE Administer
      <3>1. active' \in BOOLEAN
        BY <2>1 DEF Administer, TypeOK
      <3>2. version' \in Nat \ {0}
        BY <2>1 DEF Administer, TypeOK, Started
      <3> QED
        BY <2>1, <3>1, <3>2 DEF Administer, TypeOK, Started, AssertionPresented
    <2>2. CASE Tick
      <3>1. time' \in Nat /\ time' >= TicksPerSecond
        BY <2>2, TokenAssumption DEF Tick, TypeOK, Started
      <3> QED
        BY <2>2, <3>1 DEF Tick, TypeOK, Started, AssertionPresented
    <2> QED
      BY <1>8, <2>1, <2>2
  <1>9. ASSUME UNCHANGED vars
        PROVE  TypeInv'
    BY <1>9 DEF vars, TypeOK, Started, AssertionPresented
  <1> QED
    BY <1>1, <1>2, <1>3, <1>4, <1>5, <1>6, <1>7, <1>8, <1>9 DEF Next

\* Every behaviour of the endpoint keeps its state well-formed, and every minted
\* code carries the security_version it was minted under.
THEOREM TypeCorrect == Spec => []TypeOK
  <1>1. Spec => []TypeInv
    BY TypeInitially, TypeStep, PTL DEF Spec
  <1> QED
    BY <1>1, PTL DEF TypeInv

--------------------------------------------------------------------------------
(* A code is spent once *)

\* While a request may still answer with tokens for c, nobody else's claim on c
\* is granted: whoever waits for it found the code good when it began to wait.
LEMMA StillHeld ==
    ASSUME TypeOK, Waiting, Covered,
           NEW c \in Codes, Redeemers(c) # {},
           NEW s \in Requests, step[s] = "code", form[s].code = c
    PROVE  Live(c, form[s].at)
  <1> DEFINE j == form[s].at
             t == TicksPerSecond
             e == codeExp[c]
             b == since[s] + Offset[j]
  <1>1. /\ j \in Instances
        /\ t \in Nat \ {0}
        /\ e \in Nat /\ b \in Nat /\ time \in Nat /\ held[c] \in Nat /\ since[s] \in Nat
        /\ Offset[j] \in Nat /\ MaxDelay \in Nat /\ Grace \in Nat
    BY FormType, TokenAssumption DEF TypeOK, Claimable
  <1>2. time <= since[s] + MaxDelay /\ e >= b \div t
    BY DEF Waiting
  <1>3. HeldLong(c)
    BY DEF Covered
  <1>4. b \div t \in Nat /\ b < t * (b \div t) + t
    BY <1>1, DivBounds
  <1>5. b < t * e + t
    <2>1. t * (b \div t) <= t * e
      BY <1>1, <1>2, <1>4
    <2> HIDE DEF b, t, e
    <2> QED
      BY <1>1, <1>4, <2>1, t * (b \div t) \in Nat, t * e \in Nat
  <1>6. time + Offset[j] <= b + MaxDelay
    BY <1>1, <1>2
  <1>7. CASE Backend = "record"
    <2>1. held[c] >= e + Grace
      BY <1>3, <1>7 DEF HeldLong
    <2>2. MaxDelay <= t * Grace
      BY <1>1, <1>7, MarginCovers
    <2>3. /\ Clock(j) \in Nat
          /\ t * Clock(j) <= time + Offset[j]
      BY <1>1, ClockBounds
    <2>4. t * Clock(j) < t * (e + Grace + 1)
      <3>1. t * (e + Grace + 1) = t * e + t * Grace + t
        BY <1>1
      <3> HIDE DEF b, t, e, j
      <3> QED
        BY <1>1, <1>5, <1>6, <2>2, <2>3, <3>1,
           t * e \in Nat, t * Grace \in Nat, t * Clock(j) \in Nat
    <2>5. Clock(j) < e + Grace + 1
      <3> HIDE DEF b, t, e, j
      <3> SUFFICES ASSUME Clock(j) >= e + Grace + 1 PROVE FALSE
        BY <1>1, <2>3
      <3>1. t * Clock(j) >= t * (e + Grace + 1)
        BY <1>1, <2>3
      <3> QED
        BY <1>1, <2>3, <2>4, <3>1
    <2> QED
      BY <1>1, <1>7, <2>1, <2>3, <2>5 DEF Live
  <1>8. CASE Backend # "record"
    <2>1. PICK i \in Instances : held[c] + Offset[i] >= (e + Grace) * t
      BY <1>3, <1>8 DEF HeldLong
    <2>2. Offset[i] \in Nat /\ Offset[i] + MaxDelay + t <= Offset[j] + t * Grace
      BY <1>1, <1>8, MarginCovers, TokenAssumption
    <2>3. (e + Grace) * t = t * e + t * Grace
      BY <1>1
    <2>4. held[c] > time
      <3> HIDE DEF b, t, e, j
      <3> QED
        BY <1>1, <1>5, <1>6, <2>1, <2>2, <2>3, t * e \in Nat, t * Grace \in Nat
    <2> QED
      BY <1>8, <2>4 DEF Live
  <1> QED
    BY <1>7, <1>8

\* A claim that is granted is held long enough.
LEMMA GrantedIsHeldLong ==
    ASSUME TypeOK, NEW r \in Requests, ~Live(form[r].code, form[r].at),
           Claim(form[r].code, form[r].at, CodeClaimTtl(r)), UNCHANGED <<codeExp, form>>
    PROVE  HeldLong(form[r].code)'
  <1> DEFINE c == form[r].code
             i == form[r].at
  <1>1. c \in Codes /\ i \in Instances /\ codeExp[c] + Grace \in Nat
    BY FormType, TokenAssumption DEF TypeOK
  <1>2. held'[c] = Deadline(i, Less(codeExp[c] + Grace, Clock(i)))
    BY <1>1 DEF Claim, CodeClaimTtl, TypeOK, Claimable
  <1>3. Backend = "record" \/ Backend = "alarm"
    BY TokenAssumption
  <1> HIDE DEF i
  <1>4. CASE Backend = "record"
    BY <1>1, <1>2, <1>4, DeadlineReaches DEF HeldLong
  <1>5. CASE Backend = "alarm"
    <2>1. held'[c] + Offset[i] >= (codeExp[c] + Grace) * TicksPerSecond
      BY <1>1, <1>2, <1>5, DeadlineReaches
    <2> QED
      BY <1>1, <1>5, <2>1 DEF HeldLong
  <1> QED
    BY <1>3, <1>4, <1>5

\* The initial states satisfy the invariant: nobody has redeemed anything.
LEMMA SafeInitially == Init => SafeInv
  <1> SUFFICES ASSUME Init PROVE SafeInv
    OBVIOUS
  <1>1. TypeInv
    BY TypeInitially
  <1>2. \A r \in Requests : step[r] = "idle"
    BY DEF Init
  <1>3. \A c \in Codes : Redeemers(c) = {}
    BY <1>2 DEF Redeemers
  <1> QED
    BY <1>1, <1>2, <1>3 DEF SafeInv, Begun, Waiting, Covered, CodeSpentOnce

\* A step that leaves the claims on codes alone and makes nobody a redeemer.
LEMMA QuietStep ==
    ASSUME SafeInv, UNCHANGED form,
           \A c \in Codes : codeExp[c] # 0 => codeExp'[c] = codeExp[c],
           \A c \in Codes : Redeemers(c) # {} => held'[c] = held[c],
           \A r \in Requests : step'[r] \in {"recheck", "sign", "tokens"} =>
                                  step[r] \in {"recheck", "sign", "tokens"}
    PROVE  (Covered /\ CodeSpentOnce)'
  <1>1. ASSUME NEW c \in Codes
        PROVE  Redeemers(c)' \subseteq Redeemers(c)
    BY DEF Redeemers
  <1>2. ASSUME NEW c \in Codes, Redeemers(c)' # {}
        PROVE  HeldLong(c)'
    <2>1. HeldLong(c) /\ held'[c] = held[c]
      BY <1>1, <1>2 DEF SafeInv, Covered
    <2>2. codeExp[c] # 0
      BY <1>1, <1>2 DEF SafeInv, Begun, Redeemers
    <2> QED
      BY <2>1, <2>2 DEF HeldLong
  <1>3. CodeSpentOnce'
    BY <1>1 DEF SafeInv, CodeSpentOnce
  <1> QED
    BY <1>2, <1>3 DEF Covered

\* Every step keeps the invariant.
LEMMA SafeStep == SafeInv /\ [Next]_vars => SafeInv'
  <1> SUFFICES ASSUME SafeInv, [Next]_vars PROVE SafeInv'
    OBVIOUS
  <1>t. TypeInv'
    BY TypeStep DEF SafeInv
  <1>o. TypeOK /\ Begun /\ Waiting /\ Covered /\ CodeSpentOnce
    BY DEF SafeInv, TypeInv
  <1>1. ASSUME NEW i \in Instances, NEW c \in Codes, IssueCode(i, c)
        PROVE  SafeInv'
    <2>1. \A d \in Codes : codeExp[d] # 0 => codeExp'[d] = codeExp[d]
      BY <1>1, <1>o DEF IssueCode, TypeOK
    <2>2. (Covered /\ CodeSpentOnce)'
      BY <1>1, <2>1, QuietStep DEF IssueCode
    <2>3. (Begun /\ Waiting)'
      BY <1>1, <1>o, <2>1, FormType DEF IssueCode, Begun, Waiting
    <2> QED
      BY <1>t, <2>2, <2>3 DEF SafeInv
  <1>2. ASSUME NEW r \in Requests, Present(r) \/ Recheck(r) \/ Sign(r)
        PROVE  SafeInv'
    <2>1. PICK next \in Steps : /\ Goto(r, next)
                                /\ next # "code"
                                /\ next \in {"sign", "tokens"} => step[r] \in {"recheck", "sign"}
                                /\ next # "recheck"
      BY <1>2 DEF Present, Recheck, Sign, Steps
    <2>2. UNCHANGED <<time, codeExp, held, form>>
      BY <1>2 DEF Present, Recheck, Sign
    <2>3. codeExp[form[r].code] # 0
      BY <1>2, <1>o DEF Present, Recheck, Sign, Begun
    <2>4. \A s \in Requests : step'[s] = IF s = r THEN next ELSE step[s]
      BY <2>1, <1>o DEF Goto, TypeOK
    <2>5. \A s \in Requests : s # r => since'[s] = since[s]
      BY <2>1, <1>o DEF Goto, TypeOK
    <2>6. (Covered /\ CodeSpentOnce)'
      BY <2>1, <2>2, <2>4, QuietStep
    <2>7. Begun' /\ Waiting'
      BY <2>1, <2>2, <2>3, <2>4, <2>5, <1>o DEF Begun, Waiting
    <2> QED
      BY <1>t, <2>6, <2>7 DEF SafeInv
  <1>3. ASSUME NEW r \in Requests, Redeem(r)
        PROVE  SafeInv'
    <2> DEFINE next == IF codeExp[form[r].code] >= Clock(form[r].at) /\ form[r].bound
                       THEN "code" ELSE "refused"
    <2>1. Goto(r, next) /\ UNCHANGED <<time, codeExp, held, form>> /\ step[r] = "redeem"
      BY <1>3 DEF Redeem
    <2>2. next \in {"code", "refused"} /\ (next = "code" => codeExp[form[r].code] >= Clock(form[r].at))
      OBVIOUS
    <2> HIDE DEF next
    <2>3. \A s \in Requests : step'[s] = IF s = r THEN next ELSE step[s]
      BY <2>1, <1>o DEF Goto, TypeOK
    <2>4. \A s \in Requests : s # r => since'[s] = since[s]
      BY <2>1, <1>o DEF Goto, TypeOK
    <2>5. next = "code" => since'[r] = time
      BY <2>1, <1>o DEF Goto, TypeOK, Claiming
    <2>6. (Covered /\ CodeSpentOnce)'
      BY <2>1, <2>2, <2>3, QuietStep
    <2>7. Begun'
      BY <2>1, <2>3, <1>o DEF Begun
    <2>8. Waiting'
      <3> SUFFICES ASSUME NEW s \in Requests, step'[s] = "code"
                   PROVE  /\ since'[s] <= time'
                          /\ time' <= since'[s] + MaxDelay
                          /\ codeExp'[form'[s].code] >=
                                (since'[s] + Offset[form'[s].at]) \div TicksPerSecond
        BY DEF Waiting
      <3>1. CASE s = r
        BY <2>1, <2>2, <2>3, <2>5, <3>1, <1>o, TokenAssumption DEF Clock, TypeOK
      <3>2. CASE s # r
        BY <2>1, <2>3, <2>4, <3>2, <1>o DEF Waiting
      <3> QED
        BY <3>1, <3>2
    <2> QED
      BY <1>t, <2>6, <2>7, <2>8 DEF SafeInv
  <1>4. ASSUME NEW r \in Requests, ClaimAssertion(r) \/ ClaimFails(r)
        PROVE  SafeInv'
    <2>1. PICK next \in Steps : Goto(r, next) /\ next \in {"redeem", "refused"}
      BY <1>4 DEF ClaimAssertion, ClaimFails, Steps
    <2>2. UNCHANGED <<time, codeExp, form>> /\ step[r] # "idle"
      BY <1>4 DEF ClaimAssertion, ClaimFails
    <2>3. \A s \in Requests : step'[s] = IF s = r THEN next ELSE step[s]
      BY <2>1, <1>o DEF Goto, TypeOK
    <2>4. \A s \in Requests : s # r => since'[s] = since[s]
      BY <2>1, <1>o DEF Goto, TypeOK
    <2>5. ASSUME NEW c \in Codes, Redeemers(c) # {}
          PROVE  held'[c] = held[c]
      <3>1. CASE step[r] = "assertion"
        <4>1. form[r].assertion \in Assertions /\ form[r].assertion # c
          BY <3>1, FormType, TokenAssumption DEF SafeInv, TypeInv, AssertionPresented
        <4> QED
          BY <1>4, <3>1, <4>1, <1>o DEF ClaimAssertion, ClaimFails, Claim, TypeOK, Claimable
      <3>2. CASE step[r] = "code"
        <4>1. form[r].code = c => Live(c, form[r].at)
          BY <2>5, <3>2, <1>o, StillHeld
        <4> QED
          BY <1>4, <3>2, <4>1, <1>o, FormType DEF ClaimAssertion, ClaimFails, Claim, TypeOK, Claimable
      <3> QED
        BY <1>4, <3>1, <3>2 DEF ClaimAssertion, ClaimFails
    <2>6. (Covered /\ CodeSpentOnce)'
      BY <2>1, <2>2, <2>3, <2>5, QuietStep
    <2>7. Begun' /\ Waiting'
      BY <2>1, <2>2, <2>3, <2>4, <1>o DEF Begun, Waiting
    <2> QED
      BY <1>t, <2>6, <2>7 DEF SafeInv
  <1>5. ASSUME NEW r \in Requests, ClaimCode(r)
        PROVE  SafeInv'
    <2> DEFINE c == form[r].code
               i == form[r].at
               next == IF Live(c, i) THEN "refused"
                       ELSE IF c \in LocalCodes THEN "recheck" ELSE "sign"
    <2>1. /\ Goto(r, next)
          /\ step[r] = "code"
          /\ Claim(c, i, CodeClaimTtl(r))
          /\ UNCHANGED <<time, codeExp, form>>
      BY <1>5 DEF ClaimCode
    <2>2. /\ next \in {"refused", "recheck", "sign"}
          /\ next = "refused" <=> Live(c, i)
      OBVIOUS
    <2>3. c \in Codes /\ i \in Instances
      BY <1>o, FormType
    <2> HIDE DEF next
    <2>4. \A s \in Requests : step'[s] = IF s = r THEN next ELSE step[s]
      BY <2>1, <1>o DEF Goto, TypeOK
    <2>5. \A s \in Requests : s # r => since'[s] = since[s]
      BY <2>1, <1>o DEF Goto, TypeOK
    <2>6. Begun' /\ Waiting'
      BY <2>1, <2>2, <2>4, <2>5, <1>o DEF Begun, Waiting
    <2>7. CASE Live(c, i)
      <3>1. held' = held
        BY <2>1, <2>7 DEF Claim
      <3>2. (Covered /\ CodeSpentOnce)'
        BY <2>1, <2>2, <2>4, <2>7, <3>1, QuietStep
      <3> QED
        BY <1>t, <2>6, <3>2 DEF SafeInv
    <2>8. CASE ~Live(c, i)
      <3>1. Redeemers(c) = {}
        BY <2>1, <2>3, <2>8, <1>o, StillHeld
      <3>2. HeldLong(c)'
        BY <2>1, <2>8, <1>o, GrantedIsHeldLong
      <3>3. Redeemers(c)' \subseteq {r}
        BY <3>1, <2>1, <2>4 DEF Redeemers
      <3>4. ASSUME NEW d \in Codes, d # c
            PROVE  Redeemers(d)' = Redeemers(d) /\ held'[d] = held[d]
        <4>1. Redeemers(d)' = Redeemers(d)
          BY <3>4, <2>1, <2>4 DEF Redeemers
        <4>2. held'[d] = held[d]
          BY <3>4, <2>1, <2>3, <1>o DEF Claim, TypeOK, Claimable
        <4> QED
          BY <4>1, <4>2
      <3>5. Covered'
        <4> SUFFICES ASSUME NEW d \in Codes, Redeemers(d)' # {}
                     PROVE  HeldLong(d)'
          BY DEF Covered
        <4>1. CASE d = c
          BY <2>1, <3>2, <4>1
        <4>2. CASE d # c
          <5>1. HeldLong(d) /\ held'[d] = held[d]
            BY <3>4, <4>2, <1>o DEF Covered
          <5> QED
            BY <5>1, <2>1 DEF HeldLong
        <4> QED
          BY <4>1, <4>2
      <3>6. CodeSpentOnce'
        <4> SUFFICES ASSUME NEW d \in Codes, NEW p \in Requests, NEW q \in Requests,
                            p \in Redeemers(d)', q \in Redeemers(d)'
                     PROVE  p = q
          BY DEF CodeSpentOnce
        <4>1. CASE d = c
          BY <2>1, <3>3, <4>1
        <4>2. CASE d # c
          BY <3>4, <4>2, <1>o DEF CodeSpentOnce
        <4> QED
          BY <4>1, <4>2
      <3> QED
        BY <1>t, <2>6, <3>5, <3>6 DEF SafeInv
    <2> QED
      BY <2>7, <2>8
  <1>6. ASSUME Tick
        PROVE  SafeInv'
    <2>1. (Covered /\ CodeSpentOnce)'
      BY <1>6, QuietStep DEF Tick
    <2>2. Begun'
      BY <1>6, <1>o DEF Tick, Begun
    <2>3. Waiting'
      BY <1>6, <1>o, TokenAssumption DEF Tick, Waiting, TypeOK, Claiming
    <2> QED
      BY <1>t, <2>1, <2>2, <2>3 DEF SafeInv
  <1>7. ASSUME Administer \/ UNCHANGED vars
        PROVE  SafeInv'
    <2>1. UNCHANGED <<time, codeExp, held, form, step, since>>
      BY <1>7 DEF Administer, vars
    <2>2. (Covered /\ CodeSpentOnce)'
      BY <2>1, QuietStep
    <2>3. Begun' /\ Waiting'
      BY <2>1, <1>o DEF Begun, Waiting
    <2> QED
      BY <1>t, <2>2, <2>3 DEF SafeInv
  <1> QED
    BY <1>1, <1>2, <1>3, <1>4, <1>5, <1>6, <1>7 DEF Next

\* A code is spent at most once: for any number of requests and instances, any
\* clock offsets, either kind of store, and with the store failing at will, as
\* long as the margin of the claim covers what MarginCovers says.
THEOREM SpentOnce == Spec => []CodeSpentOnce
  <1>1. Spec => []SafeInv
    BY SafeInitially, SafeStep, PTL DEF Spec
  <1> QED
    BY <1>1, PTL DEF SafeInv

--------------------------------------------------------------------------------
(* A change of security_version wins over the code *)

\* A version only grows, so one that is the same after the redemption as when the
\* code was minted was the same at the redemption.
VersionInv ==
    /\ \A c \in Codes : minted[c] <= version
    /\ \A r \in Requests : step[r] = "recheck" =>
          minted[form[r].code] <= spentUnder[r] /\ spentUnder[r] <= version
    /\ \A r \in Requests : form[r].code \in LocalCodes /\ step[r] \in {"sign", "tokens"} =>
          spentUnder[r] = minted[form[r].code]

\* Every step keeps VersionInv.
LEMMA VersionStep == SafeInv /\ VersionInv /\ [Next]_vars => VersionInv'
  <1> SUFFICES ASSUME SafeInv, VersionInv, [Next]_vars PROVE VersionInv'
    OBVIOUS
  <1>o. TypeOK /\ Begun
    BY DEF SafeInv, TypeInv
  <1>1. ASSUME NEW i \in Instances, NEW c \in Codes, IssueCode(i, c)
        PROVE  VersionInv'
    <2>1. \A d \in Codes : minted'[d] = IF d = c THEN version ELSE minted[d]
      BY <1>1, <1>o DEF IssueCode, TypeOK
    <2>2. \A r \in Requests : step[r] # "idle" => form[r].code \in Codes /\ form[r].code # c
      BY <1>1, <1>o, FormType DEF IssueCode, Begun
    <2> QED
      BY <1>1, <1>o, <2>1, <2>2 DEF IssueCode, VersionInv, TypeOK
  <1>2. ASSUME NEW r \in Requests,
               Present(r) \/ ClaimAssertion(r) \/ Redeem(r) \/ ClaimFails(r) \/ Sign(r)
        PROVE  VersionInv'
    <2>1. PICK next \in Steps : /\ Goto(r, next)
                                /\ next # "recheck" /\ next # "sign"
                                /\ next = "tokens" => step[r] = "sign"
      BY <1>2 DEF Present, ClaimAssertion, Redeem, ClaimFails, Sign, Steps
    <2>2. UNCHANGED <<form, minted, version, spentUnder>>
      BY <1>2 DEF Present, ClaimAssertion, Redeem, ClaimFails, Sign
    <2>3. \A s \in Requests : step'[s] = IF s = r THEN next ELSE step[s]
      BY <2>1, <1>o DEF Goto, TypeOK
    <2> QED
      BY <2>1, <2>2, <2>3 DEF VersionInv
  <1>3. ASSUME NEW r \in Requests, ClaimCode(r)
        PROVE  VersionInv'
    <2>1. PICK next \in Steps : /\ Goto(r, next)
                                /\ next \in {"refused", "recheck", "sign"}
                                /\ next = "sign" => form[r].code \notin LocalCodes
      BY <1>3 DEF ClaimCode, Steps
    <2>2. UNCHANGED <<form, minted, version>>
      BY <1>3 DEF ClaimCode
    <2>3. \A s \in Requests : step'[s] = IF s = r THEN next ELSE step[s]
      BY <2>1, <1>o DEF Goto, TypeOK
    <2>4. \A s \in Requests : spentUnder'[s] = IF s = r THEN version ELSE spentUnder[s]
      BY <1>3, <1>o DEF ClaimCode, TypeOK
    <2>5. minted[form[r].code] <= version /\ version <= version
      BY <1>o, FormType DEF VersionInv, TypeOK
    <2> QED
      BY <2>1, <2>2, <2>3, <2>4, <2>5 DEF VersionInv
  <1>4. ASSUME NEW r \in Requests, Recheck(r)
        PROVE  VersionInv'
    <2>1. PICK next \in Steps : /\ Goto(r, next)
                                /\ next \in {"refused", "sign"}
                                /\ next = "sign" => minted[form[r].code] = version
      BY <1>4 DEF Recheck, Steps
    <2>2. UNCHANGED <<form, minted, version, spentUnder>> /\ step[r] = "recheck"
      BY <1>4 DEF Recheck
    <2>3. \A s \in Requests : step'[s] = IF s = r THEN next ELSE step[s]
      BY <2>1, <1>o DEF Goto, TypeOK
    <2>4. next = "sign" => spentUnder[r] = minted[form[r].code]
      BY <2>1, <2>2, <1>o, FormType DEF VersionInv, TypeOK
    <2> QED
      BY <2>1, <2>2, <2>3, <2>4 DEF VersionInv
  <1>5. ASSUME Administer
        PROVE  VersionInv'
    <2>1. version <= version' /\ version' \in Nat /\ UNCHANGED <<form, minted, step, spentUnder>>
      BY <1>5, <1>o DEF Administer, TypeOK
    <2> QED
      BY <2>1, <1>o, FormType DEF VersionInv, TypeOK
  <1>6. ASSUME Tick \/ UNCHANGED vars
        PROVE  VersionInv'
    BY <1>6 DEF Tick, vars, VersionInv
  <1> QED
    BY <1>1, <1>2, <1>3, <1>4, <1>5, <1>6 DEF Next

\* Tokens are only ever issued on a code of a local identity whose security_version
\* was still the code's when the code was redeemed.
THEOREM VersionWins == Spec => []VersionChangeWins
  <1>1. Init => VersionInv
    BY DEF Init, VersionInv
  <1>2. VersionInv => VersionChangeWins
    BY DEF VersionInv, VersionChangeWins
  <1> QED
    BY <1>1, <1>2, SafeInitially, SafeStep, VersionStep, PTL DEF Spec

--------------------------------------------------------------------------------
(* Only an entitled request uses a code up *)

\* A request waits for the claim of its code only when the client, the
\* redirect_uri and the code_verifier were the code's.
Entitled == \A r \in Requests : step[r] = "code" => form[r].bound

\* Every step keeps Entitled, and changes the claim on a code only for a request
\* that waits for it.
LEMMA EntitledStep ==
    ASSUME SafeInv, Entitled, [Next]_vars
    PROVE  /\ Entitled'
           /\ \A c \in Codes : held'[c] # held[c] =>
                 \E r \in Requests : form[r].code = c /\ form[r].bound /\ step[r] = "code"
  <1>o. TypeOK /\ AssertionPresented
    BY DEF SafeInv, TypeInv
  <1>1. Entitled'
    <2>1. ASSUME NEW r \in Requests, NEW next \in Steps, Goto(r, next), UNCHANGED form,
                 next = "code" => form[r].bound
          PROVE  Entitled'
      BY <2>1, <1>o DEF Goto, TypeOK, Entitled
    <2>2. ASSUME NEW r \in Requests,
                 \/ Present(r) \/ ClaimAssertion(r) \/ Redeem(r) \/ ClaimCode(r)
                 \/ ClaimFails(r) \/ Recheck(r) \/ Sign(r)
          PROVE  Entitled'
      <3>1. \E next \in Steps : Goto(r, next) /\ (next = "code" => form[r].bound)
        BY <2>2, <1>o, FormType
           DEF Present, ClaimAssertion, Redeem, ClaimCode, ClaimFails, Recheck, Sign, Steps
      <3>2. UNCHANGED form
        BY <2>2 DEF Present, ClaimAssertion, Redeem, ClaimCode, ClaimFails, Recheck, Sign
      <3> QED
        BY <2>1, <3>1, <3>2
    <2>3. CASE UNCHANGED <<form, step>>
      BY <2>3 DEF Entitled
    <2> QED
      BY <2>2, <2>3 DEF Next, IssueCode, Administer, Tick, vars
  <1>2. ASSUME NEW c \in Codes, held'[c] # held[c]
        PROVE  \E r \in Requests : form[r].code = c /\ form[r].bound /\ step[r] = "code"
    <2>1. PICK r \in Requests : ClaimAssertion(r) \/ ClaimCode(r) \/ ClaimFails(r)
      BY <1>2 DEF Next, vars, IssueCode, Present, Redeem, Recheck, Sign, Administer, Tick
    <2>2. step[r] = "code"
      <3>1. CASE step[r] = "assertion"
        <4>1. form[r].assertion # c
          BY <3>1, <1>o, FormType, TokenAssumption DEF AssertionPresented
        <4>2. held'[c] = held[c]
          BY <2>1, <3>1, <4>1, <1>o DEF ClaimAssertion, ClaimCode, ClaimFails, Claim, TypeOK, Claimable
        <4> QED
          BY <1>2, <4>2
      <3> QED
        BY <2>1, <3>1 DEF ClaimAssertion, ClaimCode, ClaimFails
    <2>3. form[r].code = c
      <3> SUFFICES ASSUME form[r].code # c PROVE held'[c] = held[c]
        BY <1>2
      <3> QED
        BY <2>1, <2>2, <1>o DEF ClaimAssertion, ClaimCode, ClaimFails, Claim, TypeOK, Claimable
    <2> QED
      BY <2>2, <2>3 DEF Entitled
  <1> QED
    BY <1>1, <1>2

\* Whoever presents a code with the wrong client, redirect_uri or code_verifier
\* leaves the claim on it alone, whatever else is under way.
THEOREM EntitledSpend == Spec => OnlyEntitledSpend
  <1>1. Init => Entitled
    BY DEF Init, Entitled
  <1>2. SafeInv /\ Entitled /\ [Next]_vars =>
          /\ Entitled'
          /\ [\A c \in Codes : held'[c] # held[c] =>
                \E r \in Requests : form[r].code = c /\ form[r].bound /\ step[r] = "code"]_vars
    BY EntitledStep
  <1> QED
    BY <1>1, <1>2, SafeInitially, SafeStep, PTL DEF Spec, OnlyEntitledSpend

--------------------------------------------------------------------------------
(* An assertion that is still good authenticates once *)

\* When an assertion stops being good.
AssertionEnd(a) == AssertionExp[a] + ClockSkew

\* A store that keeps its claims in seconds holds the claim on an assertion that
\* has authenticated a request until the assertion ends.
AssertionHeld ==
    \A r \in Requests, a \in Assertions :
        Backend = "record" /\ r \in AuthenticatedBy(a) => held[a] >= AssertionEnd(a)

\* No step moves the claim on an assertion to a time before its end, unless it is
\* a Durable Object that keeps it.
LEMMA AssertionClaimReaches ==
    ASSUME SafeInv, [Next]_vars, Backend = "record", NEW a \in Assertions
    PROVE  held'[a] = held[a] \/ held'[a] >= AssertionEnd(a)
  <1> SUFFICES ASSUME held'[a] # held[a] PROVE held'[a] >= AssertionEnd(a)
    OBVIOUS
  <1>o. TypeOK
    BY DEF SafeInv, TypeInv
  <1>1. PICK r \in Requests : ClaimAssertion(r) \/ ClaimCode(r) \/ ClaimFails(r)
    BY DEF Next, vars, IssueCode, Present, Redeem, Recheck, Sign, Administer, Tick
  <1>2. step[r] = "assertion"
    <2> SUFFICES ASSUME step[r] = "code" PROVE FALSE
      BY <1>1 DEF ClaimAssertion, ClaimCode, ClaimFails
    <2>1. form[r].code # a
      BY <1>o, FormType, TokenAssumption
    <2> QED
      BY <1>1, <2>1, <1>o DEF ClaimAssertion, ClaimCode, ClaimFails, Claim, TypeOK, Claimable
  <1>3. held' = held \/ Claim(form[r].assertion, form[r].at, AssertionTtl(r))
    BY <1>1, <1>2 DEF ClaimAssertion, ClaimCode, ClaimFails
  <1>4. form[r].assertion = a
    <2> SUFFICES ASSUME form[r].assertion # a PROVE FALSE
      OBVIOUS
    <2> QED
      BY <1>3, <1>o DEF Claim, TypeOK, Claimable
  <1>5. held'[a] = Deadline(form[r].at, Less(AssertionEnd(a), Clock(form[r].at)))
    BY <1>3, <1>4, <1>o DEF Claim, TypeOK, Claimable, AssertionTtl, AssertionEnd
  <1>6. AssertionEnd(a) \in Nat /\ form[r].at \in Instances
    BY <1>o, FormType, TokenAssumption DEF AssertionEnd
  <1> QED
    BY <1>5, <1>6, <1>o, DeadlineReaches

\* Every step keeps AssertionHeld.
LEMMA AssertionStep == SafeInv /\ AssertionHeld /\ [Next]_vars => AssertionHeld'
  <1> SUFFICES ASSUME SafeInv, AssertionHeld, [Next]_vars, Backend = "record",
                      NEW s \in Requests, NEW a \in Assertions, (s \in AuthenticatedBy(a))'
               PROVE  held'[a] >= AssertionEnd(a)
    BY DEF AssertionHeld, AssertionEnd
  <1>o. TypeOK
    BY DEF SafeInv, TypeInv
  <1>1. form' = form /\ form[s].assertion = a /\ a # NoAssertion
    BY TokenAssumption DEF Next, vars, IssueCode, Present, ClaimAssertion, Redeem, ClaimCode,
          ClaimFails, Recheck, Sign, Administer, Tick, AuthenticatedBy
  <1>2. CASE s \in AuthenticatedBy(a)
    BY <1>2, AssertionClaimReaches DEF AssertionHeld
  <1>3. CASE s \notin AuthenticatedBy(a)
    <2>1. step[s] \notin {"redeem", "code", "recheck", "sign", "tokens"}
          /\ step'[s] \in {"redeem", "code", "recheck", "sign", "tokens"}
      BY <1>1, <1>3 DEF AuthenticatedBy
    <2>2. PICK r \in Requests :
             \/ Present(r) \/ ClaimAssertion(r) \/ Redeem(r) \/ ClaimCode(r)
             \/ ClaimFails(r) \/ Recheck(r) \/ Sign(r)
      BY <2>1 DEF Next, vars, IssueCode, Administer, Tick
    <2>3. r = s
      BY <2>1, <2>2, <1>o DEF Present, ClaimAssertion, Redeem, ClaimCode, ClaimFails, Recheck,
            Sign, Goto, TypeOK
    <2>4. ClaimAssertion(s)
      BY <2>1, <2>2, <2>3, <1>o, <1>1
         DEF Present, Redeem, ClaimCode, ClaimFails, Recheck, Sign, Goto, TypeOK
    <2>5. ~Live(a, form[s].at)
      BY <2>1, <2>4, <1>o, <1>1 DEF ClaimAssertion, Goto, TypeOK
    <2>6. held'[a] = Deadline(form[s].at, Less(AssertionEnd(a), Clock(form[s].at)))
      BY <2>4, <2>5, <1>1, <1>o DEF ClaimAssertion, Claim, TypeOK, Claimable, AssertionTtl, AssertionEnd
    <2>7. AssertionEnd(a) \in Nat /\ form[s].at \in Instances
      BY <1>o, FormType, TokenAssumption DEF AssertionEnd
    <2> QED
      BY <2>6, <2>7, <1>o, DeadlineReaches
  <1> QED
    BY <1>2, <1>3

\* With a store that keeps its claims in seconds, an assertion that is still good
\* when it is claimed and has authenticated a request before is refused.
THEOREM GoodAssertionOnce ==
    ASSUME Backend = "record"
    PROVE  Spec => GoodAssertionSpentOnce
  <1>1. Init => AssertionHeld
    BY DEF Init, AssertionHeld, AuthenticatedBy
  <1>2. SafeInv /\ AssertionHeld /\ [Next]_vars =>
          [\A r \in Requests :
             LET a == form[r].assertion
             IN  step[r] = "assertion" /\ step'[r] = "redeem" /\ AssertionValid(a, form[r].at)
                   => AuthenticatedBy(a) = {}]_vars
    <2> SUFFICES ASSUME SafeInv, AssertionHeld, [Next]_vars, NEW r \in Requests,
                        step[r] = "assertion", step'[r] = "redeem",
                        AssertionValid(form[r].assertion, form[r].at),
                        NEW s \in Requests, s \in AuthenticatedBy(form[r].assertion)
                 PROVE  FALSE
      BY DEF AuthenticatedBy
    <2>o. TypeOK /\ AssertionPresented
      BY DEF SafeInv, TypeInv
    <2>1. form[r].assertion \in Assertions /\ form[r].at \in Instances
      BY <2>o, FormType DEF AssertionPresented
    <2>2. held[form[r].assertion] >= AssertionEnd(form[r].assertion)
      BY <2>1 DEF AssertionHeld
    <2>3. Live(form[r].assertion, form[r].at)
      <3>1. /\ held[form[r].assertion] \in Nat
            /\ AssertionEnd(form[r].assertion) \in Nat
            /\ Clock(form[r].at) \in Nat
        BY <2>1, <2>o, ClockBounds, TokenAssumption DEF TypeOK, Claimable, AssertionEnd
      <3> QED
        BY <2>1, <2>2, <3>1 DEF Live, AssertionValid, AssertionEnd
    <2>4. PICK q \in Requests :
             \/ Present(q) \/ ClaimAssertion(q) \/ Redeem(q) \/ ClaimCode(q)
             \/ ClaimFails(q) \/ Recheck(q) \/ Sign(q)
      BY DEF Next, vars, IssueCode, Administer, Tick
    <2>5. q = r
      BY <2>4, <2>o DEF Present, ClaimAssertion, Redeem, ClaimCode, ClaimFails, Recheck,
            Sign, Goto, TypeOK
    <2> QED
      BY <2>3, <2>4, <2>5, <2>o DEF Present, ClaimAssertion, Redeem, ClaimCode, ClaimFails,
            Recheck, Sign, Goto, TypeOK
  <1> QED
    BY <1>1, <1>2, SafeInitially, SafeStep, AssertionStep, PTL DEF Spec, GoodAssertionSpentOnce
================================================================================
