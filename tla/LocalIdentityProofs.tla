-------------------------- MODULE LocalIdentityProofs --------------------------
(***************************************************************************)
(* Proofs about the two models of adapters/node/local-identities.js:        *)
(* LocalIdentity, for any backup codes, tokens and requests, any skew and   *)
(* any number of crashes, and Argon2Queue, for any operations, limit and    *)
(* length of the queue.  That the lock is served and that a wait ends is    *)
(* checked by TLC only.                                                    *)
(***************************************************************************)
EXTENDS LocalIdentity, Argon2Queue, SequenceTheorems, FiniteSetTheorems, TLAPS

Used(record, f) == f \notin record.backups /\ (f \in Steps => f <= record.lastUsedStep)

\* What was read is the record, or an earlier revision of it.
Older(record) ==
    /\ record.revision <= file.revision
    /\ record.revision = file.revision => record = file

\* The next record was made from the one read, and a factor used up on the way.
Made(j) ==
    /\ j.next.revision = j.read.revision + 1
    /\ j.next.backups \subseteq j.read.backups
    /\ j.read.lastUsedStep <= j.next.lastUsedStep
    /\ j.kind = "factor" => j.code \in Factors /\ ~Used(j.read, j.code) /\ Used(j.next, j.code)

\* How many sign-ins beyond the first crashes may have given away for one factor.
Allowance == IF flushes THEN 0 ELSE takenBack

\* What has been accepted beyond the allowance is used up in the record.
Spent ==
    \A f \in Factors :
        /\ accepted[f] <= 1 + Allowance
        /\ accepted[f] > Allowance => Used(file, f)

\* A request that is past the lock holds it, and what it read is still there.
JobInv(r) ==
    /\ job[r].phase = "idle" => job[r] = NoJob
    /\ job[r].phase = "verify" => job[r].kind = "factor"
    /\ job[r].phase \in {"store", "relink"} => job[r].kind = "refresh"
    /\ job[r].phase \in {"verify", "store", "lock"} => Older(job[r].read)
    /\ job[r].phase \in {"lock", "write"} => Made(job[r])
    /\ job[r].phase = "write" => Holds(r) /\ job[r].read = file
    /\ job[r].phase = "sync" =>
          /\ Holds(r)
          /\ job[r].kind = "factor" =>
                /\ job[r].code \in Factors /\ Used(file, job[r].code)
                /\ accepted[job[r].code] <= Allowance

\* What is durable is behind the file, never ahead of it.
Behind == file.backups \subseteq durable.backups /\ durable.lastUsedStep <= file.lastUsedStep

IInv == TypeOK /\ (\A r \in Requests : JobInv(r)) /\ Behind /\ Spent /\ AcceptedIsDurable

\* The fields of a record.
LEMMA RecordFields ==
    ASSUME NEW x \in Records
    PROVE  /\ x.revision \in Nat /\ x.backups \in SUBSET BackupCodes
           /\ x.lastUsedStep \in 0..MaxStep /\ x.token \in Tokens \cup {NoToken}
  BY DEF Records

\* The fields of a request's state.
LEMMA JobFields ==
    ASSUME NEW j \in Jobs
    PROVE  /\ j.phase \in Phases /\ j.kind \in {"factor", "refresh"}
           /\ j.code \in Factors \cup {NoCode} /\ j.token \in Tokens \cup {NoToken}
           /\ j.retried \in BOOLEAN /\ j.read \in Records /\ j.next \in Records
  BY DEF Jobs

\* Before anything has happened nothing is spent.
LEMMA Initially == Init => IInv
  <1> SUFFICES ASSUME Init PROVE IInv
    OBVIOUS
  <1>1. FirstRecord \in Records
    BY IdentityAssumption DEF FirstRecord, Records, Steps
  <1>2. NoJob \in Jobs
    BY <1>1 DEF NoJob, Jobs, Phases
  <1>3. TypeOK
    BY <1>1, <1>2, IdentityAssumption DEF Init, TypeOK, Steps
  <1>4. \A r \in Requests : JobInv(r)
    BY DEF Init, JobInv, NoJob
  <1>5. Behind
    BY <1>1, RecordFields DEF Init, Behind
  <1>6. Spent /\ AcceptedIsDurable
    BY DEF Init, Spent, Allowance, AcceptedIsDurable
  <1> QED
    BY <1>3, <1>4, <1>5, <1>6 DEF IInv

\* Nothing of a request that has been answered is left but the answer.
LEMMA AnsweredIsJob ==
    ASSUME NEW phase \in {"accepted", "refused"}
    PROVE  Answered(phase) \in Jobs /\ Answered(phase).phase = phase
  <1>1. FirstRecord \in Records
    BY IdentityAssumption DEF FirstRecord, Records, Steps
  <1> QED
    BY <1>1 DEF Answered, NoJob, Jobs, Phases

\* What crashes may have given away is a number.
LEMMA AllowanceIsNat ==
    ASSUME TypeOK
    PROVE  Allowance \in Nat
  BY DEF TypeOK, Allowance

\* Only one request can be at the head of the chain.
LEMMA OneHolder ==
    ASSUME NEW q, NEW r, Holds(q), Holds(r)
    PROVE  q = r
  BY DEF Holds

\* Whoever heads the chain still does when another joins it.
LEMMA HoldsOn ==
    ASSUME NEW q \in Requests, NEW r \in Requests, chain \in Seq(Requests), Holds(q),
           chain' = Append(chain, r)
    PROVE  Holds(q)'
  BY DEF Holds

\* A request that is not involved in a step keeps its invariant.
LEMMA Bystander ==
    ASSUME NEW q \in Requests, JobInv(q), job'[q] = job[q], file' = file, disk' = disk,
           accepted' = accepted \/ job[q].phase # "sync",
           job[q].phase \in {"write", "sync"} => Holds(q)'
    PROVE  JobInv(q)'
  BY DEF JobInv, Older, Made, Used, Allowance, disk

\* What is written differs from the mutation in its revision only.
LEMMA RevisedFields ==
    ASSUME NEW x \in Records
    PROVE  /\ Revised(x) \in Records
           /\ Revised(x).revision = x.revision + 1
           /\ Revised(x).backups = x.backups
           /\ Revised(x).lastUsedStep = x.lastUsedStep
  BY DEF Revised, Records

\* A factor that matches is not used up, and using it up uses it up.
LEMMA UsedUpUses ==
    ASSUME NEW x \in Records, NEW c \in Factors \cup {NoCode}, FactorMatches(x, c)
    PROVE  /\ c \in Factors /\ ~Used(x, c) /\ Used(UsedUp(x, c), c) /\ UsedUp(x, c) \in Records
           /\ UsedUp(x, c).revision = x.revision + 1
           /\ UsedUp(x, c).backups \subseteq x.backups
           /\ x.lastUsedStep <= UsedUp(x, c).lastUsedStep
  <1>1. x.backups \subseteq BackupCodes /\ x.lastUsedStep \in 0..MaxStep /\ x.revision \in Nat
    BY RecordFields
  <1>2. c \in Factors
    BY <1>1 DEF FactorMatches, TotpMatches, Factors
  <1>3. CASE c \in BackupCodes
    <2>1. c \notin Steps
      BY <1>3, IdentityAssumption
    <2>2. c \in x.backups
      BY <2>1 DEF FactorMatches, TotpMatches
    <2> DEFINE y == [x EXCEPT !.backups = @ \ {c}]
    <2>3. y \in Records /\ y.backups = x.backups \ {c} /\ y.revision = x.revision
          /\ y.lastUsedStep = x.lastUsedStep
      BY DEF Records
    <2>4. UsedUp(x, c) = Revised(y)
      BY <1>3 DEF UsedUp
    <2> HIDE DEF y
    <2>5. /\ UsedUp(x, c).backups = x.backups \ {c} /\ UsedUp(x, c).revision = x.revision + 1
          /\ UsedUp(x, c).lastUsedStep = x.lastUsedStep /\ UsedUp(x, c) \in Records
      BY <2>3, <2>4, RevisedFields
    <2>6. ~Used(x, c) /\ Used(UsedUp(x, c), c)
      BY <2>1, <2>2, <2>5 DEF Used
    <2> QED
      BY <1>1, <1>2, <2>5, <2>6
  <1>4. CASE c \notin BackupCodes
    <2>1. c \in Steps /\ c > x.lastUsedStep
      BY <1>1, <1>4 DEF FactorMatches, TotpMatches
    <2>3. c \in 0..MaxStep /\ c \in Int
      BY <2>1, IdentityAssumption DEF Steps
    <2>4. x.backups \subseteq BackupCodes /\ c \notin x.backups
      BY <1>1, <1>4
    <2> DEFINE y == [x EXCEPT !.lastUsedStep = c]
    <2>2. y \in Records /\ y.backups = x.backups /\ y.revision = x.revision /\ y.lastUsedStep = c
      BY <2>3 DEF Records
    <2>5. UsedUp(x, c) = Revised(y)
      BY <1>4 DEF UsedUp
    <2> HIDE DEF y
    <2>6. /\ UsedUp(x, c).backups = x.backups /\ UsedUp(x, c).revision = x.revision + 1
          /\ UsedUp(x, c).lastUsedStep = c /\ UsedUp(x, c) \in Records
      BY <2>2, <2>5, RevisedFields
    <2>7. ~Used(x, c) /\ Used(UsedUp(x, c), c)
      BY <1>1, <2>1, <2>3, <2>4, <2>6 DEF Used
    <2> QED
      BY <1>1, <1>2, <2>1, <2>3, <2>6, <2>7
  <1> QED
    BY <1>3, <1>4

\* A request reads the record, or reads it again.
LEMMA FindStep ==
    ASSUME IInv, NEW r \in Requests,
           \/ \E code \in Factors : FindForFactor(r, code)
           \/ \E token \in Tokens : FindForRefresh(r, token)
           \/ FindAgain(r)
    PROVE  IInv'
  <1>1. /\ job \in [Requests -> Jobs] /\ file \in Records
        /\ job[r] \in Jobs /\ JobInv(r)
    BY DEF IInv, TypeOK
  <1>2. /\ UNCHANGED <<step, file, durable, chain, crashes, disk, accepted>>
        /\ \E j \in Jobs : /\ job' = [job EXCEPT ![r] = j] /\ j.read = file
                           /\ \/ j.phase = "verify" /\ j.kind = "factor"
                              \/ j.phase = "store" /\ j.kind = "refresh"
    <2>1. ASSUME NEW code \in Factors, FindForFactor(r, code)
          PROVE  <1>2!2
      <3>1. job[r].kind = "factor"
        <4>1. job[r] = NoJob
          BY <1>1, <2>1 DEF FindForFactor, JobInv
        <4> QED
          BY <4>1 DEF NoJob
      <3> DEFINE j == [job[r] EXCEPT !.phase = "verify", !.code = code, !.read = file]
      <3>2. j \in Jobs /\ j.read = file /\ j.phase = "verify" /\ j.kind = "factor"
        BY <1>1, <3>1 DEF Jobs, Phases
      <3> QED
        BY <2>1, <3>2 DEF FindForFactor
    <2>2. ASSUME NEW token \in Tokens, FindForRefresh(r, token)
          PROVE  <1>2!2
      <3> DEFINE j == [job[r] EXCEPT !.phase = "store", !.kind = "refresh", !.token = token, !.read = file]
      <3>2. j \in Jobs /\ j.read = file /\ j.phase = "store" /\ j.kind = "refresh"
        BY <1>1 DEF Jobs, Phases
      <3> QED
        BY <2>2, <3>2 DEF FindForRefresh
    <2>3. ASSUME FindAgain(r)
          PROVE  <1>2!2
      <3> DEFINE j == [job[r] EXCEPT !.phase = "store", !.read = file]
      <3>1. job[r].kind = "refresh"
        BY <1>1, <2>3 DEF FindAgain, JobInv
      <3>2. j \in Jobs /\ j.read = file /\ j.phase = "store" /\ j.kind = "refresh"
        BY <1>1, <3>1 DEF Jobs, Phases
      <3>3. job' = [job EXCEPT ![r] = j]
        BY <1>1, <2>3 DEF FindAgain
      <3> QED
        BY <3>2, <3>3
    <2> QED
      BY <2>1, <2>2, <2>3 DEF FindForFactor, FindForRefresh, FindAgain
  <1>3. PICK j \in Jobs : /\ job' = [job EXCEPT ![r] = j] /\ j.read = file
                          /\ \/ j.phase = "verify" /\ j.kind = "factor"
                             \/ j.phase = "store" /\ j.kind = "refresh"
    BY <1>2
  <1>4. TypeOK'
    BY <1>1, <1>2, <1>3 DEF IInv, TypeOK, disk
  <1>5. JobInv(r)'
    BY <1>1, <1>2, <1>3, RecordFields DEF JobInv, Older
  <1>6. ASSUME NEW q \in Requests, q # r
        PROVE  JobInv(q)'
    <2>1. JobInv(q) /\ job'[q] = job[q]
      BY <1>1, <1>3, <1>6 DEF IInv
    <2>2. job[q].phase \in {"write", "sync"} => Holds(q)'
      BY <1>2, <2>1 DEF JobInv, Holds
    <2> QED
      BY <1>2, <2>1, <2>2, Bystander
  <1>7. Behind' /\ Spent' /\ AcceptedIsDurable'
    BY <1>2 DEF IInv, Behind, Spent, Allowance, Used, disk, AcceptedIsDurable
  <1> QED
    BY <1>4, <1>5, <1>6, <1>7 DEF IInv

\* The next record is on its way to the lock, or the factor is refused.
LEMMA EnqueueStep ==
    ASSUME IInv, NEW r \in Requests, VerifySecondFactor(r) \/ StoreRefreshToken(r)
    PROVE  IInv'
  <1> DEFINE Refuses == job' = [job EXCEPT ![r] = Answered("refused")] /\ UNCHANGED chain
             Joins(next) == /\ next \in Records /\ chain' = Append(chain, r)
                            /\ job' = [job EXCEPT ![r].phase = "lock", ![r].next = next]
                            /\ Older(job[r].read)
                            /\ Made([job[r] EXCEPT !.phase = "lock", !.next = next])
  <1>1. /\ job \in [Requests -> Jobs] /\ file \in Records /\ chain \in Seq(Requests)
        /\ job[r] \in Jobs /\ JobInv(r)
        /\ UNCHANGED <<step, file, durable, crashes, disk, accepted>>
    BY DEF IInv, TypeOK, VerifySecondFactor, StoreRefreshToken
  <1>r. job[r].read \in Records /\ job[r].code \in Factors \cup {NoCode}
        /\ job[r].token \in Tokens \cup {NoToken} /\ job[r].kind \in {"factor", "refresh"}
    BY <1>1, JobFields
  <1>2. Refuses \/ \E next : Joins(next)
    <2>1. ASSUME VerifySecondFactor(r), FactorMatches(job[r].read, job[r].code)
          PROVE  Joins(UsedUp(job[r].read, job[r].code))
      <3> DEFINE next == UsedUp(job[r].read, job[r].code)
      <3>1. /\ chain' = Append(chain, r) /\ Older(job[r].read)
            /\ job' = [job EXCEPT ![r].phase = "lock", ![r].next = next]
        BY <1>1, <2>1 DEF VerifySecondFactor, Enqueue, JobInv
      <3>2. /\ job[r].code \in Factors /\ ~Used(job[r].read, job[r].code) /\ next \in Records
            /\ Used(next, job[r].code) /\ next.revision = job[r].read.revision + 1
            /\ next.backups \subseteq job[r].read.backups
            /\ job[r].read.lastUsedStep <= next.lastUsedStep
        BY <1>r, <2>1, UsedUpUses
      <3> HIDE DEF next
      <3> DEFINE j == [job[r] EXCEPT !.phase = "lock", !.next = next]
      <3>3. j.next = next /\ j.read = job[r].read /\ j.code = job[r].code /\ j.kind = job[r].kind
        BY <1>1 DEF Jobs
      <3>4. Made(j)
        <4> HIDE DEF j
        <4> QED
          BY <3>2, <3>3 DEF Made
      <3> QED
        BY <3>1, <3>2, <3>4 DEF next
    <2>2. ASSUME VerifySecondFactor(r), ~FactorMatches(job[r].read, job[r].code)
          PROVE  Refuses
      BY <2>2 DEF VerifySecondFactor
    <2>3. ASSUME StoreRefreshToken(r)
          PROVE  \E next : Joins(next)
      <3> DEFINE kept == [job[r].read EXCEPT !.token = job[r].token]
                 next == Revised(kept)
      <3>1. /\ chain' = Append(chain, r) /\ Older(job[r].read)
            /\ job' = [job EXCEPT ![r].phase = "lock", ![r].next = next]
            /\ job[r].kind = "refresh"
        BY <1>1, <2>3 DEF StoreRefreshToken, Enqueue, JobInv
      <3>2. kept \in Records /\ kept.backups = job[r].read.backups
            /\ kept.lastUsedStep = job[r].read.lastUsedStep /\ kept.revision = job[r].read.revision
        BY <1>r DEF Records
      <3> HIDE DEF kept
      <3>3. next \in Records /\ next.revision = job[r].read.revision + 1
            /\ next.backups = job[r].read.backups /\ next.lastUsedStep = job[r].read.lastUsedStep
        BY <3>2, RevisedFields
      <3> HIDE DEF next
      <3> DEFINE j == [job[r] EXCEPT !.phase = "lock", !.next = next]
      <3>4. j.next = next /\ j.read = job[r].read /\ j.kind = "refresh"
        BY <1>1, <3>1 DEF Jobs
      <3>5. Made(j)
        <4>1. job[r].read.lastUsedStep \in Int
          BY <1>r, RecordFields
        <4> HIDE DEF j
        <4> QED
          BY <3>3, <3>4, <4>1 DEF Made
      <3>6. Joins(next)
        BY <3>1, <3>3, <3>5
      <3> QED
        BY <3>6
    <2> QED
      BY <2>1, <2>2, <2>3
  <1>3. ASSUME NEW q \in Requests, q # r
        PROVE  JobInv(q)'
    <2>1. JobInv(q) /\ job'[q] = job[q]
      BY <1>1, <1>2, <1>3 DEF IInv
    <2>2. job[q].phase \in {"write", "sync"} => Holds(q)'
      BY <1>1, <1>2, <2>1, HoldsOn DEF JobInv, Holds
    <2> QED
      BY <1>1, <2>1, <2>2, Bystander
  <1>4. Behind' /\ Spent' /\ AcceptedIsDurable'
    BY <1>1 DEF IInv, Behind, Spent, Allowance, Used, disk, AcceptedIsDurable
  <1>5. CASE Refuses
    <2>1. TypeOK'
      BY <1>1, <1>5, AnsweredIsJob DEF IInv, TypeOK, disk
    <2>2. JobInv(r)'
      BY <1>1, <1>5, AnsweredIsJob DEF JobInv
    <2> QED
      BY <1>3, <1>4, <2>1, <2>2 DEF IInv
  <1>6. CASE \E next : Joins(next)
    <2>1. PICK next : Joins(next)
      BY <1>6
    <2>2. \E j \in Jobs : /\ job' = [job EXCEPT ![r] = j] /\ j.phase = "lock"
                          /\ Made(j) /\ Older(j.read)
      <3> DEFINE j == [job[r] EXCEPT !.phase = "lock", !.next = next]
      <3>1. j \in Jobs /\ job' = [job EXCEPT ![r] = j] /\ j.phase = "lock" /\ j.read = job[r].read
        BY <1>1, <2>1 DEF Jobs, Phases
      <3>2. Made(j) /\ Older(j.read)
        BY <2>1, <3>1
      <3> QED
        BY <3>1, <3>2
    <2>3. PICK j \in Jobs : /\ job' = [job EXCEPT ![r] = j] /\ j.phase = "lock"
                            /\ Made(j) /\ Older(j.read)
      BY <2>2
    <2>4. chain' \in Seq(Requests)
      BY <1>1, <2>1
    <2>5. TypeOK'
      BY <1>1, <2>3, <2>4 DEF IInv, TypeOK, disk
    <2>6. job'[r] = j /\ Made(job'[r]) /\ Older(j.read)'
      BY <1>1, <2>3 DEF Older
    <2>7. JobInv(r)'
      BY <2>3, <2>6 DEF JobInv, Made, Used
    <2> QED
      BY <1>3, <1>4, <2>5, <2>7 DEF IInv
  <1> QED
    BY <1>2, <1>5, <1>6

\* The lock is passed on by the one who holds it, and nothing is written.
LEMMA ReleaseStep ==
    ASSUME IInv, NEW r \in Requests, Holds(r), chain' = Tail(chain),
           NEW j \in Jobs, job' = [job EXCEPT ![r] = j],
           j.phase = "refused" \/ (j.phase = "relink" /\ j.kind = "refresh"),
           UNCHANGED <<step, file, durable, crashes, disk, accepted>>
    PROVE  IInv'
  <1>1. /\ job \in [Requests -> Jobs] /\ chain \in Seq(Requests) /\ chain # <<>>
        /\ job[r] \in Jobs
    BY DEF IInv, TypeOK, Holds
  <1>2. chain' \in Seq(Requests)
    BY <1>1
  <1>3. TypeOK'
    BY <1>1, <1>2 DEF IInv, TypeOK, disk
  <1>4. JobInv(r)'
    BY <1>1 DEF JobInv
  <1>5. ASSUME NEW q \in Requests, q # r
        PROVE  JobInv(q)'
    <2>1. JobInv(q) /\ job'[q] = job[q]
      BY <1>1, <1>5 DEF IInv
    <2>2. job[q].phase \notin {"write", "sync"}
      BY <1>5, <2>1, OneHolder DEF JobInv
    <2> QED
      BY <2>1, <2>2, Bystander
  <1>6. Behind' /\ Spent' /\ AcceptedIsDurable'
    BY DEF IInv, Behind, Spent, Allowance, Used, disk, AcceptedIsDurable
  <1> QED
    BY <1>3, <1>4, <1>5, <1>6 DEF IInv

\* What the holder of the lock compares is the record itself.
LEMMA CompareStep ==
    ASSUME IInv, NEW r \in Requests, Compare(r)
    PROVE  IInv'
  <1>1. /\ job \in [Requests -> Jobs] /\ job[r] \in Jobs /\ JobInv(r) /\ job[r].phase = "lock" /\ Holds(r)
        /\ UNCHANGED <<step, file, durable, crashes, disk, accepted>>
    BY DEF IInv, TypeOK, Compare
  <1>2. CASE file.revision = job[r].read.revision
    <2>1. job' = [job EXCEPT ![r].phase = "write"] /\ chain' = chain
      BY <1>2 DEF Compare
    <2>2. TypeOK'
      BY <1>1, <2>1 DEF IInv, TypeOK, Jobs, Phases, disk
    <2>3. Made(job[r]) /\ job[r].read = file
      BY <1>1, <1>2 DEF JobInv, Older
    <2>4. /\ job'[r].phase = "write" /\ job'[r].read = job[r].read /\ job'[r].next = job[r].next
          /\ job'[r].kind = job[r].kind /\ job'[r].code = job[r].code
      BY <1>1, <2>1 DEF Jobs
    <2>5. JobInv(r)'
      BY <1>1, <2>1, <2>3, <2>4 DEF JobInv, Made, Used, Holds
    <2>6. ASSUME NEW q \in Requests, q # r
          PROVE  JobInv(q)'
      <3>1. JobInv(q) /\ job'[q] = job[q]
        BY <1>1, <2>1, <2>6 DEF IInv
      <3>2. job[q].phase \in {"write", "sync"} => Holds(q)'
        BY <2>1, <3>1 DEF JobInv, Holds
      <3> QED
        BY <1>1, <3>1, <3>2, Bystander
    <2>7. Behind' /\ Spent' /\ AcceptedIsDurable'
      BY <1>1 DEF IInv, Behind, Spent, Allowance, Used, disk, AcceptedIsDurable
    <2> QED
      BY <2>2, <2>5, <2>6, <2>7 DEF IInv
  <1>3. CASE file.revision # job[r].read.revision
    <2>1. Mismatch(r) /\ chain' = Tail(chain)
      BY <1>3 DEF Compare
    <2>2. \E j \in Jobs :
             /\ job' = [job EXCEPT ![r] = j]
             /\ j.phase = "refused" \/ (j.phase = "relink" /\ j.kind = "refresh")
      <3>1. CASE job[r].kind = "refresh" /\ ~job[r].retried
        <4> DEFINE j == [job[r] EXCEPT !.phase = "relink", !.retried = TRUE]
        <4>1. j \in Jobs /\ j.phase = "relink" /\ j.kind = "refresh"
          BY <1>1, <3>1 DEF Jobs, Phases
        <4>2. job' = [job EXCEPT ![r] = j]
          BY <1>1, <2>1, <3>1 DEF Mismatch
        <4> QED
          BY <4>1, <4>2
      <3>2. CASE ~(job[r].kind = "refresh" /\ ~job[r].retried)
        BY <2>1, <3>2, AnsweredIsJob DEF Mismatch
      <3> QED
        BY <3>1, <3>2
    <2> QED
      BY <1>1, <2>1, <2>2, ReleaseStep
  <1> QED
    BY <1>2, <1>3

\* A write that fails changes nothing but the request.
LEMMA WriteFailsStep ==
    ASSUME IInv, NEW r \in Requests, WriteFails(r)
    PROVE  IInv'
  <1>1. job \in [Requests -> Jobs] /\ job[r] \in Jobs /\ JobInv(r)
    BY DEF IInv, TypeOK
  <1>2. Holds(r) /\ chain' = Tail(chain) /\ UNCHANGED <<step, file, durable, crashes, disk, accepted>>
    BY <1>1 DEF WriteFails, JobInv
  <1>3. job' = [job EXCEPT ![r] = Answered("refused")]
    BY DEF WriteFails
  <1> QED
    BY <1>2, <1>3, AnsweredIsJob, ReleaseStep

\* The record is replaced by one made from it, and nobody else is about to write.
LEMMA RenameStep ==
    ASSUME IInv, NEW r \in Requests, Rename(r)
    PROVE  IInv'
  <1>1. /\ job \in [Requests -> Jobs] /\ job[r] \in Jobs /\ JobInv(r) /\ file \in Records /\ durable \in Records
        /\ job[r].phase = "write" /\ file' = job[r].next
        /\ job' = [job EXCEPT ![r].phase = "sync"]
        /\ UNCHANGED <<step, durable, chain, crashes, disk, accepted>>
    BY DEF IInv, TypeOK, Rename
  <1>2. Holds(r) /\ job[r].read = file /\ Made(job[r]) /\ file' \in Records
    BY <1>1, JobFields DEF JobInv
  <1>3. /\ file'.revision = file.revision + 1 /\ file'.backups \subseteq file.backups
        /\ file.lastUsedStep <= file'.lastUsedStep
    BY <1>1, <1>2 DEF Made
  <1>4. TypeOK'
    BY <1>1, <1>2 DEF IInv, TypeOK, Jobs, Phases, disk
  <1>5. /\ durable.lastUsedStep \in Int /\ file.lastUsedStep \in Int /\ file'.lastUsedStep \in Int
        /\ file.revision \in Nat
    BY <1>1, <1>2, RecordFields
  <1>6. Behind'
    BY <1>1, <1>3, <1>5 DEF IInv, Behind
  <1>7. Spent' /\ AcceptedIsDurable'
    <2>1. ASSUME NEW f \in Factors, Used(file, f)
          PROVE  Used(file', f)
      BY <1>3, <1>5, <2>1, IdentityAssumption DEF Used, Steps
    <2>2. Spent' /\ AcceptedIsDurable'
      BY <1>1, <2>1 DEF IInv, Spent, Allowance, disk, AcceptedIsDurable
    <2> QED
      BY <2>2
  <1>8. JobInv(r)'
    <2>1. /\ job'[r].phase = "sync" /\ job'[r].kind = job[r].kind /\ job'[r].code = job[r].code
      BY <1>1 DEF Jobs
    <2>2. Holds(r)'
      BY <1>1, <1>2 DEF Holds
    <2>3. ASSUME job[r].kind = "factor"
          PROVE  /\ job[r].code \in Factors /\ accepted'[job[r].code] <= Allowance'
                 /\ Used(file', job[r].code)
      <3>1. job[r].code \in Factors /\ ~Used(file, job[r].code) /\ Used(file', job[r].code)
        BY <1>1, <1>2, <2>3 DEF Made
      <3>2. ~(accepted[job[r].code] > Allowance)
        BY <3>1 DEF IInv, Spent
      <3>3. accepted[job[r].code] \in Nat /\ Allowance \in Nat
        BY <3>1, AllowanceIsNat DEF IInv, TypeOK
      <3>4. accepted[job[r].code] <= Allowance
        BY <3>2, <3>3
      <3>5. Allowance' = Allowance
        BY <1>1 DEF Allowance, disk
      <3> QED
        BY <1>1, <3>1, <3>4, <3>5
    <2> QED
      BY <2>1, <2>2, <2>3 DEF JobInv, Used
  <1>9. ASSUME NEW q \in Requests, q # r
        PROVE  JobInv(q)'
    <2>1. JobInv(q) /\ job'[q] = job[q] /\ job[q] \in Jobs
      BY <1>1, <1>9 DEF IInv
    <2>2. job[q].phase \notin {"write", "sync"}
      BY <1>2, <1>9, <2>1, OneHolder DEF JobInv
    <2>3. job[q].read.revision \in Nat
      BY <2>1, JobFields, RecordFields
    <2>4. Older(job[q].read) => job[q].read.revision < file'.revision
      BY <1>3, <1>5, <2>3 DEF Older
    <2>5. Older(job[q].read) => Older(job[q].read)'
      BY <2>1, <2>3, <2>4, <1>3, <1>5 DEF Older
    <2> QED
      BY <2>1, <2>2, <2>5 DEF JobInv, Made, Used
  <1> QED
    BY <1>4, <1>6, <1>7, <1>8, <1>9 DEF IInv

\* The flush makes the record durable and the factor accepted, for the first time.
LEMMA SyncStep ==
    ASSUME IInv, NEW r \in Requests, Sync(r)
    PROVE  IInv'
  <1>1. /\ job \in [Requests -> Jobs] /\ job[r] \in Jobs /\ JobInv(r) /\ file \in Records
        /\ chain \in Seq(Requests) /\ accepted \in [Factors -> Nat]
        /\ durable \in Records /\ durable' = IF flushes THEN file ELSE durable
        /\ job[r].phase = "sync" /\ chain' = Tail(chain)
        /\ job' = [job EXCEPT ![r] = Answered("accepted")]
        /\ accepted' = IF job[r].kind = "factor" THEN [accepted EXCEPT ![job[r].code] = @ + 1]
                       ELSE accepted
        /\ UNCHANGED <<step, file, crashes, disk>>
    BY DEF IInv, TypeOK, Sync, SyncDirectory
  <1>2. Holds(r)
    BY <1>1 DEF JobInv
  <1>3. chain' \in Seq(Requests)
    BY <1>1, <1>2 DEF Holds
  <1>4. job[r].kind = "factor" =>
          /\ job[r].code \in Factors /\ Used(file, job[r].code)
          /\ accepted[job[r].code] <= Allowance
    BY <1>1 DEF JobInv
  <1>5. accepted' \in [Factors -> Nat]
    BY <1>1, <1>4
  <1>6. TypeOK'
    BY <1>1, <1>3, <1>5, AnsweredIsJob DEF IInv, TypeOK, disk
  <1>7. JobInv(r)'
    BY <1>1, AnsweredIsJob DEF JobInv
  <1>8. ASSUME NEW q \in Requests, q # r
        PROVE  JobInv(q)'
    <2>1. JobInv(q) /\ job'[q] = job[q]
      BY <1>1, <1>8 DEF IInv
    <2>2. job[q].phase \notin {"write", "sync"}
      BY <1>2, <1>8, <2>1, OneHolder DEF JobInv
    <2> QED
      BY <1>1, <2>1, <2>2, Bystander
  <1>9. Behind'
    BY <1>1, RecordFields DEF IInv, Behind
  <1>10. Allowance \in Nat /\ Allowance' = Allowance
    BY <1>1, AllowanceIsNat DEF IInv, Allowance, disk
  <1>11. ASSUME NEW f \in Factors
         PROVE  accepted'[f] <= 1 + Allowance /\ (accepted'[f] > Allowance => Used(file, f))
    <2>1. CASE job[r].kind = "factor" /\ f = job[r].code
      BY <1>1, <1>4, <1>10, <2>1
    <2>2. CASE ~(job[r].kind = "factor" /\ f = job[r].code)
      <3>1. accepted'[f] = accepted[f]
        BY <1>1, <1>4, <2>2
      <3> QED
        BY <3>1 DEF IInv, Spent
    <2> QED
      BY <2>1, <2>2
  <1>12. Spent'
    BY <1>1, <1>10, <1>11 DEF Spent, Used
  <1>13. AcceptedIsDurable'
    BY <1>1, <1>11, AllowanceIsNat DEF AcceptedIsDurable, Allowance, Used, disk
  <1> QED
    BY <1>6, <1>7, <1>8, <1>9, <1>12, <1>13 DEF IInv

\* What the record holds reaches the disk by itself.
LEMMA WriteBackStep ==
    ASSUME IInv, WriteBack
    PROVE  IInv'
  <1>1. /\ durable' = file /\ file \in Records
        /\ UNCHANGED <<step, file, chain, job, crashes, disk, accepted>>
    BY DEF IInv, TypeOK, WriteBack
  <1>2. TypeOK'
    BY <1>1 DEF IInv, TypeOK, disk
  <1>3. \A r \in Requests : JobInv(r)'
    BY <1>1 DEF IInv, JobInv, Older, Made, Used, Holds, Allowance, disk
  <1>4. Behind'
    BY <1>1, RecordFields DEF Behind
  <1>5. Spent' /\ AcceptedIsDurable'
    BY <1>1 DEF IInv, Spent, Allowance, Used, AcceptedIsDurable, disk
  <1> QED
    BY <1>2, <1>3, <1>4, <1>5 DEF IInv

\* A crash forgets the requests and takes back at most what was not durable.
LEMMA CrashStep ==
    ASSUME IInv, Crash
    PROVE  IInv'
  <1>1. /\ job \in [Requests -> Jobs] /\ file \in Records /\ durable \in Records
        /\ crashes \in 0..MaxCrashes /\ crashes < MaxCrashes /\ crashes' = crashes + 1
        /\ file' = durable /\ chain' = <<>>
        /\ takenBack' = IF durable # file THEN takenBack + 1 ELSE takenBack
        /\ job' = [r \in Requests |-> IF job[r].phase = "idle" THEN job[r] ELSE Answered("refused")]
        /\ flushes \in BOOLEAN /\ takenBack \in Nat
        /\ UNCHANGED <<step, durable, flushes, accepted>>
    BY DEF IInv, TypeOK, Crash
  <1>2. Answered("refused") \in Jobs /\ Answered("refused").phase = "refused"
    BY AnsweredIsJob
  <1>3. crashes' \in 0..MaxCrashes
    BY <1>1, IdentityAssumption
  <1>4. job' \in [Requests -> Jobs] /\ file' \in Records /\ durable' \in Records /\ chain' \in Seq(Requests)
    BY <1>1, <1>2
  <1>5. TypeOK'
    BY <1>1, <1>3, <1>4 DEF IInv, TypeOK
  <1>6. ASSUME NEW r \in Requests
        PROVE  JobInv(r)'
    <2>1. CASE job[r].phase = "idle"
      BY <1>1, <2>1 DEF IInv, JobInv
    <2>2. CASE job[r].phase # "idle"
      <3>1. job'[r].phase = "refused"
        BY <1>1, <1>2, <2>2
      <3> QED
        BY <3>1 DEF JobInv
    <2> QED
      BY <2>1, <2>2
  <1>7. Behind'
    BY <1>1, <1>4, RecordFields DEF Behind
  <1>8. AcceptedIsDurable'
    BY <1>1 DEF IInv, AcceptedIsDurable
  <1>9. ASSUME NEW f \in Factors
        PROVE  accepted[f] <= 1 + Allowance' /\ (accepted[f] > Allowance' => Used(durable, f))
    <2>1. accepted[f] <= 1 + Allowance /\ (accepted[f] > Allowance => Used(file, f))
      BY DEF IInv, Spent
    <2>2. accepted[f] \in Nat
      BY DEF IInv, TypeOK
    <2>3. CASE flushes
      <3>1. Allowance = 0 /\ Allowance' = 0
        BY <1>1, <2>3 DEF Allowance
      <3> QED
        BY <2>1, <2>2, <2>3, <3>1 DEF IInv, AcceptedIsDurable, Used
    <2>4. CASE ~flushes /\ durable = file
      <3>1. Allowance' = Allowance
        BY <1>1, <2>4 DEF Allowance
      <3> QED
        BY <2>1, <2>4, <3>1
    <2>5. CASE ~flushes /\ durable # file
      <3>1. Allowance = takenBack /\ Allowance' = takenBack + 1
        BY <1>1, <2>5 DEF Allowance
      <3> QED
        BY <1>1, <2>1, <2>2, <3>1
    <2> QED
      BY <1>1, <2>3, <2>4, <2>5
  <1>10. Spent'
    BY <1>1, <1>9 DEF Spent, Used
  <1> QED
    BY <1>5, <1>6, <1>7, <1>8, <1>10 DEF IInv

\* Every step keeps the invariant.
LEMMA Step == IInv /\ [Next]_vars => IInv'
  <1> SUFFICES ASSUME IInv, [Next]_vars PROVE IInv'
    OBVIOUS
  <1>1. ASSUME NEW r \in Requests, Proceed(r)
        PROVE  IInv'
    BY <1>1, FindStep, EnqueueStep, CompareStep, RenameStep, SyncStep DEF Proceed
  <1>2. CASE Tick \/ UNCHANGED vars
    <2>1. /\ UNCHANGED <<file, durable, chain, job, crashes, disk, accepted>>
          /\ step' \in Steps
      BY <1>2, IdentityAssumption DEF Tick, vars, IInv, TypeOK, Steps
    <2>2. TypeOK'
      BY <2>1 DEF IInv, TypeOK, disk
    <2>3. \A r \in Requests : JobInv(r)'
      BY <2>1 DEF IInv, JobInv, Older, Made, Used, Holds, Allowance, disk
    <2>4. Behind' /\ Spent' /\ AcceptedIsDurable'
      BY <2>1 DEF IInv, Behind, Spent, Allowance, Used, disk, AcceptedIsDurable
    <2> QED
      BY <2>2, <2>3, <2>4 DEF IInv
  <1> QED
    BY <1>1, <1>2, FindStep, WriteFailsStep, WriteBackStep, CrashStep DEF Next

\* The invariant holds in every reachable state.
LEMMA Always == Spec => []IInv
  BY Initially, Step, PTL DEF Spec

\* Every variable keeps its shape: no sequence of requests, failures and crashes
\* writes a malformed record.
THEOREM TypeCorrect == Spec => []TypeOK
  <1>1. IInv => TypeOK
    BY DEF IInv
  <1> QED
    BY <1>1, Always, PTL

\* A second factor signs in at most once, for any number of requests and crashes;
\* where a directory cannot be flushed, at most once more for each crash that
\* brought an older record back.
THEOREM SpentOnce == Spec => []FactorSpentOnce
  <1>1. IInv => FactorSpentOnce
    BY DEF IInv, Spent, Allowance, FactorSpentOnce
  <1> QED
    BY <1>1, Always, PTL

\* Once a factor is accepted, a crash cannot bring it back, where directories can
\* be flushed.
THEOREM Durable == Spec => []AcceptedIsDurable
  <1>1. IInv => AcceptedIsDurable
    BY DEF IInv
  <1> QED
    BY <1>1, Always, PTL

\* No update is lost: a record is only replaced by the holder of the lock, with one
\* made from that very record.
THEOREM NothingLost == Spec => NoLostUpdate
  <1>1. IInv /\ [Next]_vars =>
          [file' # file /\ crashes' = crashes =>
             \E r \in Requests :
                Holds(r) /\ job[r].read = file /\ file'.revision = file.revision + 1]_vars
    <2> SUFFICES ASSUME IInv, Next, file' # file, crashes' = crashes
                 PROVE  \E r \in Requests :
                           Holds(r) /\ job[r].read = file /\ file'.revision = file.revision + 1
      BY DEF vars
    <2>1. ~Crash
      BY DEF Crash, IInv, TypeOK
    <2>2. PICK r \in Requests : Rename(r)
      BY <2>1 DEF Next, Proceed, FindForFactor, FindForRefresh, VerifySecondFactor, FindAgain,
                  StoreRefreshToken, Compare, Sync, WriteFails, WriteBack, Tick
    <2>3. Holds(r) /\ job[r].read = file /\ Made(job[r]) /\ file' = job[r].next
      BY <2>2 DEF IInv, JobInv, Rename
    <2> QED
      BY <2>3 DEF Made
  <1> QED
    BY <1>1, Always, PTL DEF Spec, NoLostUpdate
-------------------------------------------------------------------------------
(* The semaphore in front of every Argon2 computation *)

\* Whoever is in the queue is waiting, and is in it once.
Lined ==
    /\ \A k \in 1..Len(queue) : state[queue[k]] = "queued"
    /\ \A k, l \in 1..Len(queue) : queue[k] = queue[l] => k = l

Permits ==
    /\ QueueTypeOK /\ IsFiniteSet(Running) /\ PermitsMatch
    /\ WaitsOnlyWhenFull /\ Lined

\* At first nothing runs and nothing waits.
LEMMA NoneRuns ==
    ASSUME QueueInit
    PROVE  Permits
  <1>1. Running = {}
    BY DEF QueueInit, Running
  <1> QED
    BY <1>1, FS_EmptySet, QueueAssumption
       DEF QueueInit, Permits, QueueTypeOK, PermitsMatch,
           WaitsOnlyWhenFull, Lined

\* Every step keeps the permits and the queue in order.
LEMMA PermitStep ==
    ASSUME Permits, [QueueNext]_queueVars
    PROVE  Permits'
  <1>i. /\ active \in Nat /\ queue \in Seq(Operations)
        /\ state \in [Operations -> {"idle", "queued", "running"}]
        /\ IsFiniteSet(Running) /\ active = Cardinality(Running) /\ active <= Limit
        /\ queue # <<>> => active = Limit
        /\ Len(queue) <= MaxQueue
        /\ Lined
        /\ Limit \in Nat /\ MaxQueue \in Nat
    BY QueueAssumption DEF Permits, QueueTypeOK, PermitsMatch, WaitsOnlyWhenFull
  <1>1. ASSUME NEW o \in Operations, AcquireNow(o)
        PROVE  Permits'
    <2>1. Running' = Running \cup {o} /\ o \notin Running
      BY <1>1, <1>i DEF AcquireNow, Running
    <2>2. IsFiniteSet(Running') /\ Cardinality(Running') = active + 1
      BY <2>1, <1>i, FS_AddElement
    <2>3. active' = active + 1 /\ active' <= Limit /\ queue' = queue /\ queue = <<>>
      BY <1>1, <1>i DEF AcquireNow
    <2>4. QueueTypeOK' /\ Lined'
      BY <1>1, <1>i, <2>3 DEF AcquireNow, QueueTypeOK, Lined
    <2> QED
      BY <1>i, <2>2, <2>3, <2>4 DEF Permits, PermitsMatch, WaitsOnlyWhenFull
  <1>2. ASSUME NEW o \in Operations, AcquireLater(o)
        PROVE  Permits'
    <2>1. Running' = Running
      BY <1>2, <1>i DEF AcquireLater, Running
    <2>2. active' = active /\ active = Limit /\ queue' = Append(queue, o) /\ Len(queue') <= MaxQueue
      BY <1>2, <1>i DEF AcquireLater
    <2>3. QueueTypeOK'
      BY <1>2, <1>i, <2>2 DEF AcquireLater, QueueTypeOK
    <2>4. \A k \in 1..Len(queue) : queue[k] \in Operations /\ queue[k] # o
      BY <1>2, <1>i DEF AcquireLater, Lined
    <2>5. Lined'
      BY <1>2, <1>i, <2>2, <2>4 DEF AcquireLater, Lined
    <2> QED
      BY <1>i, <2>1, <2>2, <2>3, <2>5 DEF Permits, PermitsMatch, WaitsOnlyWhenFull
  <1>3. ASSUME NEW o \in Operations, Release(o), queue # <<>>
        PROVE  Permits'
    <2> DEFINE w == Head(queue)
    <2>1. /\ w = queue[1] /\ w \in Operations /\ state[w] = "queued" /\ state[o] = "running"
          /\ w # o
      BY <1>3, <1>i DEF Release, Lined
    <2>2. /\ state' = [state EXCEPT ![o] = "idle", ![w] = "running"]
          /\ queue' = Tail(queue)
          /\ active' = active
      BY <1>3 DEF Release
    <2> HIDE DEF w
    <2>3. Running' = (Running \ {o}) \cup {w} /\ o \in Running /\ w \notin Running \ {o}
      BY <1>i, <2>1, <2>2 DEF Running
    <2>4. IsFiniteSet(Running \ {o}) /\ Cardinality(Running \ {o}) = active - 1
      BY <1>i, <2>3, FS_RemoveElement
    <2>5. IsFiniteSet(Running') /\ Cardinality(Running') = active - 1 + 1
      BY <2>3, <2>4, FS_AddElement
    <2>6. QueueTypeOK'
      BY <1>3, <1>i, <2>1, <2>2 DEF QueueTypeOK
    <2>7. /\ Len(queue') = Len(queue) - 1
          /\ \A k \in 1..Len(queue') : queue'[k] = queue[k + 1] /\ k + 1 \in 1..Len(queue)
      BY <1>3, <1>i, <2>2
    <2>8. Lined'
      <3>1. ASSUME NEW k \in 1..Len(queue')
            PROVE  state'[queue'[k]] = "queued"
        <4>1. queue'[k] = queue[k + 1] /\ k + 1 \in 1..Len(queue) /\ k + 1 # 1 /\ 1 \in 1..Len(queue)
          BY <1>3, <1>i, <2>7
        <4>2. queue'[k] # w /\ state[queue'[k]] = "queued" /\ queue'[k] \in Operations
          BY <1>i, <2>1, <4>1 DEF Lined
        <4> QED
          BY <1>i, <2>1, <2>2, <4>2
      <3>2. ASSUME NEW k \in 1..Len(queue'), NEW l \in 1..Len(queue'), queue'[k] = queue'[l]
            PROVE  k = l
        <4>1. k + 1 = l + 1
          BY <1>i, <2>7, <3>2 DEF Lined
        <4> QED
          BY <4>1
      <3> QED
        BY <3>1, <3>2 DEF Lined
    <2>9. Len(queue') <= MaxQueue
      BY <1>i, <2>7
    <2> QED
      BY <1>3, <1>i, <2>2, <2>5, <2>6, <2>8, <2>9 DEF Permits, PermitsMatch, WaitsOnlyWhenFull
  <1>4. ASSUME NEW o \in Operations, Release(o), queue = <<>>
        PROVE  Permits'
    <2>1. /\ state[o] = "running"
          /\ state' = [state EXCEPT ![o] = "idle"]
          /\ active' = active - 1
          /\ queue' = queue
      BY <1>4 DEF Release
    <2>2. Running' = Running \ {o} /\ o \in Running
      BY <1>i, <2>1 DEF Running
    <2>3. IsFiniteSet(Running') /\ Cardinality(Running') = active - 1 /\ Cardinality(Running') \in Nat
      BY <1>i, <2>2, FS_RemoveElement, FS_CardinalityType
    <2>4. QueueTypeOK' /\ Lined'
      BY <1>4, <1>i, <2>1, <2>3 DEF QueueTypeOK, Lined
    <2> QED
      BY <1>4, <1>i, <2>1, <2>3, <2>4 DEF Permits, PermitsMatch, WaitsOnlyWhenFull
  <1>5. ASSUME UNCHANGED queueVars
        PROVE  Permits'
    BY <1>5 DEF queueVars, Permits, QueueTypeOK, PermitsMatch, WaitsOnlyWhenFull,
                Lined, Running
  <1> QED
    BY <1>1, <1>2, <1>3, <1>4, <1>5 DEF QueueNext

\* The invariant holds in every reachable state of the semaphore.
LEMMA AlwaysPermits == QueueSpec => []Permits
  <1>1. QueueInit => Permits
    BY NoneRuns
  <1>2. Permits /\ [QueueNext]_queueVars => Permits'
    BY PermitStep
  <1> QED
    BY <1>1, <1>2, PTL DEF QueueSpec

\* The semaphore's state stays well-formed, for any operations, limit and queue.
THEOREM PermitsTyped == QueueSpec => []QueueTypeOK
  <1>1. Permits => QueueTypeOK
    BY DEF Permits
  <1> QED
    BY <1>1, AlwaysPermits, PTL

\* As many operations run as there are permits out, and never more than the limit,
\* although a waiter that wakes does not count itself
\* (adapters/node/local-identities.js, class Semaphore).
THEOREM PermitsAlwaysMatch == QueueSpec => []PermitsMatch
  <1>1. Permits => PermitsMatch
    BY DEF Permits
  <1> QED
    BY <1>1, AlwaysPermits, PTL

\* Nobody waits while a permit is free, and the queue never outgrows its bound.
THEOREM NobodyWaitsForNothing == QueueSpec => []WaitsOnlyWhenFull
  <1>1. Permits => WaitsOnlyWhenFull
    BY DEF Permits
  <1> QED
    BY <1>1, AlwaysPermits, PTL
================================================================================
