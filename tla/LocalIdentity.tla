------------------------------ MODULE LocalIdentity ------------------------------
(***************************************************************************)
(* The record of one local identity and the two things that change it while *)
(* the gateway runs: a second factor that is used up (verifySecondFactor)   *)
(* and a refresh token that is kept (storeRefreshToken), both in            *)
(* src/local-identities/index.js, through the compare-and-swap of           *)
(* adapters/node/local-identities.js.                                      *)
(*                                                                         *)
(* One process writes the file.  Requests interleave at every await; a      *)
(* write waits for the lock on its key, a chain of promises served in the   *)
(* order of arrival.  A renamed file is seen at once but survives a crash   *)
(* for certain only when its directory has been flushed; some file systems  *)
(* cannot flush a directory, and there a write succeeds without it.        *)
(***************************************************************************)
EXTENDS Naturals, Sequences, FiniteSets

CONSTANTS
    BackupCodes,    \* single-use recovery codes
    Tokens,         \* upstream refresh tokens
    NoToken,
    NoCode,
    Requests,
    Skew,           \* localIdentities.totpSkew, in time steps
    MaxStep,        \* bound: the clock stops here, in time steps
    MaxCrashes      \* bound: how often the process stops

Steps == 1..MaxStep

ASSUME IdentityAssumption ==
    /\ Skew \in Nat /\ MaxStep \in Nat \ {0} /\ MaxCrashes \in Nat
    /\ NoToken \notin Tokens
    /\ BackupCodes \cap Steps = {}
    /\ NoCode \notin BackupCodes \cup Steps

VARIABLES
    step,       \* the current TOTP time step
    file,       \* the record as a reader sees it
    durable,    \* the record as a crash leaves it
    chain,      \* who waits for, and first of all who holds, the lock on the key
    job,        \* job[r]: how far request r has come, and with what
    crashes,    \* how often the process has stopped
    flushes,    \* whether the file system can flush a directory: it never changes
    takenBack,  \* history: how many crashes brought an older record back
    accepted    \* history: accepted[f]: how many sign-ins rested on factor f

disk == <<flushes, takenBack>>

vars == <<step, file, durable, chain, job, crashes, disk, accepted>>

\* A code is a backup code or the number of the time step it belongs to.
Factors == BackupCodes \cup Steps

Records == [revision : Nat, backups : SUBSET BackupCodes, lastUsedStep : 0..MaxStep,
            token : Tokens \cup {NoToken}]

FirstRecord == [revision |-> 1, backups |-> BackupCodes, lastUsedStep |-> 0, token |-> NoToken]

Phases == {"idle", "verify", "relink", "store", "lock", "write", "sync", "accepted", "refused"}

\* kind "factor" uses up code; kind "refresh" keeps token, and looks twice.
Jobs == [phase : Phases, kind : {"factor", "refresh"}, code : Factors \cup {NoCode},
         token : Tokens \cup {NoToken}, retried : BOOLEAN, read : Records, next : Records]

NoJob == [phase |-> "idle", kind |-> "factor", code |-> NoCode, token |-> NoToken, retried |-> FALSE,
          read |-> FirstRecord, next |-> FirstRecord]

Init ==
    /\ step = 1
    /\ file = FirstRecord
    /\ durable = FirstRecord
    /\ chain = <<>>
    /\ job = [r \in Requests |-> NoJob]
    /\ crashes = 0
    /\ flushes \in BOOLEAN
    /\ takenBack = 0
    /\ accepted = [f \in Factors |-> 0]

\* The state of a request that has been answered.
Answered(phase) == [NoJob EXCEPT !.phase = phase]

--------------------------------------------------------------------------------
(* src/local-identities/index.js *)

\* find, for the page that takes the second factor.
FindForFactor(r, code) ==
    /\ job[r].phase = "idle"
    /\ job' = [job EXCEPT ![r] = [@ EXCEPT !.phase = "verify", !.code = code, !.read = file]]
    /\ UNCHANGED <<step, file, durable, chain, crashes, disk, accepted>>

\* linked, for an upstream sign-in that returned a refresh token.
FindForRefresh(r, token) ==
    /\ job[r].phase = "idle"
    /\ job' = [job EXCEPT ![r] = [@ EXCEPT
                 !.phase = "store", !.kind = "refresh", !.token = token, !.read = file]]
    /\ UNCHANGED <<step, file, durable, chain, crashes, disk, accepted>>

\* The one retry after a mismatch resolves the link again.
FindAgain(r) ==
    /\ job[r].phase = "relink"
    /\ job' = [job EXCEPT ![r].phase = "store", ![r].read = file]
    /\ UNCHANGED <<step, file, durable, chain, crashes, disk, accepted>>

\* verifyTotp: a step within the skew, later than the last one used.
TotpMatches(record, code) ==
    /\ code \in Steps
    /\ code <= step + Skew /\ step <= code + Skew
    /\ code > record.lastUsedStep

FactorMatches(record, code) == code \in record.backups \/ TotpMatches(record, code)

\* replace: what a mutation is written as.
Revised(record) == [record EXCEPT !.revision = @ + 1]

UsedUp(record, code) ==
    Revised(IF code \in BackupCodes THEN [record EXCEPT !.backups = @ \ {code}]
            ELSE [record EXCEPT !.lastUsedStep = code])

\* The promise is put on the chain when the lock is asked for.
Enqueue(r, next) ==
    /\ chain' = Append(chain, r)
    /\ job' = [job EXCEPT ![r].phase = "lock", ![r].next = next]

\* verifySecondFactor, with an attempt the limit allows.
VerifySecondFactor(r) ==
    LET j == job[r]
    IN  /\ j.phase = "verify"
        /\ IF FactorMatches(j.read, j.code)
           THEN Enqueue(r, UsedUp(j.read, j.code))
           ELSE job' = [job EXCEPT ![r] = Answered("refused")] /\ UNCHANGED chain
        /\ UNCHANGED <<step, file, durable, crashes, disk, accepted>>

StoreRefreshToken(r) ==
    /\ job[r].phase = "store"
    /\ Enqueue(r, Revised([job[r].read EXCEPT !.token = job[r].token]))
    /\ UNCHANGED <<step, file, durable, crashes, disk, accepted>>

--------------------------------------------------------------------------------
(* adapters/node/local-identities.js *)

\* Mutant of Holds: nobody waits for the lock.
HoldsAlways(r) == TRUE

Holds(r) == chain # <<>> /\ Head(chain) = r

\* The lock is released; the caller learns that the write was not made.  A
\* refresh token is tried once more on the record as it is by then.
Mismatch(r) ==
    IF job[r].kind = "refresh" /\ ~job[r].retried
    THEN job' = [job EXCEPT ![r].phase = "relink", ![r].retried = TRUE]
    ELSE job' = [job EXCEPT ![r] = Answered("refused")]

\* Mutant of Compare: writes whatever the revision is by now.
CompareNothing(r) ==
    /\ job[r].phase = "lock"
    /\ Holds(r)
    /\ job' = [job EXCEPT ![r].phase = "write"]
    /\ UNCHANGED <<step, file, durable, chain, crashes, disk, accepted>>

\* replace, with the lock: read again, compare, then write.
Compare(r) ==
    /\ job[r].phase = "lock"
    /\ Holds(r)
    /\ IF file.revision = job[r].read.revision
       THEN job' = [job EXCEPT ![r].phase = "write"] /\ UNCHANGED chain
       ELSE Mismatch(r) /\ chain' = Tail(chain)
    /\ UNCHANGED <<step, file, durable, crashes, disk, accepted>>

\* writeAtomic: the temporary file, flushed, takes the record's name.
Rename(r) ==
    /\ job[r].phase = "write"
    /\ file' = job[r].next
    /\ job' = [job EXCEPT ![r].phase = "sync"]
    /\ UNCHANGED <<step, durable, chain, crashes, disk, accepted>>

\* Mutant of SyncDirectory: no file system is asked to flush.
SyncDirectoryNowhere == UNCHANGED durable

\* syncDirectory: that a directory cannot be flushed is not an error.
SyncDirectory == durable' = IF flushes THEN file ELSE durable

\* The directory is flushed, the lock released and the caller told.
Sync(r) ==
    /\ job[r].phase = "sync"
    /\ SyncDirectory
    /\ chain' = Tail(chain)
    /\ job' = [job EXCEPT ![r] = Answered("accepted")]
    /\ accepted' = IF job[r].kind = "factor" THEN [accepted EXCEPT ![job[r].code] = @ + 1]
                   ELSE accepted
    /\ UNCHANGED <<step, file, crashes, disk>>

\* Mutant of WriteFails: a failed write keeps the lock.
WriteFailsLocked(r) ==
    /\ job[r].phase \in {"write", "sync"}
    /\ job' = [job EXCEPT ![r] = Answered("refused")]
    /\ UNCHANGED <<step, file, durable, chain, crashes, disk, accepted>>

\* Any file operation made with the lock may fail, the reading as well, before or
\* after the rename; the lock is released all the same and the request fails.
WriteFails(r) ==
    /\ job[r].phase \in {"write", "sync"} \/ (job[r].phase = "lock" /\ Holds(r))
    /\ chain' = Tail(chain)
    /\ job' = [job EXCEPT ![r] = Answered("refused")]
    /\ UNCHANGED <<step, file, durable, crashes, disk, accepted>>

--------------------------------------------------------------------------------

\* A rename may reach the disk by itself at any time.
WriteBack ==
    /\ durable # file
    /\ durable' = file
    /\ UNCHANGED <<step, file, chain, job, crashes, disk, accepted>>

\* The process stops and starts again with what has reached the disk.
Crash ==
    /\ crashes < MaxCrashes
    /\ crashes' = crashes + 1
    /\ file' = durable
    /\ takenBack' = IF durable # file THEN takenBack + 1 ELSE takenBack
    /\ chain' = <<>>
    /\ job' = [r \in Requests |-> IF job[r].phase = "idle" THEN job[r] ELSE Answered("refused")]
    /\ UNCHANGED <<step, durable, flushes, accepted>>

Tick ==
    /\ step < MaxStep
    /\ step' = step + 1
    /\ UNCHANGED <<file, durable, chain, job, crashes, disk, accepted>>

Proceed(r) ==
    \/ VerifySecondFactor(r) \/ FindAgain(r) \/ StoreRefreshToken(r)
    \/ Compare(r) \/ Rename(r) \/ Sync(r)

Next ==
    \/ \E r \in Requests :
          \/ \E code \in Factors : FindForFactor(r, code)
          \/ \E token \in Tokens : FindForRefresh(r, token)
          \/ Proceed(r)
          \/ WriteFails(r)
    \/ WriteBack
    \/ Crash
    \/ Tick

\* An await that can be resumed is resumed, and a file operation ends.
Fairness == \A r \in Requests : WF_vars(Proceed(r))

Spec == Init /\ [][Next]_vars /\ Fairness

--------------------------------------------------------------------------------
(* Properties *)

\* Every variable has its shape.
TypeOK ==
    /\ step \in Steps
    /\ file \in Records
    /\ durable \in Records
    /\ chain \in Seq(Requests)
    /\ job \in [Requests -> Jobs]
    /\ crashes \in 0..MaxCrashes
    /\ flushes \in BOOLEAN
    /\ takenBack \in Nat
    /\ accepted \in [Factors -> Nat]

\* A second factor signs in at most once, whichever requests race with it, a
\* refresh token being stored among them, and whatever a crash takes back
\* (src/local-identities/index.js:387-413).  Where a directory cannot be flushed,
\* a crash that brings an older record back can cost one more sign-in, and
\* nothing else can.
FactorSpentOnce == \A f \in Factors : accepted[f] <= 1 + (IF flushes THEN 0 ELSE takenBack)

\* Where directories can be flushed, whoever was told that a factor was accepted
\* can rely on it being used up: it would be refused after a crash in that very
\* moment (the comment of syncDirectory says that it is not promised elsewhere).
AcceptedIsDurable ==
    flushes => \A f \in Factors : accepted[f] > 0 =>
        f \notin durable.backups /\ (f \in Steps => f <= durable.lastUsedStep)

\* Only the request that holds the lock writes, and one record replaces another
\* only if it was made from it: no update is lost.
NoLostUpdate ==
    [][file' # file /\ crashes' = crashes =>
          \E r \in Requests : Holds(r) /\ job[r].read = file /\ file'.revision = file.revision + 1]_vars

\* A request that asks for the lock is answered, even when the write of the one
\* before it fails (the finally of withKeyLock).
LockIsServed ==
    \A r \in Requests : job[r].phase = "lock" ~> job[r].phase \in {"accepted", "refused"}
================================================================================
