------------------------------ MODULE Argon2Queue ------------------------------
(***************************************************************************)
(* The bounded FIFO semaphore every Argon2 computation goes through (class  *)
(* Semaphore of adapters/node/local-identities.js).  A permit that is given *)
(* back goes straight to the first waiter, without the count of active      *)
(* operations ever going down; one that nobody waits for lowers the count.  *)
(***************************************************************************)
EXTENDS Naturals, Sequences, FiniteSets

CONSTANTS
    Operations, \* password operations that may be wanted at the same time
    Limit,      \* LOCAL_ARGON2_CONCURRENCY
    MaxQueue    \* the most that may wait

ASSUME QueueAssumption ==
    /\ Limit \in Nat \ {0}
    /\ MaxQueue \in Nat

VARIABLES
    active,     \* permits that are out
    queue,      \* operations that wait, the first one first
    state       \* state[o]

queueVars == <<active, queue, state>>

QueueInit ==
    /\ active = 0
    /\ queue = <<>>
    /\ state = [o \in Operations |-> "idle"]

\* Mutant of AcquireNow: an off-by-one at the limit.
AcquirePastLimit(o) ==
    /\ state[o] = "idle"
    /\ active <= Limit
    /\ active' = active + 1
    /\ state' = [state EXCEPT ![o] = "running"]
    /\ UNCHANGED queue

\* acquire, when a permit is free
AcquireNow(o) ==
    /\ state[o] = "idle"
    /\ active < Limit
    /\ active' = active + 1
    /\ state' = [state EXCEPT ![o] = "running"]
    /\ UNCHANGED queue

\* acquire, when none is and there is room to wait; past that it throws
AcquireLater(o) ==
    /\ state[o] = "idle"
    /\ active >= Limit
    /\ Len(queue) < MaxQueue
    /\ queue' = Append(queue, o)
    /\ state' = [state EXCEPT ![o] = "queued"]
    /\ UNCHANGED active

\* Mutant of Release: wakes nobody.
ReleaseUnheard(o) ==
    /\ state[o] = "running"
    /\ state' = [state EXCEPT ![o] = "idle"]
    /\ active' = active - 1
    /\ UNCHANGED queue

\* Mutant of Release: serves the one that came last.
ReleaseToLast(o) ==
    /\ state[o] = "running"
    /\ IF queue # <<>>
       THEN /\ state' = [state EXCEPT ![o] = "idle", ![queue[Len(queue)]] = "running"]
            /\ queue' = SubSeq(queue, 1, Len(queue) - 1)
            /\ UNCHANGED active
       ELSE /\ state' = [state EXCEPT ![o] = "idle"]
            /\ active' = active - 1
            /\ UNCHANGED queue

\* release, when the operation has returned or thrown
Release(o) ==
    /\ state[o] = "running"
    /\ IF queue # <<>>
       THEN /\ state' = [state EXCEPT ![o] = "idle", ![Head(queue)] = "running"]
            /\ queue' = Tail(queue)
            /\ UNCHANGED active
       ELSE /\ state' = [state EXCEPT ![o] = "idle"]
            /\ active' = active - 1
            /\ UNCHANGED queue

QueueNext == \E o \in Operations : AcquireNow(o) \/ AcquireLater(o) \/ Release(o)

\* A computation ends.
QueueFairness == \A o \in Operations : WF_queueVars(Release(o))

QueueSpec == QueueInit /\ [][QueueNext]_queueVars /\ QueueFairness

--------------------------------------------------------------------------------
(* Properties *)

\* Every variable has its shape; active never goes below zero.
QueueTypeOK ==
    /\ active \in Nat
    /\ queue \in Seq(Operations)
    /\ state \in [Operations -> {"idle", "queued", "running"}]

Running == {o \in Operations : state[o] = "running"}

\* No permit is lost and none is made up: as many operations run as the count
\* says, never more than the limit, although a waiter that wakes does not count
\* itself.
PermitsMatch == active = Cardinality(Running) /\ active <= Limit

\* Nobody waits while a permit is free, and no more wait than may.
WaitsOnlyWhenFull ==
    /\ queue # <<>> => active = Limit
    /\ Len(queue) <= MaxQueue

\* Whoever waits gets a permit in the end.
WaitEnds == \A o \in Operations : state[o] = "queued" ~> state[o] = "running"
================================================================================
