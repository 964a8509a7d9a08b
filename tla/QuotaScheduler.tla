--------------------------- MODULE QuotaScheduler ---------------------------
(***************************************************************************)
(* The quota-aware scheduler (scheduler/scheduler.py) with its ledger      *)
(* (scheduler/quota.py), for the tasks of one vendor: admission by the     *)
(* concurrency ceiling and the five-hour and weekly caps, dispatch with    *)
(* retries on 429/503, the persisted snapshot in Redis and restarts of the *)
(* (single) control-plane process.                                         *)
(***************************************************************************)
EXTENDS Integers, Sequences, FiniteSets

CONSTANTS
    Tasks,
    Burn,            \* [Tasks -> Nat], estimated_burn_seconds
    FiveHourCap, WeeklyCap,
    MaxConcurrent,
    Attempts,        \* attempts of dispatch_with_backoff
    RedisFails,      \* whether hset may raise
    MaxCrashes

ASSUME QuotaAssumption ==
    /\ Burn \in [Tasks -> Nat]
    /\ FiveHourCap \in Nat /\ WeeklyCap \in Nat
    /\ MaxConcurrent \in Nat \ {0}
    /\ Attempts \in Nat \ {0}
    /\ RedisFails \in BOOLEAN
    /\ MaxCrashes \in Nat

VARIABLES
    used,      \* the snapshot in memory: [five, week]
    saved,     \* the snapshot in Redis
    running,   \* running_count
    queue,     \* scheduler.queue
    at,        \* progress of each task
    tries,
    admitted,  \* history: the burn of every task that was admitted
    crashes
vars == <<used, saved, running, queue, at, tries, admitted, crashes>>

Snapshot == [five : Nat, week : Nat]
Stages == {"new", "admitted", "calling", "sleeping", "done", "raised", "queued", "lost"}
InFlight == {t \in Tasks : at[t] \in {"calling", "sleeping"}}

Init ==
    /\ saved \in [five : 0..FiveHourCap, week : 0..WeeklyCap]
    /\ used = saved
    /\ running = 0 /\ queue = <<>>
    /\ at = [t \in Tasks |-> "new"]
    /\ tries = [t \in Tasks |-> 0]
    /\ admitted = 0 /\ crashes = 0

-----------------------------------------------------------------------------
(* QuotaLedger.                                                            *)

\* What a window still has; one over its cap has nothing left.
Remaining(cap, u) == IF u <= cap THEN cap - u ELSE 0
\* Mutant: only the weekly cap is looked at.
HasHeadroom_Weekly(b) == b <= Remaining(WeeklyCap, used.week)
HasHeadroom(b) == b <= Remaining(FiveHourCap, used.five) /\ b <= Remaining(WeeklyCap, used.week)

\* reserve(): both windows, in memory first and then in Redis.
Charge(b) == used' = [five |-> used.five + b, week |-> used.week + b]
\* Mutant: the snapshot stays in memory.
Persist_Not == UNCHANGED saved
Persist == saved' = used'

-----------------------------------------------------------------------------
(* QuotaAwareScheduler.                                                    *)

Enqueue(t) == queue' = Append(queue, t)

Admit(t) ==
    /\ at[t] = "new"
    /\ \/ /\ running < MaxConcurrent /\ HasHeadroom(Burn[t])
          /\ Charge(Burn[t]) /\ Persist
          /\ at' = [at EXCEPT ![t] = "admitted"]
          /\ admitted' = admitted + Burn[t]
          /\ UNCHANGED queue
       \/ /\ RedisFails /\ running < MaxConcurrent /\ HasHeadroom(Burn[t])
          /\ Charge(Burn[t])
          /\ at' = [at EXCEPT ![t] = "raised"]
          /\ UNCHANGED <<saved, admitted, queue>>
       \/ /\ running >= MaxConcurrent \/ ~ HasHeadroom(Burn[t])
          /\ Enqueue(t)
          /\ at' = [at EXCEPT ![t] = "queued"]
          /\ UNCHANGED <<used, saved, admitted>>
    /\ UNCHANGED <<running, tries, crashes>>

\* dispatch_with_backoff up to its first await.
StartDispatch(t) ==
    /\ at[t] = "admitted"
    /\ running' = running + 1
    /\ at' = [at EXCEPT ![t] = "calling"]
    /\ tries' = [tries EXCEPT ![t] = 1]
    /\ UNCHANGED <<used, saved, queue, admitted, crashes>>

\* Mutant: the slot is released on success only.
Leave_OnSuccess(t, s) ==
    /\ at' = [at EXCEPT ![t] = s]
    /\ running' = IF s = "done" THEN running - 1 ELSE running
Leave(t, s) ==
    /\ at' = [at EXCEPT ![t] = s]
    /\ running' = running - 1

Returns(t) ==
    /\ at[t] = "calling"
    /\ Leave(t, "done")
    /\ UNCHANGED <<used, saved, queue, tries, admitted, crashes>>

\* An error that is not a 429 or 503.
Raises(t) ==
    /\ at[t] = "calling"
    /\ Leave(t, "raised")
    /\ UNCHANGED <<used, saved, queue, tries, admitted, crashes>>

\* 429 or 503: sleep and retry, or give up and queue the task.
RateLimited(t) ==
    /\ at[t] = "calling"
    /\ IF tries[t] < Attempts
       THEN at' = [at EXCEPT ![t] = "sleeping"] /\ UNCHANGED <<running, queue>>
       ELSE Leave(t, "queued") /\ Enqueue(t)
    /\ UNCHANGED <<used, saved, tries, admitted, crashes>>

Retry(t) ==
    /\ at[t] = "sleeping"
    /\ at' = [at EXCEPT ![t] = "calling"]
    /\ tries' = [tries EXCEPT ![t] = @ + 1]
    /\ UNCHANGED <<used, saved, running, queue, admitted, crashes>>

\* A new process loads the snapshot from Redis; what was in memory is gone.
Restart ==
    /\ crashes < MaxCrashes
    /\ crashes' = crashes + 1
    /\ used' = saved
    /\ running' = 0 /\ queue' = <<>>
    /\ at' = [t \in Tasks |-> IF at[t] \in {"new", "done", "raised"} THEN at[t] ELSE "lost"]
    /\ UNCHANGED <<saved, tries, admitted>>

Next ==
    \/ Restart
    \/ \E t \in Tasks : Admit(t) \/ StartDispatch(t) \/ Returns(t) \/ Raises(t)
                        \/ RateLimited(t) \/ Retry(t)

Spec == Init /\ [][Next]_vars

-----------------------------------------------------------------------------
(* Properties.                                                             *)

\* Every variable has its type; running_count is never negative.
TypeOK ==
    /\ used \in Snapshot /\ saved \in Snapshot
    /\ running \in Nat
    /\ queue \in Seq(Tasks)
    /\ at \in [Tasks -> Stages]
    /\ tries \in [Tasks -> Nat]
    /\ admitted \in Nat /\ crashes \in Nat

\* Admissions never take a window over its cap, whatever fails or restarts.
CapsRespected == used.five <= FiveHourCap /\ used.week <= WeeklyCap

\* The burn of admitted tasks survives restarts (quota.py:51): it is in Redis.
BurnSurvives == saved.five >= admitted /\ saved.week >= admitted

\* running_count is the number of dispatches under way, on every exit path.
RunningExact == running = Cardinality(InFlight)

-----------------------------------------------------------------------------
(* A small instance: one task of two seconds, the others of one.           *)
SmallBurn == [t \in Tasks |-> IF t = CHOOSE u \in Tasks : TRUE THEN 2 ELSE 1]
=============================================================================
