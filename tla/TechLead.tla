------------------------------ MODULE TechLead ------------------------------
(***************************************************************************)
(* Tech-lead coordinators (orchestrator/techlead.py) over one seat pool    *)
(* and one scheduler.  A lead acquires a seat, decomposes an objective and *)
(* fans the plan out: for each task it takes a subagent's reference to its *)
(* own seat, asks for admission and awaits dispatch(task) or leaves the    *)
(* task to the scheduler's queue.  Nothing gives that reference back: a    *)
(* worker's end does not reach the pool.  What the lead's caller does      *)
(* (acquire before execute, release after it) is modelled from the tests.  *)
(***************************************************************************)
EXTENDS Naturals, Sequences, FiniteSets

CONSTANTS
    Leads, Seats, NoSeat, Tasks,
    Plan,            \* [Leads -> Seq(Tasks)], what the planner returns
    Unapproved,      \* leads of autonomy_level <= 1 without approval
    DispatchRaises,  \* whether dispatch(task) may raise
    Burn, FiveHourCap, WeeklyCap, MaxConcurrent

ASSUME TechLeadAssumption ==
    /\ Plan \in [Leads -> Seq(Tasks)]
    /\ Unapproved \subseteq Leads
    /\ DispatchRaises \in BOOLEAN
    /\ NoSeat \notin Seats
    /\ IsFiniteSet(Tasks)

VARIABLES
    registered, queue, getters, woken, ref, expired, user, lease, subs,
    used, saved, running, waiting, at, tries, admitted, crashes,
    pc,        \* of execute(): idle, fanout, awaiting, returned, raised
    next,      \* index of the plan task in hand
    seatOf     \* history: the seat in a task's envelope
poolVars == <<registered, queue, getters, woken, ref, expired, user, lease, subs>>
schedVars == <<used, saved, running, waiting, at, tries, admitted, crashes>>
leadVars == <<pc, next, seatOf>>
vars == <<poolVars, schedVars, leadVars>>

Pool == INSTANCE SeatPool WITH Users <- Leads, Refreshable <- Seats, ProviderFails <- FALSE,
                               MaxSubs <- Cardinality(Tasks)
Sched == INSTANCE QuotaScheduler WITH queue <- waiting, Attempts <- 1, RedisFails <- FALSE,
                                     MaxCrashes <- 0

Init ==
    /\ Pool!Init /\ Sched!Init
    /\ pc = [l \in Leads |-> "idle"]
    /\ next = [l \in Leads |-> 1]
    /\ seatOf = [t \in Tasks |-> NoSeat]

Registers(s) == Pool!RegisterSeat(s) /\ UNCHANGED <<schedVars, leadVars>>
TokenExpires(s) == Pool!TokenExpires(s) /\ UNCHANGED <<schedVars, leadVars>>
Acquires(l) == Pool!Acquire(l) /\ UNCHANGED <<schedVars, leadVars>>
Wakes(l) == Pool!Wake(l) /\ UNCHANGED <<schedVars, leadVars>>

\* execute(): plan() and the approval test.
Execute(l) ==
    /\ pc[l] = "idle" /\ user[l] = "holding"
    /\ pc' = [pc EXCEPT ![l] = IF l \in Unapproved THEN "raised" ELSE "fanout"]
    /\ UNCHANGED <<poolVars, schedVars, next, seatOf>>

Current(l) == Plan[l][next[l]]

\* One pass of the loop up to `await self.dispatch(task)`.
FanOut(l) ==
    /\ pc[l] = "fanout" /\ next[l] <= Len(Plan[l])
    /\ Pool!AcquireSubagent(l)
    /\ Sched!Admit(Current(l))
    /\ seatOf' = [seatOf EXCEPT ![Current(l)] = lease[l]]
    /\ IF at'[Current(l)] = "admitted"
       THEN pc' = [pc EXCEPT ![l] = "awaiting"] /\ UNCHANGED next
       ELSE next' = [next EXCEPT ![l] = @ + 1] /\ UNCHANGED pc

\* dispatch() returns, the worker having the task, or raises out of execute().
DispatchReturns(l) ==
    /\ pc[l] = "awaiting"
    /\ \/ /\ at' = [at EXCEPT ![Current(l)] = "calling"]
          /\ pc' = [pc EXCEPT ![l] = "fanout"]
          /\ next' = [next EXCEPT ![l] = @ + 1]
       \/ /\ DispatchRaises
          /\ at' = [at EXCEPT ![Current(l)] = "raised"]
          /\ pc' = [pc EXCEPT ![l] = "raised"]
          /\ UNCHANGED next
    /\ UNCHANGED <<poolVars, used, saved, running, waiting, tries, admitted, crashes, seatOf>>

Returned(l) ==
    /\ pc[l] = "fanout" /\ next[l] > Len(Plan[l])
    /\ pc' = [pc EXCEPT ![l] = "returned"]
    /\ UNCHANGED <<poolVars, schedVars, next, seatOf>>

\* The caller gives the parent's reference back.
LeadReleases(l) ==
    /\ pc[l] \in {"returned", "raised"}
    /\ Pool!ReleaseParent(l)
    /\ UNCHANGED <<schedVars, leadVars>>

Next ==
    \/ \E s \in Seats : Registers(s) \/ TokenExpires(s)
    \/ \E l \in Leads : Acquires(l) \/ Wakes(l)
    \/ \E l \in Leads : Execute(l) \/ FanOut(l) \/ DispatchReturns(l) \/ Returned(l) \/ LeadReleases(l)

Spec == Init /\ [][Next]_vars

\* The seats are registered, woken coroutines run, dispatches return and leads
\* that have ended release their seat.
Runs ==
    \/ \E s \in Seats : Registers(s)
    \/ \E l \in Leads : Wakes(l) \/ Execute(l) \/ FanOut(l) \/ DispatchReturns(l) \/ Returned(l) \/ LeadReleases(l)

FairSpec == Spec /\ WF_vars(Runs)

-----------------------------------------------------------------------------
(* Properties.                                                             *)

FannedOut(t) == at[t] # "new"

\* Tasks of different leads never carry one seat's credentials, and no lead is
\* given a seat whose credentials a task of another lead carries, though leads
\* release while their tasks keep the seat (orchestrator/techlead.py:145-158,
\* seats/pool.py:150-167).
CredentialsApart ==
    /\ \A l \in Leads, t \in Tasks :
         user[l] = "holding" /\ FannedOut(t) /\ seatOf[t] = lease[l] =>
            \E i \in DOMAIN Plan[l] : Plan[l][i] = t
    /\ \A l, m \in Leads : \A i \in DOMAIN Plan[l], j \in DOMAIN Plan[m] :
         FannedOut(Plan[l][i]) /\ FannedOut(Plan[m][j]) /\ seatOf[Plan[l][i]] = seatOf[Plan[m][j]] => l = m

\* The references of tasks stay for ever (techlead.py:146; test_techlead.py:62
\* still counts four after three dispatches).
AllKept == \A s \in Seats : \E t \in Tasks : seatOf[t] = s

\* A lead that waits for a seat gets one (pool.py:83), unless each of them is
\* kept by the tasks of a lead before it: the seat of a lead that was refused
\* or had nothing to fan out is handed on, whatever the others do.
LeadServed == \A l \in Leads : user[l] = "waiting" ~> user[l] # "waiting" \/ AllKept
=============================================================================
