------------------------------ MODULE SeatPool ------------------------------
(***************************************************************************)
(* The control plane's pool of vendor seats (seats/pool.py), for one       *)
(* (tenant, vendor) key: different keys share nothing.  A parent agent     *)
(* acquires a seat, its subagents share it by reference counting, and the  *)
(* last reference puts it back into an asyncio.Queue.                      *)
(*                                                                         *)
(* asyncio.Queue: get() takes the head without suspending when there is    *)
(* one, otherwise the caller waits; put_nowait() wakes the first waiter,   *)
(* which tests the queue again when it runs.                               *)
(***************************************************************************)
EXTENDS Integers, Sequences

CONSTANTS
    Users,           \* calls of acquire(), each with its later release()
    Seats, NoSeat,
    Refreshable,     \* seats with a token provider
    ProviderFails,   \* whether a provider may raise or return no token
    MaxSubs          \* bound on the live subagents of a seat

ASSUME SeatAssumption ==
    /\ NoSeat \notin Seats
    /\ Refreshable \subseteq Seats
    /\ ProviderFails \in BOOLEAN
    /\ MaxSubs \in Nat

VARIABLES
    registered,
    queue,      \* pools[key], the free seats
    getters,    \* suspended get() calls, oldest first
    woken,      \* getters whose future is set and which have not run yet
    ref,        \* ref_count
    expired,    \* seats whose lease_expiry has passed
    user,       \* progress of each call
    lease,      \* the seat that acquire returned
    subs        \* subagents that hold a reference to the seat
vars == <<registered, queue, getters, woken, ref, expired, user, lease, subs>>

Phases == {"new", "waiting", "holding", "failed", "done"}
Holding(u, s) == user[u] = "holding" /\ lease[u] = s
Held(s) == \E u \in Users : Holding(u, s)
Queued(s) == \E i \in DOMAIN queue : queue[i] = s

Init ==
    /\ registered = {}
    /\ queue = <<>> /\ getters = <<>> /\ woken = {}
    /\ ref = [s \in Seats |-> 0]
    /\ expired \in SUBSET Seats
    /\ user = [u \in Users |-> "new"]
    /\ lease = [u \in Users |-> NoSeat]
    /\ subs = [s \in Seats |-> 0]

-----------------------------------------------------------------------------
(* asyncio.Queue.                                                          *)

\* Mutant: the seat is put back and nobody is told.
Put_NoWake(s) == queue' = Append(queue, s) /\ UNCHANGED <<getters, woken>>
Put(s) ==
    /\ queue' = Append(queue, s)
    /\ IF getters = <<>>
       THEN UNCHANGED <<getters, woken>>
       ELSE getters' = Tail(getters) /\ woken' = woken \cup {Head(getters)}

Suspend(u) ==
    /\ getters' = Append(getters, u)
    /\ user' = [user EXCEPT ![u] = "waiting"]
    /\ UNCHANGED <<queue, ref, expired, lease>>

-----------------------------------------------------------------------------
\* The rest of acquire() once the queue has an item.  refresh_token raises
\* after the seat has left the queue and its reference was counted.
Take(u) ==
    LET s == Head(queue) IN
    /\ queue' = Tail(queue)
    /\ ref' = [ref EXCEPT ![s] = @ + 1]
    /\ UNCHANGED getters
    /\ \/ /\ s \in expired => s \in Refreshable
          /\ expired' = expired \ {s}
          /\ user' = [user EXCEPT ![u] = "holding"]
          /\ lease' = [lease EXCEPT ![u] = s]
       \/ /\ s \in expired
          /\ s \in Refreshable => ProviderFails
          /\ user' = [user EXCEPT ![u] = "failed"]
          /\ UNCHANGED <<expired, lease>>

GetOrWait(u) == IF queue # <<>> THEN Take(u) ELSE Suspend(u)

RegisterSeat(s) ==
    /\ s \notin registered
    /\ registered' = registered \cup {s}
    /\ Put(s)
    /\ UNCHANGED <<ref, expired, user, lease, subs>>

\* A caller whose acquire raised may try again.
Acquire(u) ==
    /\ user[u] \in {"new", "failed"}
    /\ GetOrWait(u)
    /\ UNCHANGED <<registered, woken, subs>>

Wake(u) ==
    /\ u \in woken
    /\ woken' = woken \ {u}
    /\ GetOrWait(u)
    /\ UNCHANGED <<registered, subs>>

\* Mutant: a subagent uses the parent's seat without counting.
AcquireSubagent_Uncounted(u) ==
    /\ user[u] = "holding" /\ ref[lease[u]] > 0 /\ subs[lease[u]] < MaxSubs
    /\ subs' = [subs EXCEPT ![lease[u]] = @ + 1]
    /\ UNCHANGED <<registered, queue, getters, woken, ref, expired, user, lease>>
AcquireSubagent(u) ==
    /\ user[u] = "holding" /\ ref[lease[u]] > 0 /\ subs[lease[u]] < MaxSubs
    /\ ref' = [ref EXCEPT ![lease[u]] = @ + 1]
    /\ subs' = [subs EXCEPT ![lease[u]] = @ + 1]
    /\ UNCHANGED <<registered, queue, getters, woken, expired, user, lease>>

\* Mutant: the seat is never put back.
Release_Never(s) ==
    ref' = [ref EXCEPT ![s] = IF @ > 0 THEN @ - 1 ELSE @] /\ UNCHANGED <<queue, getters, woken>>
Release(s) ==
    /\ ref' = [ref EXCEPT ![s] = IF @ > 0 THEN @ - 1 ELSE @]
    /\ IF ref'[s] = 0 THEN Put(s) ELSE UNCHANGED <<queue, getters, woken>>

ReleaseParent(u) ==
    /\ user[u] = "holding"
    /\ user' = [user EXCEPT ![u] = "done"]
    /\ Release(lease[u])
    /\ UNCHANGED <<registered, expired, lease, subs>>

ReleaseSubagent(s) ==
    /\ subs[s] > 0
    /\ subs' = [subs EXCEPT ![s] = @ - 1]
    /\ Release(s)
    /\ UNCHANGED <<registered, expired, user, lease>>

\* token_lifetime seconds have passed since the last refresh.
TokenExpires(s) ==
    /\ s \notin expired
    /\ expired' = expired \cup {s}
    /\ UNCHANGED <<registered, queue, getters, woken, ref, user, lease, subs>>

Next ==
    \/ \E s \in Seats : RegisterSeat(s) \/ ReleaseSubagent(s) \/ TokenExpires(s)
    \/ \E u \in Users : Acquire(u) \/ Wake(u) \/ AcquireSubagent(u) \/ ReleaseParent(u)

Spec == Init /\ [][Next]_vars

\* The configured seats are registered at start-up, the event loop runs woken
\* coroutines, and agents and their subagents end and release what they hold.
FairSpec ==
    /\ Spec
    /\ \A s \in Seats : WF_vars(RegisterSeat(s)) /\ WF_vars(ReleaseSubagent(s))
    /\ \A u \in Users : WF_vars(Wake(u)) /\ WF_vars(ReleaseParent(u))

-----------------------------------------------------------------------------
(* Properties.                                                             *)

\* Every variable has its type.
TypeOK ==
    /\ registered \subseteq Seats
    /\ queue \in Seq(Seats)
    /\ getters \in Seq(Users)
    /\ woken \subseteq Users
    /\ ref \in [Seats -> Nat]
    /\ expired \subseteq Seats
    /\ user \in [Users -> Phases]
    /\ lease \in [Users -> Seats \cup {NoSeat}]
    /\ subs \in [Seats -> Nat]

\* Two parent agents never hold one seat (36-ROTACAO-CONTAS-TOKEN.md:109), and
\* a seat that an agent or a subagent still uses is not handed out.
ExclusiveLease ==
    /\ \A u, v \in Users : user[u] = "holding" /\ user[v] = "holding" /\ lease[u] = lease[v] => u = v
    /\ \A s \in Seats : Queued(s) => ~ Held(s) /\ subs[s] = 0

\* A seat that nobody uses is in the queue, once.
Returned(s) ==
    ~ Held(s) /\ subs[s] = 0 =>
        \E i \in DOMAIN queue : queue[i] = s /\ \A j \in DOMAIN queue : queue[j] = s => j = i

\* No registered seat is lost (pool.py:111).
SeatNotLost == \A s \in registered : Returned(s)

\* No seat whose token can be refreshed is lost, also when others are.
RefreshedSeatNotLost == \A s \in registered \cap Refreshable : Returned(s)

\* A call that waits for a seat comes back (pool.py:83): a wake-up is never lost,
\* even when another call takes the seat before the woken one runs.
WaiterServed == \A u \in Users : user[u] = "waiting" ~> user[u] # "waiting"
=============================================================================
