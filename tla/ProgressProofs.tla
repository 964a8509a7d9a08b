---------------------------- MODULE ProgressProofs ----------------------------
(***************************************************************************)
(* The services in which something must go on, for all values of their     *)
(* constants.                                                              *)
(*                                                                         *)
(* Leads: a seat is handed out when nobody has a reference to it (the      *)
(* invariant of SeatPool); the number of references that subagents hold is *)
(* the number of tasks fanned out on the seat (Counted); so the tasks on a *)
(* seat all come from the plan of the lead that has it or had it last      *)
(* (Apart).                                                                *)
(*                                                                         *)
(* Workflows: the order that the sort returns puts every step after all it *)
(* depends on (SortSorts), by induction over the rounds of its loop; so    *)
(* the step at work is the only one that has begun and not ended           *)
(* (FlowPlan), and when it fails, what depends on it has not begun and is  *)
(* skipped (DownstreamIs).                                                 *)
(*                                                                         *)
(* Dispatches over a socket or a terminal, sandboxed jobs, websockets and  *)
(* the roster have inductive invariants of their own; a step of the        *)
(* services together is one of a single service (WorkSteps).               *)
(***************************************************************************)
EXTENDS MCProgress, Integers, FiniteSetTheorems, SequenceTheorems, WellFoundedInduction, TLAPS

\* The lemmas of the pool, for the leads' pool.
P == INSTANCE SeatPoolProofs WITH Users <- Leads, Refreshable <- Seats, ProviderFails <- FALSE,
                                  MaxSubs <- Cardinality(Tasks)

\* The planner makes its tasks anew: no task is in the plans of two leads.
PlansApart ==
    \A l, m \in Leads : \A i \in DOMAIN Plan[l], j \in DOMAIN Plan[m] : Plan[l][i] = Plan[m][j] => l = m

InPlan(l, t) == \E i \in DOMAIN Plan[l] : Plan[l][i] = t

\* Each task fanned out has taken a reference to its lead's seat.
OnSeat(s) == {t \in Tasks : FannedOut(t) /\ seatOf[t] = s}

LeadTypes ==
    /\ at \in [Tasks -> Sched!Stages]
    /\ seatOf \in [Tasks -> Seats \cup {NoSeat}]
    /\ pc \in [Leads -> {"idle", "fanout", "awaiting", "returned", "raised"}]
    /\ next \in [Leads -> Nat \ {0}]

\* A lead that awaits dispatch() has an admitted task of its plan in hand.
Awaited ==
    \A l \in Leads : pc[l] = "awaiting" => next[l] \in DOMAIN Plan[l] /\ at[Current(l)] = "admitted"

Counted == \A s \in Seats : IsFiniteSet(OnSeat(s)) /\ subs[s] = Cardinality(OnSeat(s))

Apart ==
    /\ \A t \in Tasks : FannedOut(t) => seatOf[t] \in Seats
    /\ \A l \in Leads, t \in Tasks :
         user[l] = "holding" /\ FannedOut(t) /\ seatOf[t] = lease[l] => InPlan(l, t)
    /\ \A t, u \in Tasks :
         FannedOut(t) /\ FannedOut(u) /\ seatOf[t] = seatOf[u] => \E l \in Leads : InPlan(l, t) /\ InPlan(l, u)

Inv == P!Inv /\ LeadTypes /\ Awaited /\ Counted /\ Apart

-----------------------------------------------------------------------------
(* The steps, as the pool sees them.                                       *)

\* The task in hand is a task of the lead's plan.
LEMMA CurrentTask ==
    ASSUME TechLeadAssumption, LeadTypes, NEW l \in Leads, next[l] <= Len(Plan[l])
    PROVE  next[l] \in DOMAIN Plan[l] /\ Current(l) \in Tasks /\ InPlan(l, Current(l))
<1>1. Plan[l] \in Seq(Tasks) /\ next[l] \in Nat \ {0}
  BY DEF TechLeadAssumption, LeadTypes
<1>2. next[l] \in DOMAIN Plan[l]
  BY <1>1
<1> QED
  BY <1>1, <1>2 DEF Current, InPlan

\* What the pool assumes of its constants.
LEMMA PoolAssumption == TechLeadAssumption => NoSeat \notin Seats /\ Cardinality(Tasks) \in Nat
BY FS_CardinalityType DEF TechLeadAssumption

\* Every step is a step of the pool, or leaves the pool alone.
LEMMA PoolStep == LeadTypes /\ Apart /\ Next => [P!Next]_(P!vars)
<1> SUFFICES ASSUME LeadTypes, Apart, Next PROVE [P!Next]_(P!vars)
  OBVIOUS
<1>1. ASSUME NEW s \in Seats, Registers(s) \/ TokenExpires(s) PROVE P!Next
  <2>1. P!RegisterSeat(s) \/ P!TokenExpires(s)
    BY <1>1 DEF Registers, TokenExpires, Pool!RegisterSeat, P!RegisterSeat, Pool!TokenExpires, P!TokenExpires,
                Pool!Put, P!Put
  <2> QED
    BY <2>1 DEF P!Next
<1>2. ASSUME NEW l \in Leads, Acquires(l) \/ Wakes(l) PROVE P!Next
  <2>1. P!Acquire(l) \/ P!Wake(l)
    BY <1>2 DEF Acquires, Wakes, Pool!Acquire, P!Acquire, Pool!Wake, P!Wake, Pool!GetOrWait, P!GetOrWait,
                Pool!Take, P!Take, Pool!Suspend, P!Suspend
  <2> QED
    BY <2>1 DEF P!Next
<1>3. ASSUME NEW l \in Leads, Execute(l) \/ DispatchReturns(l) \/ Returned(l) PROVE UNCHANGED P!vars
  BY <1>3 DEF Execute, DispatchReturns, Returned, poolVars, P!vars
<1>4. ASSUME NEW l \in Leads, FanOut(l) PROVE P!Next
  <2>1. P!AcquireSubagent(l)
    BY <1>4 DEF FanOut, Pool!AcquireSubagent, P!AcquireSubagent
  <2> QED
    BY <2>1 DEF P!Next
<1>5. ASSUME NEW l \in Leads, LeadReleases(l) PROVE P!Next
  <2>1. P!ReleaseParent(l)
    BY <1>5 DEF LeadReleases, Pool!ReleaseParent, P!ReleaseParent, Pool!Release, P!Release, Pool!Put, P!Put
  <2> QED
    BY <2>1 DEF P!Next
<1> QED
  BY <1>1, <1>2, <1>3, <1>4, <1>5 DEF Next
\* Only the references of subagents and the tasks' stages and seats count.
Books == <<subs, at, seatOf>>

\* What is left alone by steps that neither take nor give back a subagent's
\* reference, when no new lead holds a seat.
LEMMA QuietStep ==
    ASSUME Counted, Apart, UNCHANGED Books,
           \A l \in Leads : user'[l] = "holding" => user[l] = "holding" /\ lease'[l] = lease[l]
    PROVE  Counted' /\ Apart'
<1>1. \A t \in Tasks : FannedOut(t)' = FannedOut(t)
  BY DEF Books, FannedOut
<1>2. \A s \in Seats : OnSeat(s)' = OnSeat(s)
  BY <1>1 DEF Books, OnSeat
<1>3. Counted'
  BY <1>2 DEF Books, Counted
<1> QED
  BY <1>1, <1>3 DEF Books, Apart, InPlan

\* A lead that gets a seat finds no task on it.
LEMMA SeatIsEmpty ==
    ASSUME Counted, NEW s \in Seats, subs[s] = 0, NEW t \in Tasks, FannedOut(t)
    PROVE  seatOf[t] # s
<1>1. OnSeat(s) = {}
  BY FS_EmptySet DEF Counted
<1> QED
  BY <1>1 DEF OnSeat

LEMMA AcquireStep ==
    ASSUME TechLeadAssumption, Inv, NEW l \in Leads, Acquires(l) \/ Wakes(l)
    PROVE  Counted' /\ Apart'
<1>1. P!Acquire(l) \/ P!Wake(l)
  BY DEF Acquires, Wakes, Pool!Acquire, P!Acquire, Pool!Wake, P!Wake, Pool!GetOrWait, P!GetOrWait,
         Pool!Take, P!Take, Pool!Suspend, P!Suspend
<1>2. /\ subs' = subs
      /\ \A m \in Leads : m # l => user'[m] = user[m] /\ lease'[m] = lease[m]
      /\ user'[l] = "holding" => lease'[l] \in Seats /\ subs[lease'[l]] = 0
  BY <1>1, PoolAssumption, P!AcquiredIsFree DEF Inv
<1>3. UNCHANGED Books
  BY <1>2 DEF Acquires, Wakes, Books, schedVars, leadVars
<1>4. \A t \in Tasks : FannedOut(t)' = FannedOut(t) /\ seatOf'[t] = seatOf[t]
  BY <1>3 DEF Books, FannedOut
<1>5. \A s \in Seats : OnSeat(s)' = OnSeat(s)
  BY <1>4 DEF OnSeat
<1>6. Counted'
  BY <1>2, <1>5 DEF Inv, Counted
<1>7. ASSUME NEW m \in Leads, NEW t \in Tasks, user'[m] = "holding", FannedOut(t), seatOf[t] = lease'[m]
      PROVE  InPlan(m, t)
  <2>1. CASE m = l
    BY <1>2, <1>7, <2>1, SeatIsEmpty DEF Inv
  <2>2. CASE m # l
    BY <1>2, <1>7, <2>2 DEF Inv, Apart
  <2> QED
    BY <2>1, <2>2
<1>8. Apart'
  <2>1. Apart
    BY DEF Inv
  <2>2. \A t \in Tasks : FannedOut(t)' => seatOf'[t] \in Seats
    BY <1>4, <2>1 DEF Apart
  <2>3. \A t, u \in Tasks :
          FannedOut(t)' /\ FannedOut(u)' /\ seatOf'[t] = seatOf'[u] => \E m \in Leads : InPlan(m, t) /\ InPlan(m, u)
    BY <1>4, <2>1 DEF Apart
  <2>4. \A m \in Leads, t \in Tasks :
          user'[m] = "holding" /\ FannedOut(t)' /\ seatOf'[t] = lease'[m] => InPlan(m, t)
    BY <1>4, <1>7
  <2> QED
    BY <2>2, <2>3, <2>4 DEF Apart, InPlan
<1> QED
  BY <1>6, <1>8

\* A pass of the loop: the task in hand, which was new, takes a reference.
LEMMA FanOutStep ==
    ASSUME TechLeadAssumption, Inv, NEW l \in Leads, FanOut(l)
    PROVE  LeadTypes' /\ Awaited' /\ Counted' /\ Apart'
<1>1. PICK c \in Tasks : c = Current(l) /\ next[l] \in DOMAIN Plan[l] /\ InPlan(l, c)
  BY CurrentTask DEF FanOut, Inv
<1>0. user[l] = "holding" /\ lease[l] \in Seats
  BY DEF FanOut, Pool!AcquireSubagent, Inv, P!Inv, P!Leased
<1>4. PICK r \in Seats : r = lease[l]
  BY <1>0
<1>2. /\ user[l] = "holding" /\ subs' = [subs EXCEPT ![r] = @ + 1]
      /\ user' = user /\ lease' = lease
  BY <1>4 DEF FanOut, Pool!AcquireSubagent
<1>3. /\ at[c] = "new"
      /\ at' = [at EXCEPT ![c] = "admitted"] \/ at' = [at EXCEPT ![c] = "queued"]
      /\ seatOf' = [seatOf EXCEPT ![c] = r]
  BY <1>1, <1>4 DEF FanOut, Sched!Admit
<1>5. \A t \in Tasks : IF t = c THEN at[t] = "new" /\ at'[t] \in {"admitted", "queued"} /\ seatOf'[t] = r
                       ELSE at'[t] = at[t] /\ seatOf'[t] = seatOf[t]
  BY <1>1, <1>3 DEF Inv, LeadTypes
<1>6. ~ FannedOut(c) /\ FannedOut(c)' /\ \A t \in Tasks : t # c => FannedOut(t)' = FannedOut(t)
  BY <1>1, <1>5 DEF FannedOut
<1>7. LeadTypes'
  <2>1. at' \in [Tasks -> Sched!Stages]
    BY <1>3 DEF Inv, LeadTypes, Sched!Stages
  <2>2. seatOf' \in [Tasks -> Seats \cup {NoSeat}]
    BY <1>3 DEF Inv, LeadTypes
  <2>3. \/ pc' = [pc EXCEPT ![l] = "awaiting"] /\ next' = next
        \/ pc' = pc /\ next' = [next EXCEPT ![l] = @ + 1]
    BY DEF FanOut
  <2>5. /\ pc \in [Leads -> {"idle", "fanout", "awaiting", "returned", "raised"}]
        /\ next \in [Leads -> Nat \ {0}]
    BY DEF Inv, LeadTypes
  <2>4. pc' \in [Leads -> {"idle", "fanout", "awaiting", "returned", "raised"}]
    BY <2>3, <2>5
  <2>6. next[l] + 1 \in Nat \ {0}
    BY <2>5
  <2>7. next' \in [Leads -> Nat \ {0}]
    BY <2>3, <2>5, <2>6
  <2> QED
    BY <2>1, <2>2, <2>4, <2>7 DEF LeadTypes
<1>8. Awaited'
  <2>1. \A m \in Leads : m # l => pc'[m] = pc[m] /\ next'[m] = next[m]
    BY DEF FanOut, Inv, LeadTypes
  <2>2. pc'[l] = "awaiting" => next' = next /\ at'[c] = "admitted"
    BY <1>1 DEF FanOut, Inv, LeadTypes
  <2>3. ASSUME NEW m \in Leads, pc'[m] = "awaiting"
        PROVE  next'[m] \in DOMAIN Plan[m] /\ at'[Current(m)'] = "admitted"
    <3>1. CASE m = l
      BY <1>1, <2>2, <2>3, <3>1 DEF Current
    <3>2. CASE m # l
      <4>1. next'[m] = next[m] /\ next[m] \in DOMAIN Plan[m] /\ at[Current(m)] = "admitted"
        BY <2>1, <2>3, <3>2 DEF Inv, Awaited
      <4>2. Current(m) \in Tasks
        BY <4>1 DEF TechLeadAssumption, Current
      <4> QED
        BY <1>5, <4>1, <4>2 DEF Current
    <3> QED
      BY <3>1, <3>2
  <2> QED
    BY <2>3 DEF Awaited
<1>9. Counted'
  <2>1. OnSeat(r)' = OnSeat(r) \cup {c} /\ c \notin OnSeat(r)
    BY <1>1, <1>5, <1>6 DEF OnSeat
  <2>2. \A s \in Seats : s # r => OnSeat(s)' = OnSeat(s)
    BY <1>1, <1>5, <1>6 DEF OnSeat
  <2>3. IsFiniteSet(OnSeat(r)) /\ subs[r] = Cardinality(OnSeat(r))
    BY <1>4 DEF Inv, Counted
  <2>4. IsFiniteSet(OnSeat(r)') /\ Cardinality(OnSeat(r)') = Cardinality(OnSeat(r)) + 1
    BY <2>1, <2>3, FS_AddElement
  <2>5. subs \in [Seats -> Nat]
    BY DEF Inv, P!Inv, P!TypeOK
  <2> QED
    BY <1>2, <1>4, <2>2, <2>3, <2>4, <2>5 DEF Inv, Counted
<1>10. Apart'
  <2>1. \A m \in Leads : user[m] = "holding" /\ lease[m] = r => m = l
    BY <1>2, <1>4 DEF Inv, P!Inv, P!Leased
  <2>2. \A t \in Tasks : FannedOut(t) /\ seatOf[t] = r => InPlan(l, t)
    BY <1>2, <1>4 DEF Inv, Apart
  <2>3. \A t \in Tasks : FannedOut(t)' => seatOf'[t] \in Seats
    BY <1>4, <1>5, <1>6 DEF Inv, Apart
  <2>4. ASSUME NEW m \in Leads, NEW t \in Tasks, user[m] = "holding", FannedOut(t)', seatOf'[t] = lease[m]
        PROVE  InPlan(m, t)
    <3>1. CASE t = c
      BY <1>1, <1>5, <2>1, <2>4, <3>1
    <3>2. CASE t # c
      BY <1>5, <1>6, <2>4, <3>2 DEF Inv, Apart
    <3> QED
      BY <3>1, <3>2
  <2>5. ASSUME NEW t \in Tasks, NEW u \in Tasks, FannedOut(t)', FannedOut(u)', seatOf'[t] = seatOf'[u]
        PROVE  \E m \in Leads : InPlan(m, t) /\ InPlan(m, u)
    <3>1. CASE t # c /\ u # c
      BY <1>5, <1>6, <2>5, <3>1 DEF Inv, Apart
    <3>2. CASE t = c \/ u = c
      <4>1. seatOf'[t] = r /\ seatOf'[u] = r
        BY <1>5, <2>5, <3>2
      <4>2. InPlan(l, t) /\ InPlan(l, u)
        BY <1>1, <1>5, <1>6, <2>2, <2>5, <4>1
      <4> QED
        BY <4>2
    <3> QED
      BY <3>1, <3>2
  <2>6. \A m \in Leads, t \in Tasks :
          user'[m] = "holding" /\ FannedOut(t)' /\ seatOf'[t] = lease'[m] => InPlan(m, t)
    BY <1>2, <2>4
  <2> QED
    BY <2>3, <2>5, <2>6 DEF Apart, InPlan
<1> QED
  BY <1>7, <1>8, <1>9, <1>10

\* dispatch() returns or raises: the task in hand keeps its reference.
LEMMA ReturnStep ==
    ASSUME TechLeadAssumption, PlansApart, Inv, NEW l \in Leads, DispatchReturns(l)
    PROVE  LeadTypes' /\ Awaited' /\ Counted' /\ Apart'
<1> DEFINE c == Current(l)
<1>1. next[l] \in DOMAIN Plan[l] /\ at[c] = "admitted" /\ c \in Tasks
  BY DEF DispatchReturns, Inv, Awaited, TechLeadAssumption, Current
<1>2. /\ at' = [at EXCEPT ![c] = "calling"] \/ at' = [at EXCEPT ![c] = "raised"]
      /\ subs' = subs /\ user' = user /\ lease' = lease /\ seatOf' = seatOf
  BY DEF DispatchReturns, poolVars
<1>3. \A t \in Tasks : FannedOut(t)' = FannedOut(t)
  BY <1>1, <1>2 DEF FannedOut, Inv, LeadTypes
<1>4. LeadTypes'
  <2>1. LeadTypes
    BY DEF Inv
  <2>2. at' \in [Tasks -> Sched!Stages] /\ seatOf' \in [Tasks -> Seats \cup {NoSeat}]
    BY <1>2, <2>1 DEF LeadTypes, Sched!Stages
  <2>3. \/ pc' = [pc EXCEPT ![l] = "fanout"] /\ next' = [next EXCEPT ![l] = @ + 1]
        \/ pc' = [pc EXCEPT ![l] = "raised"] /\ next' = next
    BY DEF DispatchReturns
  <2>4. pc' \in [Leads -> {"idle", "fanout", "awaiting", "returned", "raised"}]
    BY <2>1, <2>3 DEF LeadTypes
  <2>5. next \in [Leads -> Nat \ {0}] /\ next[l] + 1 \in Nat \ {0}
    BY <2>1 DEF LeadTypes
  <2>6. next' \in [Leads -> Nat \ {0}]
    BY <2>3, <2>5
  <2> QED
    BY <2>2, <2>4, <2>6 DEF LeadTypes
<1>5. Awaited'
  <2>1. pc'[l] # "awaiting" /\ \A m \in Leads : m # l => pc'[m] = pc[m] /\ next'[m] = next[m]
    BY DEF DispatchReturns, Inv, LeadTypes
  <2>2. ASSUME NEW m \in Leads, pc'[m] = "awaiting"
        PROVE  next'[m] \in DOMAIN Plan[m] /\ at'[Current(m)'] = "admitted"
    <3>1. m # l /\ next'[m] = next[m] /\ next[m] \in DOMAIN Plan[m] /\ at[Current(m)] = "admitted"
      BY <2>1, <2>2 DEF Inv, Awaited
    <3>2. Current(m) # c /\ Current(m) \in Tasks
      BY <1>1, <3>1 DEF PlansApart, TechLeadAssumption, Current
    <3> QED
      BY <1>2, <3>1, <3>2 DEF Current, Inv, LeadTypes
  <2> QED
    BY <2>2 DEF Awaited
<1>6. Counted'
  <2>1. \A s \in Seats : OnSeat(s)' = OnSeat(s)
    BY <1>2, <1>3 DEF OnSeat
  <2> QED
    BY <1>2, <2>1 DEF Inv, Counted
<1>7. Apart'
  BY <1>2, <1>3 DEF Inv, Apart, InPlan
<1> QED
  BY <1>4, <1>5, <1>6, <1>7

-----------------------------------------------------------------------------
LEMMA InitInv == TechLeadAssumption /\ Init => Inv
<1> SUFFICES ASSUME TechLeadAssumption, Init PROVE Inv
  OBVIOUS
<1>1. P!Inv
  BY DEF Init, Pool!Init, P!Inv, P!TypeOK, P!QueueIsFree, P!Counted, P!Leased, P!Phases, P!Held, P!Holding
<1>2. at \in [Tasks -> Sched!Stages] /\ \A t \in Tasks : at[t] = "new"
  BY DEF Init, Sched!Init, Sched!Stages
<1>3. LeadTypes /\ Awaited
  BY <1>2 DEF Init, LeadTypes, Awaited
<1>4. \A s \in Seats : OnSeat(s) = {} /\ subs[s] = 0
  BY <1>2 DEF Init, Pool!Init, OnSeat, FannedOut
<1>5. Counted
  BY <1>4, FS_EmptySet DEF Counted
<1>6. Apart
  BY <1>2 DEF Apart, FannedOut
<1> QED
  BY <1>1, <1>3, <1>5, <1>6 DEF Inv

\* Every step preserves the invariant.
LEMMA NextInv == TechLeadAssumption /\ PlansApart /\ Inv /\ [Next]_vars => Inv'
<1> SUFFICES ASSUME TechLeadAssumption, PlansApart, Inv, [Next]_vars PROVE Inv'
  OBVIOUS
<1>0. [P!Next]_(P!vars)
  BY PoolStep DEF Inv, vars, poolVars, P!vars
<1>a. P!Inv'
  BY <1>0, PoolAssumption, P!NextInv DEF Inv
<1> SUFFICES LeadTypes' /\ Awaited' /\ Counted' /\ Apart'
  BY <1>a DEF Inv
<1>1. ASSUME NEW s \in Seats, Registers(s) \/ TokenExpires(s)
      PROVE  LeadTypes' /\ Awaited' /\ Counted' /\ Apart'
  <2>1. UNCHANGED Books /\ UNCHANGED <<pc, next>> /\ user' = user /\ lease' = lease
    BY <1>1 DEF Registers, TokenExpires, Pool!RegisterSeat, Pool!TokenExpires, Books, schedVars, leadVars
  <2>2. LeadTypes' /\ Awaited'
    BY <2>1 DEF Inv, LeadTypes, Awaited, Current, Books
  <2> QED
    BY <2>1, <2>2, QuietStep DEF Inv
<1>2. ASSUME NEW l \in Leads, Acquires(l) \/ Wakes(l)
      PROVE  LeadTypes' /\ Awaited' /\ Counted' /\ Apart'
  <2>1. LeadTypes' /\ Awaited'
    BY <1>2 DEF Acquires, Wakes, schedVars, leadVars, Inv, LeadTypes, Awaited, Current
  <2> QED
    BY <1>2, <2>1, AcquireStep
<1>3. ASSUME NEW l \in Leads, Execute(l) \/ Returned(l)
      PROVE  LeadTypes' /\ Awaited' /\ Counted' /\ Apart'
  <2>1. UNCHANGED Books /\ next' = next /\ user' = user /\ lease' = lease
    BY <1>3 DEF Execute, Returned, poolVars, schedVars, Books
  <2>2. /\ pc' \in [Leads -> {"idle", "fanout", "awaiting", "returned", "raised"}]
        /\ \A m \in Leads : pc'[m] = "awaiting" => pc[m] = "awaiting"
    BY <1>3 DEF Execute, Returned, Inv, LeadTypes
  <2>3. LeadTypes' /\ Awaited'
    BY <2>1, <2>2 DEF Inv, LeadTypes, Awaited, Current, Books
  <2> QED
    BY <2>1, <2>3, QuietStep DEF Inv
<1>4. ASSUME NEW l \in Leads, LeadReleases(l)
      PROVE  LeadTypes' /\ Awaited' /\ Counted' /\ Apart'
  <2>1. UNCHANGED Books /\ UNCHANGED <<pc, next>> /\ lease' = lease /\ user' = [user EXCEPT ![l] = "done"]
    BY <1>4 DEF LeadReleases, Pool!ReleaseParent, schedVars, leadVars, Books
  <2>2. \A m \in Leads : user'[m] = "holding" => user[m] = "holding"
    BY <2>1 DEF Inv, P!Inv, P!TypeOK
  <2>3. LeadTypes' /\ Awaited'
    BY <2>1 DEF Inv, LeadTypes, Awaited, Current, Books
  <2> QED
    BY <2>1, <2>2, <2>3, QuietStep DEF Inv
<1>5. CASE UNCHANGED vars
  <2>1. UNCHANGED Books /\ UNCHANGED <<pc, next>> /\ user' = user /\ lease' = lease
    BY <1>5 DEF vars, poolVars, schedVars, leadVars, Books
  <2>2. LeadTypes' /\ Awaited'
    BY <2>1 DEF Inv, LeadTypes, Awaited, Current, Books
  <2> QED
    BY <2>1, <2>2, QuietStep DEF Inv
<1> QED
  BY <1>1, <1>2, <1>3, <1>4, <1>5, FanOutStep, ReturnStep DEF Next

\* Tasks of different leads never carry one seat's credentials, and no lead is
\* given a seat that another lead's task carries: neither leads that release
\* while their tasks keep the seat nor tasks whose dispatch raised break that
\* (techlead.py:145-158, seats/pool.py:83-111).
THEOREM LeadsCredentialsApart ==
    TechLeadAssumption /\ PlansApart => (Spec => []CredentialsApart)
<1> SUFFICES ASSUME TechLeadAssumption, PlansApart PROVE Spec => []CredentialsApart
  OBVIOUS
<1>1. (Init => Inv) /\ (Inv /\ [Next]_vars => Inv')
  BY InitInv, NextInv
<1>2. Inv => CredentialsApart
  <2> SUFFICES ASSUME Inv PROVE CredentialsApart
    OBVIOUS
  <2>2. \A l \in Leads, t \in Tasks :
          user[l] = "holding" /\ FannedOut(t) /\ seatOf[t] = lease[l] => \E i \in DOMAIN Plan[l] : Plan[l][i] = t
    BY DEF Inv, Apart, InPlan
  <2>3. ASSUME NEW l \in Leads, NEW m \in Leads, NEW i \in DOMAIN Plan[l], NEW j \in DOMAIN Plan[m],
               FannedOut(Plan[l][i]), FannedOut(Plan[m][j]), seatOf[Plan[l][i]] = seatOf[Plan[m][j]]
        PROVE  l = m
    <3>1. Plan[l][i] \in Tasks /\ Plan[m][j] \in Tasks
      BY DEF TechLeadAssumption
    <3>2. PICK k \in Leads : InPlan(k, Plan[l][i]) /\ InPlan(k, Plan[m][j])
      BY <2>3, <3>1 DEF Inv, Apart
    <3> QED
      BY <3>2 DEF PlansApart, InPlan
  <2> QED
    BY <2>2, <2>3 DEF CredentialsApart
<1> QED
  BY <1>1, <1>2, PTL DEF Spec

\* Leads use the pool as any caller may: what they do to it is a behaviour of
\* SeatPool whose providers do not fail, so its theorems hold of them
\* (techlead.py:96-158, seats/pool.py:70-150).
THEOREM LeadsFollowPool == TechLeadAssumption /\ PlansApart => (Spec => P!Spec)
<1> SUFFICES ASSUME TechLeadAssumption, PlansApart PROVE Spec => P!Spec
  OBVIOUS
<1>1. (Init => Inv) /\ (Inv /\ [Next]_vars => Inv')
  BY InitInv, NextInv
<1>2. Init => P!Init
  BY DEF Init, Pool!Init, P!Init
<1>3. Inv /\ [Next]_vars => [P!Next]_(P!vars)
  BY PoolStep DEF Inv, vars, poolVars, P!vars
<1> QED
  BY <1>1, <1>2, <1>3, PTL DEF Spec, P!Spec

-----------------------------------------------------------------------------
(* Naturals: the least of a set, and functions defined by recursion.       *)

\* A set of naturals that is not empty has a least one.
LEMMA LeastNat ==
    ASSUME NEW D \in SUBSET Nat, D # {}
    PROVE  \E x \in D : \A y \in D : x <= y
<1>1. PICK R : R = OpToRel(<, Nat)
  OBVIOUS
<1>2. IsWellFoundedOn(R, Nat)
  BY <1>1, NatLessThanWellFounded
<1>3. \E x \in D : \A y \in D : ~ (<<y, x>> \in R)
  <2>1. D \subseteq Nat
    OBVIOUS
  <2> QED
    BY <1>2, <2>1, WFMin
<1>4. PICK x \in D : \A y \in D : <<y, x>> \notin R
  BY <1>3
<1>5. ASSUME NEW y \in D PROVE x <= y
  <2>1. x \in Nat /\ y \in Nat
    OBVIOUS
  <2>2. y < x => <<y, x>> \in R
    BY <1>1, <2>1 DEF OpToRel
  <2> QED
    BY <1>4, <2>1, <2>2
<1> QED
  BY <1>4, <1>5

(* A function defined by recursion over the naturals, each value from the   *)
(* one before it: it exists, and so the recursive definition defines it.    *)
Recursive(g, D, a, h) ==
    /\ g \in [Nat -> D]
    /\ g = [n \in Nat |-> IF n = 0 THEN a ELSE h[<<n, g[n - 1]>>]]

\* Such a function up to n.
Approximates(g, n, D, a, h) ==
    /\ g \in [0 .. n -> D]
    /\ g[0] = a
    /\ \A i \in 1 .. n : g[i] = h[<<i, g[i - 1]>>]

LEMMA ApproximationExists ==
    ASSUME NEW D, NEW a \in D, NEW h \in [Nat \X D -> D], NEW n \in Nat
    PROVE  \E g : Approximates(g, n, D, a, h)
<1> SUFFICES ASSUME ~ \E g : Approximates(g, n, D, a, h) PROVE FALSE
  OBVIOUS
<1>1. PICK M : M = {m \in Nat : ~ \E g : Approximates(g, m, D, a, h)}
  OBVIOUS
<1>2. PICK m \in M : \A k \in M : m <= k
  <2>1. M \in SUBSET Nat /\ M # {}
    BY <1>1
  <2> QED
    BY <2>1, LeastNat
<1>3. m \in Nat /\ ~ \E g : Approximates(g, m, D, a, h)
  BY <1>1
<1>4. m # 0
  <2>1. PICK g : g = [i \in 0 .. 0 |-> a]
    OBVIOUS
  <2>2. Approximates(g, 0, D, a, h)
    BY <2>1 DEF Approximates
  <2> QED
    BY <1>3, <2>2
<1>5. m - 1 \in Nat /\ m - 1 \notin M
  BY <1>2, <1>3, <1>4
<1>6. PICK f : Approximates(f, m - 1, D, a, h)
  BY <1>1, <1>5
<1>7. h[<<m, f[m - 1]>>] \in D
  <2>1. f[m - 1] \in D
    BY <1>5, <1>6 DEF Approximates
  <2> QED
    BY <1>3, <2>1
<1>8. PICK g : g = [i \in 0 .. m |-> IF i = m THEN h[<<m, f[m - 1]>>] ELSE f[i]]
  OBVIOUS
<1>9. Approximates(g, m, D, a, h)
  <2>1. \A i \in 0 .. m - 1 : f[i] \in D
    BY <1>6 DEF Approximates
  <2>2. \A i \in 0 .. m : i # m => i \in 0 .. m - 1
    BY <1>3
  <2>3. g \in [0 .. m -> D]
    BY <1>7, <1>8, <2>1, <2>2
  <2>4. g[0] = a
    BY <1>3, <1>4, <1>6, <1>8 DEF Approximates
  <2>5. ASSUME NEW i \in 1 .. m PROVE g[i] = h[<<i, g[i - 1]>>]
    <3>1. g[i - 1] = f[i - 1]
      <4>1. i - 1 \in 0 .. m /\ i - 1 # m
        BY <1>3
      <4> QED
        BY <1>8, <4>1
    <3>2. CASE i = m
      <4>1. g[m] = h[<<m, f[m - 1]>>]
        BY <1>3, <1>8
      <4> QED
        BY <3>1, <3>2, <4>1
    <3>3. CASE i # m
      <4>1. i \in 1 .. m - 1 /\ i \in 0 .. m
        BY <1>3, <3>3
      <4>2. g[i] = f[i]
        BY <1>8, <3>3, <4>1
      <4> QED
        BY <1>6, <3>1, <4>1, <4>2 DEF Approximates
    <3> QED
      BY <3>2, <3>3
  <2> QED
    BY <2>3, <2>4, <2>5 DEF Approximates
<1> QED
  BY <1>3, <1>9

LEMMA ApproximationsAgree ==
    ASSUME NEW D, NEW a, NEW h, NEW m \in Nat, NEW n \in Nat, NEW f, NEW g,
           Approximates(f, m, D, a, h), Approximates(g, n, D, a, h), m <= n
    PROVE  f[m] = g[m]
<1> SUFFICES ASSUME f[m] # g[m] PROVE FALSE
  OBVIOUS
<1>1. PICK M : M = {k \in 0 .. m : f[k] # g[k]}
  OBVIOUS
<1>2. PICK k \in M : \A j \in M : k <= j
  <2>1. M \in SUBSET Nat /\ M # {}
    BY <1>1
  <2> QED
    BY <2>1, LeastNat
<1>3. k \in 0 .. m /\ f[k] # g[k]
  BY <1>1
<1>4. k # 0
  BY <1>3 DEF Approximates
<1>5. k - 1 \in 0 .. m /\ k - 1 \notin M
  BY <1>2, <1>3, <1>4
<1>6. f[k - 1] = g[k - 1]
  BY <1>1, <1>5
<1>7. k \in 1 .. m /\ k \in 1 .. n
  BY <1>3, <1>4
<1> QED
  BY <1>3, <1>6, <1>7 DEF Approximates

LEMMA RecursionExists ==
    ASSUME NEW D, NEW a \in D, NEW h \in [Nat \X D -> D]
    PROVE  \E g : Recursive(g, D, a, h)
<1>1. PICK f : f = [n \in Nat |-> CHOOSE g : Approximates(g, n, D, a, h)]
  OBVIOUS
<1>2. \A n \in Nat : Approximates(f[n], n, D, a, h)
  <2>1. ASSUME NEW n \in Nat PROVE Approximates(f[n], n, D, a, h)
    <3>1. \E g : Approximates(g, n, D, a, h)
      BY ApproximationExists
    <3>2. f[n] = CHOOSE g : Approximates(g, n, D, a, h)
      BY <1>1
    <3> QED
      BY <3>1, <3>2, Zenon
  <2> QED
    BY <2>1
<1>3. PICK g : g = [n \in Nat |-> f[n][n]]
  OBVIOUS
<1>4. g \in [Nat -> D]
  <2>1. ASSUME NEW n \in Nat PROVE f[n][n] \in D
    <3>1. f[n] \in [0 .. n -> D] /\ n \in 0 .. n
      BY <1>2 DEF Approximates
    <3> QED
      BY <3>1
  <2> QED
    BY <1>3, <2>1
<1>5. ASSUME NEW n \in Nat PROVE g[n] = IF n = 0 THEN a ELSE h[<<n, g[n - 1]>>]
  <2>1. CASE n = 0
    BY <1>2, <1>3, <2>1 DEF Approximates
  <2>2. CASE n # 0
    <3>1. n - 1 \in Nat /\ n \in 1 .. n /\ n - 1 <= n /\ n - 1 <= n - 1
      BY <2>2
    <3>2. f[n][n] = h[<<n, f[n][n - 1]>>]
      BY <1>2, <3>1 DEF Approximates
    <3>3. f[n][n - 1] = f[n - 1][n - 1]
      <4>1. PICK k \in Nat : k = n - 1
        BY <3>1
      <4>2. Approximates(f[n], n, D, a, h) /\ Approximates(f[k], k, D, a, h) /\ k <= n
        BY <1>2, <3>1, <4>1
      <4>3. PICK x, y : x = f[n] /\ y = f[k]
        OBVIOUS
      <4>4. Approximates(x, n, D, a, h) /\ Approximates(y, k, D, a, h)
        BY <4>2, <4>3
      <4>5. y[k] = x[k]
        BY <4>2, <4>4, ApproximationsAgree
      <4> QED
        BY <4>1, <4>3, <4>5
    <3> QED
      BY <1>3, <2>2, <3>1, <3>2, <3>3
  <2> QED
    BY <2>1, <2>2
<1>6. g = [n \in Nat |-> IF n = 0 THEN a ELSE h[<<n, g[n - 1]>>]]
  BY <1>4, <1>5
<1> QED
  BY <1>4, <1>6 DEF Recursive

(* Induction, for a set of naturals. *)
LEMMA Induction ==
    ASSUME NEW M \in SUBSET Nat, 0 \in M, \A n \in M : n + 1 \in M
    PROVE  \A n \in Nat : n \in M
<1> SUFFICES ASSUME NEW n \in Nat, n \notin M PROVE FALSE
  OBVIOUS
<1>1. PICK N : N = Nat \ M
  OBVIOUS
<1>2. PICK k \in N : \A j \in N : k <= j
  <2>1. N \in SUBSET Nat /\ N # {}
    BY <1>1
  <2> QED
    BY <2>1, LeastNat
<1>3. k \in Nat /\ k \notin M /\ k # 0
  BY <1>1
<1>4. k - 1 \in Nat /\ k - 1 \notin N
  BY <1>2, <1>3
<1>5. k - 1 \in M /\ k = (k - 1) + 1
  BY <1>1, <1>3, <1>4
<1> QED
  BY <1>3, <1>5

-----------------------------------------------------------------------------
(* ---- The queue of the sort ------------------------------------------- *)
Distinct(s) == \A i, j \in DOMAIN s : s[i] = s[j] => i = j

LEMMA ToSetIs == \A s : Flow!ToSet(s) = {s[i] : i \in DOMAIN s}
  BY DEF Flow!ToSet

LEMMA AppendIs ==
    ASSUME NEW D, NEW s \in Seq(D), NEW x \in D
    PROVE  /\ Append(s, x) \in Seq(D) /\ Len(Append(s, x)) = Len(s) + 1
           /\ DOMAIN Append(s, x) = 1 .. Len(s) + 1
           /\ \A i \in 1 .. Len(s) : Append(s, x)[i] = s[i]
           /\ Append(s, x)[Len(s) + 1] = x
  OBVIOUS

LEMMA TailIs ==
    ASSUME NEW D, NEW s \in Seq(D), s # <<>>
    PROVE  /\ Tail(s) \in Seq(D) /\ Len(Tail(s)) = Len(s) - 1
           /\ DOMAIN Tail(s) = 1 .. Len(s) - 1
           /\ \A i \in 1 .. Len(s) - 1 : Tail(s)[i] = s[i + 1]
  OBVIOUS

LEMMA QueueFunction ==
    ASSUME NEW f, NEW line \in Seq(Units), NEW E \in SUBSET Units
    PROVE  \E q : /\ q = [n \in Nat |-> IF n = 0 THEN line
                            ELSE IF f.order[n] \in E THEN Append(q[n - 1], f.order[n]) ELSE q[n - 1]]
                  /\ Flow!Queued(f, line, E) = q[Len(f.order)]
<1>1. PICK D : D = Seq(Units)
  OBVIOUS
<1>2. PICK h : h = [x \in Nat \X D |-> IF f.order[x[1]] \in E THEN Append(x[2], f.order[x[1]]) ELSE x[2]]
  OBVIOUS
<1>3. h \in [Nat \X D -> D]
  <2>1. ASSUME NEW n \in Nat, NEW s \in D
        PROVE  (IF f.order[n] \in E THEN Append(s, f.order[n]) ELSE s) \in D
    BY <1>1, AppendIs
  <2> QED
    BY <1>2, <2>1
<1>4. PICK g : Recursive(g, D, line, h)
  BY <1>1, <1>3, RecursionExists
<1>5. \A n \in Nat : g[n] = IF n = 0 THEN line
                            ELSE IF f.order[n] \in E THEN Append(g[n - 1], f.order[n]) ELSE g[n - 1]
  <2>1. ASSUME NEW n \in Nat, n # 0
        PROVE  g[n] = IF f.order[n] \in E THEN Append(g[n - 1], f.order[n]) ELSE g[n - 1]
    <3>1. n - 1 \in Nat /\ g[n] = h[<<n, g[n - 1]>>] /\ g[n - 1] \in D
      BY <1>4, <2>1 DEF Recursive
    <3> QED
      BY <1>2, <3>1
  <2>2. g[0] = line
    BY <1>4 DEF Recursive
  <2> QED
    BY <2>1, <2>2
<1>6. g = [n \in Nat |-> IF n = 0 THEN line
             ELSE IF f.order[n] \in E THEN Append(g[n - 1], f.order[n]) ELSE g[n - 1]]
  BY <1>4, <1>5 DEF Recursive
<1>7. PICK q : q = CHOOSE p : p = [n \in Nat |-> IF n = 0 THEN line
             ELSE IF f.order[n] \in E THEN Append(p[n - 1], f.order[n]) ELSE p[n - 1]]
  OBVIOUS
<1>8. q = [n \in Nat |-> IF n = 0 THEN line
             ELSE IF f.order[n] \in E THEN Append(q[n - 1], f.order[n]) ELSE q[n - 1]]
  BY <1>6, <1>7, Zenon
<1>9. Flow!Queued(f, line, E) = q[Len(f.order)]
  BY <1>7, Zenon DEF Flow!Queued
<1> QED
  BY <1>8, <1>9

\* Steps are queued once, and only those of the set.
LEMMA QueuedOnce ==
    ASSUME NEW f, Flow!FlowOK(f), NEW line \in Seq(Units), Distinct(line), NEW E \in SUBSET Units,
           \A i \in DOMAIN line : line[i] \notin E
    PROVE  /\ Flow!Queued(f, line, E) \in Seq(Units) /\ Distinct(Flow!Queued(f, line, E))
           /\ \A i \in DOMAIN Flow!Queued(f, line, E) :
                \/ \E j \in DOMAIN line : Flow!Queued(f, line, E)[i] = line[j]
                \/ /\ Flow!Queued(f, line, E)[i] \in E
                   /\ Flow!Queued(f, line, E)[i] \in Flow!ToSet(f.order)
<1>1. PICK order \in Seq(Units) : order = f.order /\ Distinct(order)
  BY DEF Flow!FlowOK, Distinct
<1>2. PICK q : /\ \A n \in Nat : q[n] = IF n = 0 THEN line
                    ELSE IF order[n] \in E THEN Append(q[n - 1], order[n]) ELSE q[n - 1]
               /\ Flow!Queued(f, line, E) = q[Len(order)]
  <2>1. PICK q : /\ q = [n \in Nat |-> IF n = 0 THEN line
                            ELSE IF f.order[n] \in E THEN Append(q[n - 1], f.order[n]) ELSE q[n - 1]]
                 /\ Flow!Queued(f, line, E) = q[Len(f.order)]
    BY QueueFunction
  <2> QED
    BY <1>1, <2>1
<1>3. PICK M : M = {n \in Nat : n <= Len(order) =>
                      /\ q[n] \in Seq(Units) /\ Distinct(q[n])
                      /\ \A i \in DOMAIN q[n] :
                           \/ \E j \in DOMAIN line : q[n][i] = line[j]
                           \/ q[n][i] \in E /\ \E j \in 1 .. n : q[n][i] = order[j]}
  OBVIOUS
<1>4. 0 \in M
  BY <1>2, <1>3
<1>5. ASSUME NEW n \in M PROVE n + 1 \in M
  <2> SUFFICES ASSUME n + 1 <= Len(order)
      PROVE  /\ q[n + 1] \in Seq(Units) /\ Distinct(q[n + 1])
             /\ \A i \in DOMAIN q[n + 1] :
                  \/ \E j \in DOMAIN line : q[n + 1][i] = line[j]
                  \/ q[n + 1][i] \in E /\ \E j \in 1 .. n + 1 : q[n + 1][i] = order[j]
    BY <1>3
  <2>1. n \in Nat /\ n + 1 \in Nat /\ n + 1 # 0 /\ (n + 1) - 1 = n /\ n <= Len(order) /\ n + 1 \in DOMAIN order
    BY <1>3
  <2>2. PICK s \in Seq(Units) : s = q[n]
    BY <1>3, <2>1
  <2>3. /\ Distinct(s)
        /\ \A i \in DOMAIN s : \/ \E j \in DOMAIN line : s[i] = line[j]
                               \/ s[i] \in E /\ \E j \in 1 .. n : s[i] = order[j]
    BY <1>3, <2>1, <2>2
  <2>4. PICK x \in Units : x = order[n + 1]
    BY <2>1
  <2>5. PICK r : r = q[n + 1]
    OBVIOUS
  <2>6. r = IF x \in E THEN Append(s, x) ELSE s
    <3>1. r = IF order[n + 1] \in E THEN Append(q[(n + 1) - 1], order[n + 1]) ELSE q[(n + 1) - 1]
      BY <1>2, <2>1, <2>5
    <3> QED
      BY <2>1, <2>2, <2>4, <3>1
  <2>7. CASE x \notin E
    <3>1. \A i \in DOMAIN s : \/ \E j \in DOMAIN line : s[i] = line[j]
                              \/ s[i] \in E /\ \E j \in 1 .. n + 1 : s[i] = order[j]
      <4>1. \A j \in 1 .. n : j \in 1 .. n + 1
        BY <2>1
      <4> QED
        BY <2>3, <4>1
    <3> QED
      BY <2>3, <2>5, <2>6, <2>7, <3>1
  <2>8. CASE x \in E
    <3>1. PICK l \in Nat : l = Len(s) /\ DOMAIN s = 1 .. l
      OBVIOUS
    <3>2. /\ r \in Seq(Units) /\ DOMAIN r = 1 .. l + 1
          /\ \A i \in 1 .. l : r[i] = s[i]
          /\ r[l + 1] = x
      BY <2>6, <2>8, <3>1, AppendIs
    <3>3. \A i \in 1 .. l : s[i] # x
      <4>1. ASSUME NEW i \in 1 .. l, s[i] = x PROVE FALSE
        <5>1. \A j \in DOMAIN line : s[i] # line[j]
          BY <2>8, <4>1
        <5>2. PICK j \in 1 .. n : s[i] = order[j]
          BY <2>3, <3>1, <5>1
        <5>3. j \in DOMAIN order /\ order[j] = order[n + 1] /\ j # n + 1
          BY <2>1, <2>4, <4>1, <5>2
        <5> QED
          BY <1>1, <2>1, <5>3 DEF Distinct
      <4> QED
        BY <4>1
    <3>4. Distinct(r)
      <4>1. ASSUME NEW i \in 1 .. l + 1, NEW j \in 1 .. l + 1, r[i] = r[j] PROVE i = j
        <5>1. CASE i \in 1 .. l /\ j \in 1 .. l
          BY <2>3, <3>1, <3>2, <4>1, <5>1 DEF Distinct
        <5>2. CASE i = l + 1 /\ j \in 1 .. l
          BY <3>2, <3>3, <4>1, <5>2
        <5>3. CASE i \in 1 .. l /\ j = l + 1
          BY <3>2, <3>3, <4>1, <5>3
        <5> QED
          BY <5>1, <5>2, <5>3
      <4> QED
        BY <3>2, <4>1 DEF Distinct
    <3>5. ASSUME NEW i \in 1 .. l + 1
          PROVE  \/ \E j \in DOMAIN line : r[i] = line[j]
                 \/ r[i] \in E /\ \E j \in 1 .. n + 1 : r[i] = order[j]
      <4>1. CASE i = l + 1
        <5>1. n + 1 \in 1 .. n + 1 /\ r[i] = order[n + 1]
          BY <2>1, <2>4, <3>2, <4>1
        <5> QED
          BY <2>8, <3>2, <4>1, <5>1
      <4>2. CASE i \in 1 .. l
        <5>1. \A j \in 1 .. n : j \in 1 .. n + 1
          BY <2>1
        <5> QED
          BY <2>3, <3>1, <3>2, <4>2, <5>1
      <4> QED
        BY <4>1, <4>2
    <3> QED
      BY <2>5, <3>2, <3>4, <3>5
  <2> QED
    BY <2>7, <2>8
<1>6. PICK k \in Nat : k = Len(order) /\ DOMAIN order = 1 .. k
  OBVIOUS
<1>7. k \in M
  BY <1>3, <1>4, <1>5, Induction
<1>8. PICK r : r = q[k]
  OBVIOUS
<1>9. /\ r \in Seq(Units) /\ Distinct(r)
      /\ \A i \in DOMAIN r : \/ \E j \in DOMAIN line : r[i] = line[j]
                             \/ r[i] \in E /\ \E j \in 1 .. k : r[i] = order[j]
  BY <1>3, <1>6, <1>7, <1>8
<1>10. \A x : (\E j \in 1 .. k : x = order[j]) => x \in Flow!ToSet(f.order)
  BY <1>1, <1>6, ToSetIs
<1>11. r = Flow!Queued(f, line, E)
  BY <1>2, <1>6, <1>8
<1> QED
  BY <1>9, <1>10, <1>11

LEMMA QueuedTyped ==
    ASSUME NEW f, Flow!FlowOK(f), NEW line \in Seq(Units), NEW E \in SUBSET Units
    PROVE  Flow!Queued(f, line, E) \in Seq(Units)
<1>1. PICK q : /\ q = [n \in Nat |-> IF n = 0 THEN line
                          ELSE IF f.order[n] \in E THEN Append(q[n - 1], f.order[n]) ELSE q[n - 1]]
               /\ Flow!Queued(f, line, E) = q[Len(f.order)]
  BY QueueFunction
<1>2. PICK M : M = {n \in Nat : q[n] \in Seq(Units)}
  OBVIOUS
<1>3. 0 \in M
  BY <1>1, <1>2
<1>4. ASSUME NEW n \in M PROVE n + 1 \in M
  <2>1. n \in Nat /\ n + 1 \in Nat /\ n + 1 # 0 /\ (n + 1) - 1 = n
    BY <1>2
  <2>2. PICK s \in Seq(Units) : s = q[n]
    BY <1>2
  <2>3. q[n + 1] = IF f.order[n + 1] \in E THEN Append(s, f.order[n + 1]) ELSE s
    BY <1>1, <2>1, <2>2
  <2>4. q[n + 1] \in Seq(Units)
    BY <2>3, AppendIs
  <2> QED
    BY <1>2, <2>1, <2>4
<1>5. Len(f.order) \in Nat
  BY DEF Flow!FlowOK
<1>6. Len(f.order) \in M
  BY <1>2, <1>3, <1>4, <1>5, Induction
<1> QED
  BY <1>1, <1>2, <1>6

(* ---- The sort -------------------------------------------------------- *)
\* Every step once, after all it depends on.
Sorted(f, o) ==
    /\ o \in Seq(Units) /\ Distinct(o)
    /\ \A i \in DOMAIN o : /\ o[i] \in Flow!ToSet(f.order)
                           /\ \A d \in f.deps[o[i]] : \E j \in DOMAIN o : j < i /\ o[j] = d
Sorting == [ordered : Seq(Units), queue : Seq(Units)]
Waits(f, o, line) ==
    /\ line \in Seq(Units) /\ Distinct(line)
    /\ \A i \in DOMAIN line : /\ line[i] \in Flow!ToSet(f.order)
                              /\ f.deps[line[i]] \subseteq Flow!ToSet(o)
                              /\ line[i] \notin Flow!ToSet(o)

LEMMA KahnTyped ==
    ASSUME NEW f, Flow!FlowOK(f), NEW st \in Sorting
    PROVE  Flow!KahnStep(f, st) \in Sorting
<1>1. CASE st.queue = <<>>
  BY <1>1 DEF Flow!KahnStep
<1>2. CASE st.queue # <<>>
  <2>1. /\ st.ordered \in Seq(Units) /\ st.queue \in Seq(Units)
        /\ Head(st.queue) \in Units /\ Tail(st.queue) \in Seq(Units)
    BY <1>2 DEF Sorting
  <2>2. PICK done \in Seq(Units) : done = Append(st.ordered, Head(st.queue))
    BY <2>1, AppendIs
  <2>3. PICK freed \in SUBSET Units :
          freed = {c \in Units : Head(st.queue) \in f.deps[c] /\ f.deps[c] \subseteq Flow!ToSet(done)}
    OBVIOUS
  <2>4. Flow!KahnStep(f, st) = [ordered |-> done, queue |-> Flow!Queued(f, Tail(st.queue), freed)]
    BY <1>2, <2>2, <2>3 DEF Flow!KahnStep
  <2>5. Flow!Queued(f, Tail(st.queue), freed) \in Seq(Units)
    BY <2>1, QueuedTyped
  <2> QED
    BY <2>4, <2>5 DEF Sorting
<1> QED
  BY <1>1, <1>2

LEMMA KahnSorts ==
    ASSUME NEW f, Flow!FlowOK(f), NEW st \in Sorting, Sorted(f, st.ordered), Waits(f, st.ordered, st.queue)
    PROVE  /\ Sorted(f, Flow!KahnStep(f, st).ordered)
           /\ Waits(f, Flow!KahnStep(f, st).ordered, Flow!KahnStep(f, st).queue)
<1>1. CASE st.queue = <<>>
  BY <1>1 DEF Flow!KahnStep
<1>2. CASE st.queue # <<>>
  <2>1. PICK o \in Seq(Units), line \in Seq(Units) : o = st.ordered /\ line = st.queue
    BY DEF Sorting
  <2>2. PICK l \in Nat, m \in Nat : l = Len(o) /\ DOMAIN o = 1 .. l /\ m = Len(line) /\ DOMAIN line = 1 .. m
    OBVIOUS
  <2>3. m >= 1
    BY <1>2, <2>1, <2>2
  <2>4. PICK x \in Units : x = Head(line) /\ x = line[1]
    BY <1>2, <2>1
  <2>5. PICK rest \in Seq(Units) : /\ rest = Tail(line) /\ DOMAIN rest = 1 .. m - 1
                                   /\ \A i \in 1 .. m - 1 : rest[i] = line[i + 1]
    <3>1. line # <<>>
      BY <1>2, <2>1
    <3>2. /\ Tail(line) \in Seq(Units) /\ DOMAIN Tail(line) = 1 .. m - 1
          /\ \A i \in 1 .. m - 1 : Tail(line)[i] = line[i + 1]
      BY <2>2, <3>1, TailIs
    <3> QED
      BY <3>2
  <2>6. PICK done \in Seq(Units) : /\ done = Append(o, x) /\ DOMAIN done = 1 .. l + 1
                                   /\ \A i \in 1 .. l : done[i] = o[i]
                                   /\ done[l + 1] = x
    BY <2>2, AppendIs
  <2>7. PICK freed \in SUBSET Units :
          freed = {c \in Units : x \in f.deps[c] /\ f.deps[c] \subseteq Flow!ToSet(done)}
    OBVIOUS
  <2>8. PICK later : later = Flow!Queued(f, rest, freed)
    OBVIOUS
  <2>9. Flow!KahnStep(f, st) = [ordered |-> done, queue |-> later]
    BY <1>2, <2>1, <2>4, <2>5, <2>6, <2>7, <2>8 DEF Flow!KahnStep
  <2>10. /\ Sorted(f, o) /\ Waits(f, o, line)
    BY <2>1
  <2>11. \A y : y \in Flow!ToSet(done) <=> y = x \/ y \in Flow!ToSet(o)
    <3>1. ASSUME NEW y, y \in Flow!ToSet(done) PROVE y = x \/ y \in Flow!ToSet(o)
      <4>1. PICK i \in 1 .. l + 1 : y = done[i]
        BY <2>6, <3>1, ToSetIs
      <4>2. CASE i = l + 1
        BY <2>6, <4>1, <4>2
      <4>3. CASE i \in 1 .. l
        BY <2>2, <2>6, <4>1, <4>3, ToSetIs
      <4> QED
        BY <4>2, <4>3
    <3>2. ASSUME NEW y, y = x \/ y \in Flow!ToSet(o) PROVE y \in Flow!ToSet(done)
      <4>1. CASE y = x
        <5>1. l + 1 \in 1 .. l + 1
          OBVIOUS
        <5> QED
          BY <2>6, <4>1, <5>1, ToSetIs
      <4>2. CASE y \in Flow!ToSet(o)
        <5>1. PICK i \in 1 .. l : y = o[i]
          BY <2>2, <4>2, ToSetIs
        <5>2. i \in 1 .. l + 1 /\ done[i] = y
          BY <2>6, <5>1
        <5> QED
          BY <2>6, <5>2, ToSetIs
      <4> QED
        BY <3>2, <4>1, <4>2
    <3> QED
      BY <3>1, <3>2
  <2>12. /\ x \in Flow!ToSet(f.order) /\ f.deps[x] \subseteq Flow!ToSet(o) /\ x \notin Flow!ToSet(o)
    BY <2>2, <2>3, <2>4, <2>10 DEF Waits
  <2>13. Distinct(done)
    <3>1. \A i \in 1 .. l : o[i] # x
      BY <2>2, <2>12, ToSetIs
    <3>2. ASSUME NEW i \in 1 .. l + 1, NEW j \in 1 .. l + 1, done[i] = done[j] PROVE i = j
      <4>1. CASE i \in 1 .. l /\ j \in 1 .. l
        <5>1. done[i] = o[i] /\ done[j] = o[j]
          BY <2>6, <4>1
        <5>2. \A a, b \in 1 .. l : o[a] = o[b] => a = b
          BY <2>2, <2>10 DEF Sorted, Distinct
        <5> QED
          BY <3>2, <4>1, <5>1, <5>2
      <4>2. CASE i = l + 1 /\ j \in 1 .. l
        BY <2>6, <3>1, <3>2, <4>2
      <4>3. CASE i \in 1 .. l /\ j = l + 1
        BY <2>6, <3>1, <3>2, <4>3
      <4> QED
        BY <4>1, <4>2, <4>3
    <3> QED
      BY <2>6, <3>2 DEF Distinct
  <2>14. ASSUME NEW i \in 1 .. l + 1
         PROVE  /\ done[i] \in Flow!ToSet(f.order)
                /\ \A d \in f.deps[done[i]] : \E j \in 1 .. l + 1 : j < i /\ done[j] = d
    <3>1. CASE i = l + 1
      <4>1. done[i] = x
        BY <2>6, <3>1
      <4>2. ASSUME NEW d \in f.deps[x] PROVE \E j \in 1 .. l + 1 : j < i /\ done[j] = d
        <5>1. PICK j \in 1 .. l : o[j] = d
          BY <2>2, <2>12, ToSetIs
        <5>2. j \in 1 .. l + 1 /\ j < i /\ done[j] = d
          BY <2>6, <3>1, <5>1
        <5> QED
          BY <5>2
      <4> QED
        BY <2>12, <4>1, <4>2
    <3>2. CASE i \in 1 .. l
      <4>1. done[i] = o[i] /\ o[i] \in Flow!ToSet(f.order)
        BY <2>2, <2>6, <2>10, <3>2 DEF Sorted
      <4>2. ASSUME NEW d \in f.deps[o[i]] PROVE \E j \in 1 .. l + 1 : j < i /\ done[j] = d
        <5>1. PICK j \in 1 .. l : j < i /\ o[j] = d
          BY <2>2, <2>10, <3>2 DEF Sorted
        <5>2. j \in 1 .. l + 1 /\ j < i /\ done[j] = d
          BY <2>6, <5>1
        <5> QED
          BY <5>2
      <4> QED
        BY <4>1, <4>2
    <3> QED
      BY <3>1, <3>2
  <2>15. Sorted(f, done)
    <3>1. DOMAIN done = 1 .. l + 1
      BY <2>6
    <3>2. \A i \in DOMAIN done : /\ done[i] \in Flow!ToSet(f.order)
                                 /\ \A d \in f.deps[done[i]] : \E j \in DOMAIN done : j < i /\ done[j] = d
      BY <2>14, <3>1, Zenon
    <3> QED
      BY <2>13, <3>2 DEF Sorted
  <2>16. Distinct(rest)
    <3>1. ASSUME NEW i \in 1 .. m - 1, NEW j \in 1 .. m - 1, rest[i] = rest[j] PROVE i = j
      <4>1. i + 1 \in 1 .. m /\ j + 1 \in 1 .. m /\ line[i + 1] = line[j + 1]
        BY <2>5, <3>1
      <4>2. i + 1 = j + 1
        BY <2>2, <2>10, <4>1 DEF Waits, Distinct
      <4> QED
        BY <4>2
    <3> QED
      BY <2>5, <3>1 DEF Distinct
  <2>17. ASSUME NEW i \in 1 .. m - 1
         PROVE  /\ rest[i] \in Flow!ToSet(f.order) /\ rest[i] # x
                /\ f.deps[rest[i]] \subseteq Flow!ToSet(o) /\ rest[i] \notin Flow!ToSet(o)
    <3>1. i + 1 \in 1 .. m /\ i + 1 # 1 /\ 1 \in 1 .. m /\ rest[i] = line[i + 1]
      BY <2>5
    <3>2. line[i + 1] # line[1]
      BY <2>2, <2>10, <3>1 DEF Waits, Distinct
    <3> QED
      BY <2>2, <2>4, <2>10, <3>1, <3>2 DEF Waits
  <2>18. \A i \in DOMAIN rest : rest[i] \notin freed
    <3>1. x \notin Flow!ToSet(o)
      BY <2>12
    <3> QED
      BY <2>5, <2>7, <2>17, <3>1
  <2>19. /\ later \in Seq(Units) /\ Distinct(later)
         /\ \A i \in DOMAIN later : \/ \E j \in DOMAIN rest : later[i] = rest[j]
                                    \/ later[i] \in freed /\ later[i] \in Flow!ToSet(f.order)
    BY <2>8, <2>16, <2>18, QueuedOnce
  <2>20. ASSUME NEW i \in DOMAIN later
         PROVE  /\ later[i] \in Flow!ToSet(f.order)
                /\ f.deps[later[i]] \subseteq Flow!ToSet(done)
                /\ later[i] \notin Flow!ToSet(done)
    <3>1. CASE \E j \in DOMAIN rest : later[i] = rest[j]
      BY <2>5, <2>11, <2>17, <3>1
    <3>2. CASE later[i] \in freed /\ later[i] \in Flow!ToSet(f.order)
      <4>1. PICK c \in Units : c = later[i] /\ x \in f.deps[c] /\ f.deps[c] \subseteq Flow!ToSet(done)
        BY <2>7, <3>2
      <4>2. c # x
        BY <2>12, <4>1
      <4>3. c \notin Flow!ToSet(o)
        <5>1. ASSUME c \in Flow!ToSet(o) PROVE FALSE
          <6>1. PICK k \in DOMAIN o : o[k] = c
            BY <5>1, ToSetIs
          <6>2. \E j \in DOMAIN o : o[j] = x
            BY <2>10, <4>1, <6>1 DEF Sorted
          <6> QED
            BY <2>12, <6>2, ToSetIs
        <5> QED
          BY <5>1
      <4> QED
        BY <2>11, <3>2, <4>1, <4>2, <4>3
    <3> QED
      BY <2>19, <3>1, <3>2
  <2>21. Waits(f, done, later)
    BY <2>19, <2>20 DEF Waits
  <2> QED
    BY <2>9, <2>15, <2>21
<1> QED
  BY <1>1, <1>2

LEMMA SortFunction ==
    ASSUME NEW f, Flow!FlowOK(f)
    PROVE  \E k : /\ k \in [Nat -> Sorting]
                  /\ k[0] = [ordered |-> <<>>, queue |-> Flow!Queued(f, <<>>, {c \in Units : f.deps[c] = {}})]
                  /\ \A n \in Nat : k[n + 1] = Flow!KahnStep(f, k[n])
                  /\ Flow!TopologicalSort(f) = k[Len(f.order)].ordered
<1>1. PICK start \in Sorting :
        start = [ordered |-> <<>>, queue |-> Flow!Queued(f, <<>>, {c \in Units : f.deps[c] = {}})]
  <2>1. {c \in Units : f.deps[c] = {}} \in SUBSET Units /\ <<>> \in Seq(Units)
    OBVIOUS
  <2>2. Flow!Queued(f, <<>>, {c \in Units : f.deps[c] = {}}) \in Seq(Units)
    BY <2>1, QueuedTyped
  <2> QED
    BY <2>1, <2>2 DEF Sorting
<1>2. PICK h : h = [x \in Nat \X Sorting |-> Flow!KahnStep(f, x[2])]
  OBVIOUS
<1>3. h \in [Nat \X Sorting -> Sorting]
  BY <1>2, KahnTyped
<1>4. PICK g : Recursive(g, Sorting, start, h)
  BY <1>3, RecursionExists
<1>5. \A n \in Nat : g[n] = IF n = 0 THEN start ELSE Flow!KahnStep(f, g[n - 1])
  <2>1. ASSUME NEW n \in Nat, n # 0 PROVE g[n] = Flow!KahnStep(f, g[n - 1])
    <3>1. n - 1 \in Nat /\ g[n] = h[<<n, g[n - 1]>>] /\ g[n - 1] \in Sorting
      BY <1>4, <2>1 DEF Recursive
    <3> QED
      BY <1>2, <3>1
  <2>2. g[0] = start
    BY <1>4 DEF Recursive
  <2> QED
    BY <2>1, <2>2
<1>6. g = [n \in Nat |-> IF n = 0 THEN start ELSE Flow!KahnStep(f, g[n - 1])]
  BY <1>4, <1>5 DEF Recursive
<1>7. PICK k : k = CHOOSE p : p = [n \in Nat |-> IF n = 0 THEN start ELSE Flow!KahnStep(f, p[n - 1])]
  OBVIOUS
<1>8. k = [n \in Nat |-> IF n = 0 THEN start ELSE Flow!KahnStep(f, k[n - 1])]
  BY <1>6, <1>7, Zenon
<1>9. Flow!TopologicalSort(f) = k[Len(f.order)].ordered
  BY <1>1, <1>7, Zenon DEF Flow!TopologicalSort
<1>10. \A n \in Nat : k[n] \in Sorting
  <2>1. PICK M : M = {n \in Nat : k[n] \in Sorting}
    OBVIOUS
  <2>2. 0 \in M
    BY <1>8, <2>1
  <2>3. ASSUME NEW n \in M PROVE n + 1 \in M
    <3>1. n \in Nat /\ n + 1 \in Nat /\ n + 1 # 0 /\ (n + 1) - 1 = n
      BY <2>1
    <3>2. k[n + 1] = Flow!KahnStep(f, k[n])
      BY <1>8, <3>1
    <3>3. k[n] \in Sorting
      BY <2>1
    <3>4. Flow!KahnStep(f, k[n]) \in Sorting
      BY <3>3, KahnTyped
    <3> QED
      BY <2>1, <3>1, <3>2, <3>4
  <2>4. \A n \in Nat : n \in M
    BY <2>1, <2>2, <2>3, Induction
  <2> QED
    BY <2>1, <2>4
<1>11. \A n \in Nat : k[n + 1] = Flow!KahnStep(f, k[n])
  <2>1. ASSUME NEW n \in Nat PROVE k[n + 1] = Flow!KahnStep(f, k[n])
    <3>1. n + 1 \in Nat /\ n + 1 # 0 /\ (n + 1) - 1 = n
      OBVIOUS
    <3> QED
      BY <1>8, <3>1
  <2> QED
    BY <2>1
<1>12. k[0] = start /\ k \in [Nat -> Sorting]
  <2>1. k[0] = start
    BY <1>8
  <2>2. PICK F : F = [n \in Nat |-> IF n = 0 THEN start ELSE Flow!KahnStep(f, k[n - 1])]
    OBVIOUS
  <2>3. k = F /\ DOMAIN F = Nat /\ F = [n \in Nat |-> F[n]]
    BY <1>8, <2>2
  <2> QED
    BY <1>10, <2>1, <2>3
<1> QED
  BY <1>1, <1>9, <1>11, <1>12

\* _topological_sort: every step that it returns comes after all it depends on.
LEMMA SortSorts ==
    ASSUME NEW f, Flow!FlowOK(f)
    PROVE  Sorted(f, Flow!TopologicalSort(f))
<1>1. PICK start : start = [ordered |-> <<>>, queue |-> Flow!Queued(f, <<>>, {c \in Units : f.deps[c] = {}})]
  OBVIOUS
<1>2. PICK k : /\ k \in [Nat -> Sorting] /\ k[0] = start
               /\ \A n \in Nat : k[n + 1] = Flow!KahnStep(f, k[n])
               /\ Flow!TopologicalSort(f) = k[Len(f.order)].ordered
  BY <1>1, SortFunction
<1>3. PICK M : M = {n \in Nat : Sorted(f, k[n].ordered) /\ Waits(f, k[n].ordered, k[n].queue)}
  OBVIOUS
<1>4. 0 \in M
  <2>1. PICK E \in SUBSET Units : E = {c \in Units : f.deps[c] = {}}
    OBVIOUS
  <2>2. PICK none : none = <<>>
    OBVIOUS
  <2>3. none \in Seq(Units) /\ DOMAIN none = {} /\ Distinct(none)
    BY <2>2 DEF Distinct
  <2>4. PICK line : line = Flow!Queued(f, none, E)
    OBVIOUS
  <2>5. /\ line \in Seq(Units) /\ Distinct(line)
        /\ \A i \in DOMAIN line : \/ \E j \in DOMAIN none : line[i] = none[j]
                                  \/ line[i] \in E /\ line[i] \in Flow!ToSet(f.order)
    BY <2>3, <2>4, QueuedOnce
  <2>6. start.ordered = none /\ start.queue = line
    BY <1>1, <2>1, <2>2, <2>4
  <2>7. Sorted(f, none)
    BY <2>3 DEF Sorted
  <2>8. Flow!ToSet(none) = {}
    BY <2>3, ToSetIs
  <2>9. Waits(f, none, line)
    BY <2>1, <2>3, <2>5, <2>8 DEF Waits
  <2> QED
    BY <1>2, <1>3, <2>6, <2>7, <2>9
<1>5. ASSUME NEW n \in M PROVE n + 1 \in M
  <2>1. PICK st \in Sorting : st = k[n]
    BY <1>2, <1>3
  <2>2. Sorted(f, st.ordered) /\ Waits(f, st.ordered, st.queue)
    BY <1>3, <2>1
  <2>3. PICK later : later = Flow!KahnStep(f, st)
    OBVIOUS
  <2>4. Sorted(f, later.ordered) /\ Waits(f, later.ordered, later.queue)
    BY <2>2, <2>3, KahnSorts
  <2>5. n \in Nat /\ n + 1 \in Nat /\ k[n + 1] = later
    BY <1>2, <1>3, <2>1, <2>3
  <2> QED
    BY <1>3, <2>4, <2>5
<1>6. Len(f.order) \in Nat
  BY DEF Flow!FlowOK
<1>7. Len(f.order) \in M
  BY <1>3, <1>4, <1>5, <1>6, Induction
<1> QED
  BY <1>2, <1>3, <1>7

\* A sequence without repetitions has as many elements as it is long.
LEMMA DistinctCardinality ==
    ASSUME NEW D, NEW s \in Seq(D), Distinct(s)
    PROVE  IsFiniteSet(Flow!ToSet(s)) /\ Cardinality(Flow!ToSet(s)) = Len(s)
<1>1. PICK n \in Nat, E \in {Flow!ToSet(s)} : n = Len(s) /\ DOMAIN s = 1 .. n /\ E = Flow!ToSet(s)
  OBVIOUS
<1>2. E = {s[i] : i \in 1 .. n}
  BY <1>1, ToSetIs
<1>3. PICK g : g = [i \in 1 .. n |-> s[i]]
  OBVIOUS
<1>4. g \in [1 .. n -> E]
  BY <1>2, <1>3
<1>5. g \in Surjection(1 .. n, E)
  BY <1>2, <1>3, <1>4 DEF Surjection
<1>6. g \in Injection(1 .. n, E)
  BY <1>1, <1>3, <1>4 DEF Injection, IsInjective, Distinct
<1>7. ExistsBijection(1 .. n, E)
  BY <1>5, <1>6 DEF ExistsBijection, Bijection
<1>8. Cardinality(E) = n
  BY <1>7, FS_CountingElements
<1>9. IsFiniteSet(E)
  BY <1>7, FS_NatBijection
<1> QED
  BY <1>1, <1>8, <1>9

\* The sort that returns as many steps as there are has returned them all.
LEMMA SortComplete ==
    ASSUME NEW f, Flow!FlowOK(f), Len(Flow!TopologicalSort(f)) = Len(f.order)
    PROVE  Flow!ToSet(Flow!TopologicalSort(f)) = Flow!ToSet(f.order)
<1>1. PICK o : o = Flow!TopologicalSort(f)
  OBVIOUS
<1>2. o \in Seq(Units) /\ Distinct(o) /\ \A i \in DOMAIN o : o[i] \in Flow!ToSet(f.order)
  BY <1>1, SortSorts DEF Sorted
<1>3. PICK order \in Seq(Units) : order = f.order /\ Distinct(order)
  BY DEF Flow!FlowOK, Distinct
<1>4. PICK E, F : E = Flow!ToSet(o) /\ F = Flow!ToSet(order)
  OBVIOUS
<1>5. IsFiniteSet(E) /\ Cardinality(E) = Len(o)
  BY <1>2, <1>4, DistinctCardinality
<1>6. IsFiniteSet(F) /\ Cardinality(F) = Len(order)
  BY <1>3, <1>4, DistinctCardinality
<1>7. E \in SUBSET F
  BY <1>2, <1>3, <1>4, ToSetIs
<1>8. Cardinality(F) = Cardinality(E)
  BY <1>1, <1>3, <1>5, <1>6
<1>9. F = E
  BY <1>6, <1>7, <1>8, FS_Subset
<1> QED
  BY <1>1, <1>3, <1>4, <1>9

(* ---- What depends on a step ------------------------------------------- *)
\* _downstream_of: a step lies below another just when it depends on that one
\* or on a step below it.
LEMMA DownstreamIs ==
    ASSUME NEW f, NEW s, NEW c \in Flow!ToSet(f.order)
    PROVE  c \in Flow!Downstream(f, s) <=> \E d \in f.deps[c] : d = s \/ d \in Flow!Downstream(f, s)
<1>1. PICK E : E = Flow!ToSet(f.order)
  OBVIOUS
<1>2. PICK below : below = [R \in SUBSET E |-> {x \in E : f.deps[x] \cap (R \cup {s}) # {}}]
  OBVIOUS
<1>3. PICK D : D = {x \in E : \A R \in SUBSET E : below[R] \subseteq R => x \in R}
  OBVIOUS
<1>4. D = Flow!Downstream(f, s)
  BY <1>1, <1>2, <1>3 DEF Flow!Downstream
<1>5. D \in SUBSET E /\ below[D] \in SUBSET E
  BY <1>2, <1>3
<1>6. below[D] \subseteq D
  <2>1. ASSUME NEW x \in below[D], NEW R \in SUBSET E, below[R] \subseteq R PROVE x \in R
    <3>1. D \subseteq R
      BY <1>3, <2>1
    <3>2. x \in E /\ f.deps[x] \cap (D \cup {s}) # {}
      BY <1>2, <1>5
    <3>3. x \in below[R]
      BY <1>2, <3>1, <3>2
    <3> QED
      BY <2>1, <3>3
  <2> QED
    BY <1>3, <1>5, <2>1
<1>7. D \subseteq below[D]
  <2>1. PICK R \in SUBSET E : R = below[D]
    BY <1>5
  <2>2. below[R] \subseteq R
    BY <1>2, <1>5, <1>6, <2>1
  <2> QED
    BY <1>3, <2>1, <2>2
<1>8. D = below[D]
  BY <1>6, <1>7
<1>9. c \in below[D] <=> f.deps[c] \cap (D \cup {s}) # {}
  BY <1>1, <1>2, <1>5
<1> QED
  BY <1>4, <1>8, <1>9

LEMMA DownstreamWithin ==
    ASSUME NEW f, NEW s, NEW R \in SUBSET Flow!ToSet(f.order),
           \A c \in Flow!ToSet(f.order) : f.deps[c] \cap (R \cup {s}) # {} => c \in R
    PROVE  Flow!Downstream(f, s) \subseteq R
<1>1. PICK E : E = Flow!ToSet(f.order)
  OBVIOUS
<1>2. {x \in E : f.deps[x] \cap (R \cup {s}) # {}} \subseteq R
  BY <1>1
<1> QED
  BY <1>1, <1>2 DEF Flow!Downstream
-----------------------------------------------------------------------------
(* ---- The workflow ----------------------------------------------------- *)
Results == [status : {"PENDING", "SKIPPED"} \cup Flow!AtWork \cup Flow!Ended, attempts : Nat]
FlowTypes ==
    /\ flow = [def |-> flow.def, handled |-> flow.handled]
    /\ flow.handled \in BOOLEAN
    /\ unit \in [Units -> Results]
    /\ branch \in SUBSET Units
    /\ todo \in Seq(Units)
    /\ outcome \in {"none", "INVALID", "RUNNING", "COMPLETED", "FAILED"}

\* Nothing is at work outside the run, and nothing has begun before it.
FlowPhase ==
    /\ outcome = "none" => flow.def = Flow!NoFlow
    /\ outcome # "none" => flow.def \in Flows
    /\ outcome \in {"none", "INVALID"} => \A u \in Units : unit[u].status = "PENDING"
    /\ outcome # "FAILED" => \A u \in Units : unit[u].status # "SKIPPED"
    /\ outcome # "RUNNING" => branch = {}
    /\ \A u \in Units : unit[u].status \in Flow!AtWork =>
         outcome = "RUNNING" /\ (u = Head(todo) \/ u \in branch)

\* Of the steps that are left the first is at work; the others wait for it,
\* each after all it depends on.  What is not left has succeeded.
FlowPlan ==
    outcome = "RUNNING" =>
      /\ todo # <<>> /\ Distinct(todo)
      /\ \A i \in DOMAIN todo :
           /\ todo[i] \in Flow!Top
           /\ i # 1 => unit[todo[i]].status = "PENDING"
           /\ \A d \in flow.def.deps[todo[i]] :
                \/ d \in Flow!Top /\ unit[d].status \in Flow!Succeeded
                \/ \E j \in DOMAIN todo : j < i /\ todo[j] = d
      /\ \A u \in Flow!Top : u \notin Flow!ToSet(todo) => unit[u].status \in Flow!Succeeded

FlowOrder ==
    \A u \in Flow!Top : unit[u].status \notin {"PENDING", "SKIPPED"} =>
      \A d \in flow.def.deps[u] : d \in Flow!Top /\ unit[d].status \in Flow!Succeeded

\* A sub-step was taken up by the step in which it lies, which ends after it.
BelongsTo(results, v, p) ==
    /\ v \in Flow!ToSet(flow.def.subs[p]) /\ flow.def.kind[p] # "leaf"
    /\ flow.def.kind[p] = "parallel" => Flow!Parallel(p)
    /\ \/ results[p].status = "RUNNING"
       \/ results[p].status = "COMPLETED" /\ results[v].status \in Flow!Ended
BusyIn(results, p) == {v \in Flow!ToSet(flow.def.subs[p]) : results[v].status \in Flow!AtWork}
FlowBranch ==
    /\ branch # {} => flow.handled /\ unit[Head(todo)].status # "PENDING"
    /\ \A v \in branch : v \notin Flow!Top /\ \E p \in branch \cup {Head(todo)} : BelongsTo(unit, v, p)
    /\ outcome = "RUNNING" => \A p \in Units : Cardinality(BusyIn(unit, p)) <= MaxParallelism

FlowAttempts ==
    \A u \in Units :
      /\ unit[u].status \in {"PENDING", "SKIPPED"} => unit[u].attempts = 0
      /\ unit[u].attempts > 0 => unit[u].attempts <= flow.def.tries[u]
      /\ unit[u].status = "RETRYING" => unit[u].attempts < flow.def.tries[u]

FlowEnds ==
    /\ outcome = "COMPLETED" => \A u \in Flow!Top : unit[u].status \in Flow!Succeeded
    /\ outcome = "FAILED" => \E s \in Flow!Top :
         /\ {u \in Flow!Top : unit[u].status = "FAILED"} = {s}
         /\ \A u \in Flow!Top \ {s} : unit[u].status = "SKIPPED" <=>
              \E d \in flow.def.deps[u] : d = s \/ unit[d].status = "SKIPPED"

FlowInv == FlowTypes /\ FlowPhase /\ FlowPlan /\ FlowOrder /\ FlowBranch /\ FlowAttempts /\ FlowEnds

LEMMA TopFacts ==
    ASSUME Flow!WorkflowAssumption, FlowInv, outcome # "none"
    PROVE  /\ flow.def \in Flows /\ Flow!FlowOK(flow.def) /\ Flow!Top \subseteq Units
           /\ \A u \in Units : Flow!ToSet(flow.def.subs[u]) \cap Flow!Top = {}
           /\ flow.def.tries \in [Units -> Nat \ {0}]
<1>1. flow.def \in Flows /\ Flow!FlowOK(flow.def)
  BY DEF FlowInv, FlowPhase, Flow!WorkflowAssumption
<1>2. flow.def.order \in Seq(Units)
  BY <1>1 DEF Flow!FlowOK
<1>3. Flow!Top = {flow.def.order[i] : i \in DOMAIN flow.def.order}
  BY ToSetIs DEF Flow!Top
<1>4. Flow!Top \subseteq Units
  BY <1>2, <1>3
<1> QED
  BY <1>1, <1>4 DEF Flow!FlowOK, Flow!Top

LEMMA HeadFacts ==
    ASSUME FlowTypes, FlowPlan, outcome = "RUNNING"
    PROVE  /\ Head(todo) \in Units /\ Head(todo) = todo[1] /\ 1 \in DOMAIN todo
           /\ Head(todo) \in Flow!Top
           /\ \A i \in DOMAIN todo : i # 1 => todo[i] # Head(todo) /\ unit[todo[i]].status = "PENDING"
           /\ \A d \in flow.def.deps[Head(todo)] : d \in Flow!Top /\ unit[d].status \in Flow!Succeeded
           /\ \A u \in Flow!Top : u # Head(todo) =>
                unit[u].status \in Flow!Succeeded \cup {"PENDING"}
<1>1. PICK l \in Nat : l = Len(todo) /\ DOMAIN todo = 1 .. l
  BY DEF FlowTypes
<1>2. l >= 1 /\ 1 \in DOMAIN todo /\ Head(todo) = todo[1] /\ todo[1] \in Units
  BY <1>1 DEF FlowTypes, FlowPlan
<1>3. \A i \in DOMAIN todo : i # 1 => todo[i] # todo[1] /\ unit[todo[i]].status = "PENDING"
  BY <1>2 DEF FlowPlan, Distinct
<1>4. \A d \in flow.def.deps[todo[1]] : d \in Flow!Top /\ unit[d].status \in Flow!Succeeded
  <2>1. \A j \in DOMAIN todo : ~ (j < 1)
    BY <1>1
  <2> QED
    BY <1>2, <2>1 DEF FlowPlan
<1>5. ASSUME NEW u \in Flow!Top, u # todo[1] PROVE unit[u].status \in Flow!Succeeded \cup {"PENDING"}
  <2>1. CASE u \in Flow!ToSet(todo)
    <3>1. PICK i \in DOMAIN todo : u = todo[i]
      BY <2>1, ToSetIs
    <3> QED
      BY <1>3, <1>5, <3>1
  <2>2. CASE u \notin Flow!ToSet(todo)
    BY <2>2 DEF FlowPlan
  <2> QED
    BY <2>1, <2>2
<1>6. todo[1] \in Flow!Top
  BY <1>2 DEF FlowPlan
<1> QED
  BY <1>2, <1>3, <1>4, <1>5, <1>6

\* A unit that has not ended moves on.
LEMMA UnitMoves ==
    ASSUME Flow!WorkflowAssumption, FlowInv, outcome = "RUNNING", NEW u \in Units, NEW r \in Results,
           unit' = [unit EXCEPT ![u] = r], UNCHANGED <<flow, todo, outcome>>,
           unit[u].status \in {"PENDING"} \cup Flow!AtWork,
           r.status \in Flow!AtWork \cup Flow!Ended,
           u = Head(todo) \/ u \notin Flow!Top,
           u = Head(todo) \/ u \in branch',
           branch' \in SUBSET Units, branch \subseteq branch', FlowBranch',
           r.attempts > 0 => r.attempts <= flow.def.tries[u],
           r.status = "RETRYING" => r.attempts < flow.def.tries[u]
    PROVE  FlowInv'
<1>1. /\ unit' \in [Units -> Results] /\ unit'[u] = r
      /\ \A v \in Units : v # u => unit'[v] = unit[v]
  BY DEF FlowInv, FlowTypes
<1>2. /\ flow' = flow /\ todo' = todo /\ outcome' = outcome /\ Flow!Top' = Flow!Top
  BY DEF Flow!Top
<1>3. FlowTypes'
  BY <1>1, <1>2 DEF FlowInv, FlowTypes
<1>4. /\ Head(todo) \in Units /\ Head(todo) = todo[1] /\ 1 \in DOMAIN todo
      /\ Head(todo) \in Flow!Top
      /\ \A i \in DOMAIN todo : i # 1 => todo[i] # Head(todo) /\ unit[todo[i]].status = "PENDING"
      /\ \A d \in flow.def.deps[Head(todo)] : d \in Flow!Top /\ unit[d].status \in Flow!Succeeded
  BY HeadFacts DEF FlowInv
<1>5. PICK h : h = Head(todo)
  OBVIOUS
<1>6. flow.def \in Flows /\ \A v \in Units : unit[v].status # "SKIPPED"
  BY DEF FlowInv, FlowPhase
<1>7. FlowPhase'
  <2>1. ASSUME NEW v \in Units, unit'[v].status \in Flow!AtWork PROVE v = h \/ v \in branch'
    <3>1. CASE v = u
      BY <1>5, <3>1
    <3>2. CASE v # u
      BY <1>1, <1>5, <2>1, <3>2 DEF FlowInv, FlowPhase
    <3> QED
      BY <3>1, <3>2
  <2>2. ASSUME NEW v \in Units PROVE unit'[v].status # "SKIPPED"
    <3>1. r.status # "SKIPPED"
      BY DEF Flow!AtWork, Flow!Ended, Flow!Succeeded
    <3> QED
      BY <1>1, <1>6, <3>1
  <2> QED
    BY <1>2, <1>5, <1>6, <2>1, <2>2 DEF FlowPhase
<1>8. \A d \in Flow!Top : unit[d].status \in Flow!Succeeded => unit'[d].status \in Flow!Succeeded
  <2>1. unit[u].status \notin Flow!Succeeded
    BY DEF Flow!AtWork, Flow!Succeeded
  <2>2. Flow!Top \subseteq Units
    BY TopFacts
  <2> QED
    BY <1>1, <2>1, <2>2
<1>9. \A v \in Flow!Top : v # h => unit'[v] = unit[v]
  <2>1. Flow!Top \subseteq Units
    BY TopFacts
  <2> QED
    BY <1>1, <1>5, <2>1
<1>10. FlowPlan'
  <2>1. ASSUME NEW i \in DOMAIN todo
        PROVE  /\ todo[i] \in Flow!Top
               /\ i # 1 => unit'[todo[i]].status = "PENDING"
               /\ \A d \in flow.def.deps[todo[i]] :
                    \/ d \in Flow!Top /\ unit'[d].status \in Flow!Succeeded
                    \/ \E j \in DOMAIN todo : j < i /\ todo[j] = d
    <3>1. todo[i] \in Flow!Top
      BY DEF FlowInv, FlowPlan
    <3>2. i # 1 => unit'[todo[i]].status = "PENDING"
      BY <1>4, <1>5, <1>9, <3>1
    <3>3. ASSUME NEW d \in flow.def.deps[todo[i]]
          PROVE  \/ d \in Flow!Top /\ unit'[d].status \in Flow!Succeeded
                 \/ \E j \in DOMAIN todo : j < i /\ todo[j] = d
      <4>1. \/ d \in Flow!Top /\ unit[d].status \in Flow!Succeeded
            \/ \E j \in DOMAIN todo : j < i /\ todo[j] = d
        BY DEF FlowInv, FlowPlan
      <4> QED
        BY <1>8, <4>1
    <3> QED
      BY <3>1, <3>2, <3>3
  <2>2. \A v \in Flow!Top : v \notin Flow!ToSet(todo) => unit'[v].status \in Flow!Succeeded
    BY <1>8 DEF FlowInv, FlowPlan
  <2>3. todo # <<>> /\ Distinct(todo)
    BY DEF FlowInv, FlowPlan
  <2>4. FlowPlan' <=> (outcome' = "RUNNING" =>
      /\ todo' # <<>> /\ Distinct(todo')
      /\ \A i \in DOMAIN todo' :
           /\ todo'[i] \in Flow!Top'
           /\ i # 1 => unit'[todo'[i]].status = "PENDING"
           /\ \A d \in flow'.def.deps[todo'[i]] :
                \/ d \in Flow!Top' /\ unit'[d].status \in Flow!Succeeded
                \/ \E j \in DOMAIN todo' : j < i /\ todo'[j] = d
      /\ \A v \in Flow!Top' : v \notin Flow!ToSet(todo') => unit'[v].status \in Flow!Succeeded)
    BY DEF FlowPlan, Distinct, Flow!Succeeded, Flow!ToSet
  <2> QED
    BY <1>2, <2>1, <2>2, <2>3, <2>4
<1>11. FlowOrder'
  <2>1. ASSUME NEW v \in Flow!Top, unit'[v].status \notin {"PENDING", "SKIPPED"}, NEW d \in flow.def.deps[v]
        PROVE  d \in Flow!Top /\ unit'[d].status \in Flow!Succeeded
    <3>1. d \in Flow!Top /\ unit[d].status \in Flow!Succeeded
      <4>1. CASE v = h
        BY <1>4, <1>5, <4>1
      <4>2. CASE v # h
        BY <1>9, <2>1, <4>2 DEF FlowInv, FlowOrder
      <4> QED
        BY <4>1, <4>2
    <3> QED
      BY <1>8, <3>1
  <2>2. FlowOrder' <=> \A v \in Flow!Top' : unit'[v].status \notin {"PENDING", "SKIPPED"} =>
           \A d \in flow'.def.deps[v] : d \in Flow!Top' /\ unit'[d].status \in Flow!Succeeded
    BY DEF FlowOrder, Flow!Succeeded
  <2> QED
    BY <1>2, <2>1, <2>2
<1>12. FlowAttempts'
  <2>1. ASSUME NEW v \in Units
        PROVE  /\ unit'[v].status \in {"PENDING", "SKIPPED"} => unit'[v].attempts = 0
               /\ unit'[v].attempts > 0 => unit'[v].attempts <= flow.def.tries[v]
               /\ unit'[v].status = "RETRYING" => unit'[v].attempts < flow.def.tries[v]
    <3>1. CASE v = u
      <4>1. r.status \notin {"PENDING", "SKIPPED"}
        BY DEF Flow!AtWork, Flow!Ended, Flow!Succeeded
      <4> QED
        BY <1>1, <3>1, <4>1
    <3>2. CASE v # u
      BY <1>1, <3>2 DEF FlowInv, FlowAttempts
    <3> QED
      BY <3>1, <3>2
  <2> QED
    BY <1>2, <2>1 DEF FlowAttempts
<1>13. FlowEnds'
  BY <1>2 DEF FlowEnds
<1> QED
  BY <1>3, <1>7, <1>10, <1>11, <1>12, <1>13 DEF FlowInv

LEMMA SequenceFinite ==
    ASSUME NEW D, NEW s \in Seq(D)
    PROVE  IsFiniteSet(Flow!ToSet(s))
<1>1. PICK n \in Nat, E \in {Flow!ToSet(s)} : n = Len(s) /\ DOMAIN s = 1 .. n /\ E = Flow!ToSet(s)
  OBVIOUS
<1>2. PICK g : g = [i \in 1 .. n |-> s[i]]
  OBVIOUS
<1>3. g \in Surjection(1 .. n, E)
  BY <1>1, <1>2, ToSetIs DEF Surjection
<1>4. ExistsSurjection(1 .. n, E)
  BY <1>3 DEF ExistsSurjection
<1> QED
  BY <1>1, <1>4, FS_NatSurjection

LEMMA SubsFacts ==
    ASSUME Flow!WorkflowAssumption, FlowInv, outcome # "none", NEW p \in Units
    PROVE  /\ Flow!ToSet(flow.def.subs[p]) \in SUBSET Units
           /\ Flow!ToSet(flow.def.subs[p]) \cap Flow!Top = {}
           /\ \A q \in Units \ {p} : Flow!ToSet(flow.def.subs[p]) \cap Flow!ToSet(flow.def.subs[q]) = {}
           /\ \A v \in Flow!ToSet(flow.def.subs[p]) : flow.def.depth[p] < flow.def.depth[v]
           /\ flow.def.depth \in [Units -> Nat]
           /\ IsFiniteSet(Flow!ToSet(flow.def.subs[p])) /\ IsFiniteSet(BusyIn(unit, p))
<1>1. Flow!FlowOK(flow.def) /\ Flow!ToSet(flow.def.subs[p]) \cap Flow!Top = {}
  BY TopFacts
<1>2. PICK E \in Seq(Units) : E = flow.def.subs[p]
  BY <1>1 DEF Flow!FlowOK
<1>3. Flow!ToSet(E) \in SUBSET Units /\ IsFiniteSet(Flow!ToSet(E))
  BY ToSetIs, SequenceFinite
<1>4. BusyIn(unit, p) \in SUBSET Flow!ToSet(E)
  BY <1>2 DEF BusyIn
<1>5. IsFiniteSet(BusyIn(unit, p))
  BY <1>3, <1>4, FS_Subset
<1>6. /\ \A q \in Units \ {p} : Flow!ToSet(flow.def.subs[p]) \cap Flow!ToSet(flow.def.subs[q]) = {}
      /\ \A v \in Flow!ToSet(flow.def.subs[p]) : flow.def.depth[p] < flow.def.depth[v]
      /\ flow.def.depth \in [Units -> Nat]
  BY <1>1 DEF Flow!FlowOK
<1> QED
  BY <1>1, <1>2, <1>3, <1>5, <1>6

\* The sub-steps that have been taken up each belong to a single step.
LEMMA BranchFacts ==
    ASSUME Flow!WorkflowAssumption, FlowInv, outcome = "RUNNING"
    PROVE  /\ branch \in SUBSET Units /\ branch \cap Flow!Top = {} /\ Head(todo) \in Units
           /\ \A v \in branch : \E p \in branch \cup {Head(todo)} : BelongsTo(unit, v, p)
           /\ \A v \in branch : \A u \in Units :
                v \in Flow!ToSet(flow.def.subs[u]) => BelongsTo(unit, v, u)
<1>1. branch \in SUBSET Units /\ Head(todo) \in Units
  BY HeadFacts DEF FlowInv, FlowTypes
<1>2. branch \cap Flow!Top = {} /\ \A v \in branch : \E p \in branch \cup {Head(todo)} : BelongsTo(unit, v, p)
  BY DEF FlowInv, FlowBranch
<1>3. ASSUME NEW v \in branch, NEW u \in Units, v \in Flow!ToSet(flow.def.subs[u])
      PROVE  BelongsTo(unit, v, u)
  <2>1. PICK p \in Units : BelongsTo(unit, v, p)
    BY <1>1, <1>2
  <2>2. v \in Flow!ToSet(flow.def.subs[p])
    BY <2>1 DEF BelongsTo
  <2>3. p = u
    BY <1>3, <2>2, SubsFacts
  <2> QED
    BY <2>1, <2>3
<1> QED
  BY <1>1, <1>2, <1>3

\* What the next state of the sub-steps has to be like.
LEMMA BranchNext ==
    ASSUME flow' = flow,
           branch' # {} => flow.handled /\ unit'[Head(todo')].status # "PENDING",
           \A v \in branch' : v \notin Flow!Top /\ \E p \in branch' \cup {Head(todo')} : BelongsTo(unit', v, p),
           outcome' = "RUNNING" => \A p \in Units : Cardinality(BusyIn(unit', p)) <= MaxParallelism
    PROVE  FlowBranch'
<1>1. Flow!Top' = Flow!Top
  BY DEF Flow!Top
<1>2. \A v, p : BelongsTo(unit, v, p)' <=> BelongsTo(unit', v, p)
  BY DEF BelongsTo, Flow!ToSet, Flow!Ended, Flow!Succeeded, Flow!Parallel
<1>3. \A p : BusyIn(unit, p)' = BusyIn(unit', p)
  BY DEF BusyIn, Flow!ToSet, Flow!AtWork
<1> QED
  BY <1>1, <1>2, <1>3 DEF FlowBranch

\* A unit at work that moves leaves no more sub-steps at work, and the step of a
\* sub-step at work runs.
LEMMA BranchKept ==
    ASSUME Flow!WorkflowAssumption, FlowInv, NEW u \in Units, NEW r \in Results,
           unit' = [unit EXCEPT ![u] = r], UNCHANGED <<flow, branch, todo, outcome>>,
           unit[u].status \in Flow!AtWork, r.status # "PENDING",
           \A v \in branch : v \in Flow!ToSet(flow.def.subs[u]) =>
             r.status = "COMPLETED" /\ unit[v].status \in Flow!Ended
    PROVE  FlowBranch'
<1>1. /\ unit'[u] = r /\ \A v \in Units : v # u => unit'[v] = unit[v]
      /\ MaxParallelism \in Nat /\ outcome = "RUNNING"
  BY DEF FlowInv, FlowTypes, FlowPhase, Flow!WorkflowAssumption
<1>2. /\ branch \in SUBSET Units /\ Head(todo) \in Units
      /\ \A v \in branch : v \notin Flow!Top
  BY <1>1, BranchFacts
<1>3. branch # {} => flow.handled /\ unit'[Head(todo)].status # "PENDING"
  BY <1>1, <1>2 DEF FlowInv, FlowBranch
<1>4. ASSUME NEW v \in branch PROVE \E p \in branch \cup {Head(todo)} : BelongsTo(unit', v, p)
  <2>1. PICK p \in branch \cup {Head(todo)} : BelongsTo(unit, v, p)
    BY <1>1, BranchFacts
  <2>2. p \in Units /\ v \in Units
    BY <1>2
  <2>3. CASE p = u
    <3>1. r.status = "COMPLETED" /\ unit[v].status \in Flow!Ended
      BY <2>1, <2>3 DEF BelongsTo
    <3>2. v # u
      BY <3>1 DEF Flow!Ended, Flow!Succeeded, Flow!AtWork
    <3> QED
      BY <1>1, <2>1, <2>2, <2>3, <3>1, <3>2 DEF BelongsTo
  <2>4. CASE p # u
    <3>1. v = u => unit[p].status = "RUNNING"
      BY <2>1 DEF BelongsTo, Flow!Ended, Flow!Succeeded, Flow!AtWork
    <3>2. BelongsTo(unit', v, p)
      BY <1>1, <2>1, <2>2, <2>4, <3>1 DEF BelongsTo
    <3> QED
      BY <3>2
  <2> QED
    BY <2>3, <2>4
<1>5. ASSUME NEW p \in Units PROVE Cardinality(BusyIn(unit', p)) <= MaxParallelism
  <2>1. PICK E, F : E = BusyIn(unit, p) /\ F = BusyIn(unit', p)
    OBVIOUS
  <2>2. IsFiniteSet(E) /\ Cardinality(E) <= MaxParallelism /\ Flow!ToSet(flow.def.subs[p]) \in SUBSET Units
    BY <1>1, <2>1, SubsFacts DEF FlowInv, FlowBranch
  <2>3. F \in SUBSET E
    BY <1>1, <2>1, <2>2 DEF BusyIn
  <2>4. IsFiniteSet(F) /\ Cardinality(F) <= Cardinality(E)
    BY <2>2, <2>3, FS_Subset
  <2>5. Cardinality(F) \in Nat /\ Cardinality(E) \in Nat
    BY <2>2, <2>4, FS_CardinalityType
  <2> QED
    BY <1>1, <2>1, <2>2, <2>4, <2>5
<1> QED
  BY <1>2, <1>3, <1>4, <1>5, BranchNext

LEMMA WorkMoves ==
    ASSUME Flow!WorkflowAssumption, FlowInv, NEW u \in Units, NEW r \in Results,
           unit' = [unit EXCEPT ![u] = r], UNCHANGED <<flow, branch, todo, outcome>>,
           unit[u].status \in Flow!AtWork, r.status \in Flow!AtWork \cup Flow!Ended,
           \A v \in branch : v \in Flow!ToSet(flow.def.subs[u]) =>
             r.status = "COMPLETED" /\ unit[v].status \in Flow!Ended,
           r.attempts > 0 => r.attempts <= flow.def.tries[u],
           r.status = "RETRYING" => r.attempts < flow.def.tries[u]
    PROVE  FlowInv'
<1>1. outcome = "RUNNING" /\ (u = Head(todo) \/ u \in branch)
  BY DEF FlowInv, FlowPhase
<1>2. u = Head(todo) \/ u \notin Flow!Top
  BY <1>1, BranchFacts
<1>0. r.status # "PENDING"
  BY DEF Flow!AtWork, Flow!Ended, Flow!Succeeded
<1>3. FlowBranch'
  BY <1>0, BranchKept
<1>4. branch' \in SUBSET Units /\ branch \subseteq branch' /\ (u = Head(todo) \/ u \in branch')
  BY <1>1 DEF FlowInv, FlowTypes
<1> QED
  BY <1>1, <1>2, <1>3, <1>4, UnitMoves

LEMMA AttemptEnds ==
    ASSUME Flow!WorkflowAssumption, FlowInv, NEW u \in Units, Flow!AttemptSucceeds(u)
    PROVE  FlowInv'
<1>1. PICK r : r = [status |-> "COMPLETED", attempts |-> unit[u].attempts]
  OBVIOUS
<1>2. unit[u] \in Results /\ unit[u].status = "RUNNING"
  BY DEF FlowInv, FlowTypes, Flow!AttemptSucceeds
<1>3. r \in Results /\ [unit[u] EXCEPT !.status = "COMPLETED"] = r
  BY <1>1, <1>2 DEF Results, Flow!AtWork, Flow!Ended, Flow!Succeeded
<1>4. unit' = [unit EXCEPT ![u] = r] /\ UNCHANGED <<flow, branch, todo, outcome>>
  BY <1>3 DEF Flow!AttemptSucceeds, Flow!Sets
<1>5. unit[u].status \in Flow!AtWork /\ r.status \in Flow!AtWork \cup Flow!Ended
  BY <1>1, <1>2 DEF Flow!AtWork, Flow!Ended, Flow!Succeeded
<1>6. \A v \in branch : v \in Flow!ToSet(flow.def.subs[u]) =>
        r.status = "COMPLETED" /\ unit[v].status \in Flow!Ended
  BY <1>1 DEF Flow!AttemptSucceeds, Flow!SubsTaken
<1>7. /\ r.attempts > 0 => r.attempts <= flow.def.tries[u]
      /\ r.status # "RETRYING"
  BY <1>1 DEF FlowInv, FlowAttempts
<1> QED
  BY <1>3, <1>4, <1>5, <1>6, <1>7, WorkMoves

LEMMA AttemptIsLost ==
    ASSUME Flow!WorkflowAssumption, FlowInv, NEW u \in Units, Flow!AttemptFails(u)
    PROVE  FlowInv'
<1>1. PICK s : /\ s \in {"RETRYING", "FALLING_BACK", "FAILED"}
               /\ s = "RETRYING" => unit[u].attempts < flow.def.tries[u]
               /\ unit' = [unit EXCEPT ![u].status = s]
  <2>1. PICK again \in Flow!ShouldRetry(u) :
          unit' = [unit EXCEPT ![u].status = IF again THEN "RETRYING" ELSE Flow!FinalStatus(u)]
    BY DEF Flow!AttemptFails, Flow!Sets
  <2>2. Flow!FinalStatus(u) \in {"FALLING_BACK", "FAILED"}
    BY DEF Flow!FinalStatus
  <2>3. CASE again
    <3>1. again = TRUE
      BY <2>3 DEF Flow!ShouldRetry
    <3>2. unit[u].attempts < flow.def.tries[u]
      BY <3>1 DEF Flow!ShouldRetry
    <3>3. unit' = [unit EXCEPT ![u].status = "RETRYING"]
      BY <2>1, <2>3
    <3> QED
      BY <3>2, <3>3
  <2>4. CASE ~ again
    <3>1. unit' = [unit EXCEPT ![u].status = Flow!FinalStatus(u)]
      BY <2>1, <2>4
    <3>2. Flow!FinalStatus(u) # "RETRYING"
      BY <2>2
    <3> QED
      BY <2>2, <3>1, <3>2
  <2> QED
    BY <2>3, <2>4
<1>2. unit[u] \in Results /\ unit[u].status = "RUNNING" /\ UNCHANGED <<flow, branch, todo, outcome>>
  BY DEF FlowInv, FlowTypes, Flow!AttemptFails
<1>3. PICK r : r = [status |-> s, attempts |-> unit[u].attempts]
  OBVIOUS
<1>4. r \in Results /\ [unit[u] EXCEPT !.status = s] = r
  BY <1>1, <1>2, <1>3 DEF Results, Flow!AtWork, Flow!Ended, Flow!Succeeded
<1>5. unit' = [unit EXCEPT ![u] = r]
  BY <1>1, <1>4
<1>6. unit[u].status \in Flow!AtWork /\ r.status \in Flow!AtWork \cup Flow!Ended
  BY <1>1, <1>2, <1>3 DEF Flow!AtWork, Flow!Ended, Flow!Succeeded
<1>7. \A v \in branch : v \notin Flow!ToSet(flow.def.subs[u])
  <2>1. SUFFICES ASSUME NEW v \in branch, v \in Flow!ToSet(flow.def.subs[u]) PROVE FALSE
    OBVIOUS
  <2>2. outcome = "RUNNING"
    BY DEF FlowInv, FlowPhase
  <2>3. BelongsTo(unit, v, u)
    BY <2>1, <2>2, BranchFacts
  <2>4. flow.def.kind[u] \in {"parallel", "condition"} /\ (flow.def.kind[u] = "parallel" => Flow!Parallel(u))
    <3>1. flow.def.kind[u] \in {"leaf", "parallel", "condition"}
      BY <2>2, TopFacts DEF Flow!FlowOK
    <3> QED
      BY <2>3, <3>1 DEF BelongsTo
  <2>5. flow.def.kind[u] = "condition" => v \notin branch
    BY <2>1 DEF Flow!AttemptFails, Flow!SubsTaken
  <2> QED
    BY <2>4, <2>5 DEF Flow!AttemptFails
<1>8. /\ r.attempts > 0 => r.attempts <= flow.def.tries[u]
      /\ r.status = "RETRYING" => r.attempts < flow.def.tries[u]
  BY <1>1, <1>3 DEF FlowInv, FlowAttempts
<1> QED
  BY <1>2, <1>4, <1>5, <1>6, <1>7, <1>8, WorkMoves

LEMMA AttemptIsRetried ==
    ASSUME Flow!WorkflowAssumption, FlowInv, NEW u \in Units, Flow!Retries(u)
    PROVE  FlowInv'
<1>1. /\ unit[u] \in Results /\ unit[u].status = "RETRYING" /\ UNCHANGED <<flow, branch, todo, outcome>>
      /\ unit[u].attempts \in Nat
  BY DEF FlowInv, FlowTypes, Flow!Retries, Results
<1>2. PICK r : r = [status |-> "RUNNING", attempts |-> unit[u].attempts + 1]
  OBVIOUS
<1>3. unit[u].attempts + 1 \in Nat
  BY <1>1
<1>4. r \in Results
  BY <1>2, <1>3 DEF Results, Flow!AtWork
<1>5. unit' = [unit EXCEPT ![u] = r]
  BY <1>2 DEF Flow!Retries, Flow!Attempts
<1>6. unit[u].status \in Flow!AtWork /\ r.status \in Flow!AtWork \cup Flow!Ended
  BY <1>1, <1>2 DEF Flow!AtWork
<1>7. \A v \in branch : v \notin Flow!ToSet(flow.def.subs[u])
  <2>1. outcome = "RUNNING"
    BY <1>6 DEF FlowInv, FlowPhase
  <2> QED
    BY <1>1, <2>1, BranchFacts DEF BelongsTo
<1>8. outcome = "RUNNING"
  BY <1>6 DEF FlowInv, FlowPhase
<1>9. flow.def.tries[u] \in Nat
  BY <1>8, TopFacts
<1>10. /\ r.attempts > 0 => r.attempts <= flow.def.tries[u]
       /\ r.status # "RETRYING"
  <2>1. unit[u].attempts < flow.def.tries[u]
    BY <1>1 DEF FlowInv, FlowAttempts
  <2> QED
    BY <1>1, <1>2, <1>9, <2>1
<1> QED
  BY <1>4, <1>5, <1>1, <1>6, <1>7, <1>10, WorkMoves

LEMMA FallbackIsOver ==
    ASSUME Flow!WorkflowAssumption, FlowInv, NEW u \in Units, Flow!FallbackEnds(u)
    PROVE  FlowInv'
<1>1. PICK s : s \in {"FAILED", "FALLBACK"} /\ unit' = [unit EXCEPT ![u].status = s]
  BY DEF Flow!FallbackEnds, Flow!Sets
<1>2. unit[u] \in Results /\ unit[u].status = "FALLING_BACK" /\ UNCHANGED <<flow, branch, todo, outcome>>
  BY DEF FlowInv, FlowTypes, Flow!FallbackEnds
<1>3. PICK r : r = [status |-> s, attempts |-> unit[u].attempts]
  OBVIOUS
<1>4. r \in Results /\ [unit[u] EXCEPT !.status = s] = r
  BY <1>1, <1>2, <1>3 DEF Results, Flow!AtWork, Flow!Ended, Flow!Succeeded
<1>5. unit' = [unit EXCEPT ![u] = r]
  BY <1>1, <1>4
<1>6. unit[u].status \in Flow!AtWork /\ r.status \in Flow!AtWork \cup Flow!Ended
  BY <1>1, <1>2, <1>3 DEF Flow!AtWork, Flow!Ended, Flow!Succeeded
<1>7. \A v \in branch : v \notin Flow!ToSet(flow.def.subs[u])
  <2>1. outcome = "RUNNING"
    BY <1>6 DEF FlowInv, FlowPhase
  <2> QED
    BY <1>2, <2>1, BranchFacts DEF BelongsTo
<1>8. /\ r.attempts > 0 => r.attempts <= flow.def.tries[u]
      /\ r.status # "RETRYING"
  BY <1>1, <1>3 DEF FlowInv, FlowAttempts
<1> QED
  BY <1>2, <1>4, <1>5, <1>6, <1>7, <1>8, WorkMoves

\* What has not been taken up is not at work.
LEMMA StartRecord ==
    ASSUME Flow!WorkflowAssumption, FlowInv, NEW u \in Units, unit[u].status = "PENDING",
           Flow!Attempts(u), outcome = "RUNNING"
    PROVE  \E r \in Results : /\ unit' = [unit EXCEPT ![u] = r] /\ r.status = "RUNNING"
                              /\ r.attempts > 0 => r.attempts <= flow.def.tries[u]
<1>1. unit[u].attempts = 0
  BY DEF FlowInv, FlowAttempts
<1>2. PICK r : r = [status |-> "RUNNING", attempts |-> 1]
  OBVIOUS
<1>3. r \in Results
  BY <1>2 DEF Results, Flow!AtWork
<1>4. [status |-> "RUNNING", attempts |-> unit[u].attempts + 1] = r
  BY <1>1, <1>2
<1>5. unit' = [unit EXCEPT ![u] = r]
  BY <1>4 DEF Flow!Attempts
<1>6. flow.def.tries[u] \in Nat \ {0}
  BY TopFacts
<1>7. r.attempts <= flow.def.tries[u]
  BY <1>2, <1>6
<1> QED
  BY <1>2, <1>3, <1>5, <1>7

\* A step or sub-step starts, with all its sub-steps if it is a parallel one.
LEMMA UnitStarts ==
    ASSUME Flow!WorkflowAssumption, FlowInv, outcome = "RUNNING", NEW u \in Units,
           unit[u].status = "PENDING", u = Head(todo) \/ u \in branch,
           Flow!Starts(u), UNCHANGED <<flow, todo, outcome>>,
           \A p \in Units : u \in Flow!ToSet(flow.def.subs[p]) => Cardinality(BusyIn(unit, p)) < MaxParallelism
    PROVE  FlowInv'
<1>1. PICK below \in SUBSET Units : below = Flow!ToSet(flow.def.subs[u]) /\ below \cap Flow!Top = {}
  BY SubsFacts
<1>2. PICK new \in SUBSET below : /\ new = (IF Flow!Parallel(u) THEN below ELSE {})
                                 /\ branch' = branch \cup new /\ Flow!Attempts(u)
  BY <1>1 DEF Flow!Starts
<1>3. PICK r \in Results : /\ unit' = [unit EXCEPT ![u] = r] /\ r.status = "RUNNING"
                           /\ r.attempts > 0 => r.attempts <= flow.def.tries[u]
  BY <1>2, StartRecord
<1>4. /\ unit'[u] = r /\ \A v \in Units : v # u => unit'[v] = unit[v]
      /\ MaxParallelism \in Nat /\ unit[u].status \notin Flow!AtWork /\ unit[u].status \notin Flow!Ended
  BY <1>3 DEF FlowInv, FlowTypes, Flow!WorkflowAssumption, Flow!AtWork, Flow!Ended, Flow!Succeeded
<1>5. branch \in SUBSET Units /\ branch \cap Flow!Top = {} /\ Head(todo) \in Units
  BY BranchFacts
<1>6. branch' # {} => flow.handled /\ unit'[Head(todo')].status # "PENDING"
  <2>1. CASE u = Head(todo)
    <3>1. branch = {}
      BY <2>1 DEF FlowInv, FlowBranch
    <3> QED
      BY <1>2, <1>3, <1>4, <2>1, <3>1 DEF Flow!Parallel
  <2>2. CASE u # Head(todo)
    <3>1. flow.handled /\ unit[Head(todo)].status # "PENDING"
      BY <2>2 DEF FlowInv, FlowBranch
    <3> QED
      BY <1>4, <1>5, <2>2, <3>1
  <2> QED
    BY <2>1, <2>2
<1>7. ASSUME NEW v \in branch'
      PROVE  v \notin Flow!Top /\ \E p \in branch' \cup {Head(todo')} : BelongsTo(unit', v, p)
  <2>1. CASE v \in new
    <3>1. Flow!Parallel(u) /\ v \in Flow!ToSet(flow.def.subs[u])
      BY <1>1, <1>2, <2>1
    <3>2. BelongsTo(unit', v, u)
      BY <1>3, <1>4, <3>1 DEF BelongsTo, Flow!Parallel
    <3> QED
      BY <1>1, <1>2, <2>1, <3>2
  <2>2. CASE v \in branch
    <3>1. PICK p \in branch \cup {Head(todo)} : BelongsTo(unit, v, p)
      BY <2>2, BranchFacts
    <3>2. p # u /\ p \in Units /\ v \in Units
      BY <1>5, <2>2, <3>1 DEF BelongsTo
    <3>3. BelongsTo(unit', v, p)
      BY <1>4, <3>1, <3>2 DEF BelongsTo
    <3> QED
      BY <1>2, <1>5, <2>2, <3>1, <3>3
  <2> QED
    BY <1>2, <1>7, <2>1, <2>2
<1>8. ASSUME NEW p \in Units PROVE Cardinality(BusyIn(unit', p)) <= MaxParallelism
  <2>1. PICK E, F : E = BusyIn(unit, p) /\ F = BusyIn(unit', p)
    OBVIOUS
  <2>2. IsFiniteSet(E) /\ Cardinality(E) <= MaxParallelism /\ Flow!ToSet(flow.def.subs[p]) \in SUBSET Units
    BY <2>1, SubsFacts DEF FlowInv, FlowBranch
  <2>3. Cardinality(E) \in Nat /\ u \notin E
    BY <1>4, <2>1, <2>2, FS_CardinalityType DEF BusyIn
  <2>4. CASE u \in Flow!ToSet(flow.def.subs[p])
    <3>1. r.status \in Flow!AtWork
      BY <1>3 DEF Flow!AtWork
    <3>2. F = E \cup {u}
      BY <1>4, <2>1, <2>2, <2>4, <3>1 DEF BusyIn
    <3>3. Cardinality(F) = Cardinality(E) + 1 /\ Cardinality(E) < MaxParallelism
      BY <2>1, <2>2, <2>3, <2>4, <3>2, FS_AddElement
    <3> QED
      BY <1>4, <2>1, <2>3, <3>3
  <2>5. CASE u \notin Flow!ToSet(flow.def.subs[p])
    <3>1. F = E
      BY <1>4, <2>1, <2>2, <2>5 DEF BusyIn
    <3> QED
      BY <2>1, <2>2, <3>1
  <2> QED
    BY <2>4, <2>5
<1>9. FlowBranch'
  BY <1>6, <1>7, <1>8, BranchNext
<1>10. /\ unit[u].status \in {"PENDING"} \cup Flow!AtWork /\ r.status \in Flow!AtWork \cup Flow!Ended
       /\ u = Head(todo) \/ u \notin Flow!Top
       /\ u = Head(todo) \/ u \in branch'
       /\ branch' \in SUBSET Units /\ branch \subseteq branch' /\ r.status # "RETRYING"
  BY <1>1, <1>2, <1>3, <1>5 DEF Flow!AtWork
<1> QED
  BY <1>3, <1>9, <1>10, UnitMoves

LEMMA StepIsStarted ==
    ASSUME Flow!WorkflowAssumption, FlowInv, Flow!StepStarts
    PROVE  FlowInv'
<1>1. PICK h \in Units : h = Head(todo) /\ h \in Flow!Top
  BY HeadFacts DEF FlowInv, Flow!StepStarts
<1>2. outcome = "RUNNING" /\ unit[h].status = "PENDING" /\ Flow!Starts(h) /\ UNCHANGED <<flow, todo, outcome>>
  BY <1>1 DEF Flow!StepStarts
<1>3. \A p \in Units : h \notin Flow!ToSet(flow.def.subs[p])
  BY <1>1, <1>2, SubsFacts
<1> QED
  BY <1>1, <1>2, <1>3, UnitStarts

LEMMA FlowCardinality == \A S : Flow!Cardinality(S) = Cardinality(S)
  BY DEF Flow!Cardinality, Cardinality

LEMMA SubIsStarted ==
    ASSUME Flow!WorkflowAssumption, FlowInv, NEW u \in Units, Flow!SubStarts(u)
    PROVE  FlowInv'
<1>1. /\ u \in branch /\ unit[u].status = "PENDING" /\ Flow!Starts(u)
      /\ UNCHANGED <<flow, todo, outcome>>
  BY Zenon DEF Flow!SubStarts
<1>2. PICK p \in Units : /\ Flow!Cardinality(Flow!Busy(p)) < MaxParallelism
                         /\ \E i \in DOMAIN flow.def.subs[p] : flow.def.subs[p][i] = u
  BY Zenon DEF Flow!SubStarts
<1>3. outcome = "RUNNING"
  BY <1>1 DEF FlowInv, FlowPhase
<1>4. u \in Flow!ToSet(flow.def.subs[p])
  BY <1>2, ToSetIs
<1>5. Cardinality(BusyIn(unit, p)) < MaxParallelism
  <2>1. Flow!Busy(p) = BusyIn(unit, p)
    BY DEF Flow!Busy, BusyIn
  <2> QED
    BY <1>2, <2>1, FlowCardinality
<1>6. \A q \in Units : u \in Flow!ToSet(flow.def.subs[q]) => q = p
  BY <1>3, <1>4, SubsFacts
<1> QED
  BY <1>1, <1>3, <1>5, <1>6, UnitStarts

LEMMA BranchIsTaken ==
    ASSUME Flow!WorkflowAssumption, FlowInv, NEW u \in Units, Flow!BranchTaken(u)
    PROVE  FlowInv'
<1>1. /\ flow.handled /\ flow.def.kind[u] = "condition" /\ unit[u].status = "RUNNING"
      /\ UNCHANGED <<flow, unit, todo, outcome>>
  BY DEF Flow!BranchTaken
<1>2. PICK b \in Flow!ToSet(flow.def.subs[u]) : branch' = branch \cup {b}
  BY DEF Flow!BranchTaken
<1>3. outcome = "RUNNING" /\ (u = Head(todo) \/ u \in branch)
  BY <1>1 DEF FlowInv, FlowPhase, Flow!AtWork
<1>4. b \in Units /\ b \notin Flow!Top
  BY <1>3, SubsFacts
<1>5. branch \in SUBSET Units /\ branch \cap Flow!Top = {}
  BY <1>3, BranchFacts
<1>6. FlowBranch'
  <2>1. flow.handled /\ unit'[Head(todo')].status # "PENDING"
    BY <1>1, <1>3 DEF FlowInv, FlowBranch
  <2>2. BelongsTo(unit', b, u)
    BY <1>1 DEF BelongsTo
  <2>3. \A v \in branch' : v \notin Flow!Top /\ \E p \in branch' \cup {Head(todo')} : BelongsTo(unit', v, p)
    <3>1. ASSUME NEW v \in branch' PROVE v \notin Flow!Top /\ \E p \in branch' \cup {Head(todo')} : BelongsTo(unit', v, p)
      <4>1. CASE v = b
        BY <1>1, <1>2, <1>3, <1>4, <2>2, <4>1
      <4>2. CASE v \in branch
        <5>1. PICK p \in branch \cup {Head(todo)} : BelongsTo(unit, v, p)
          BY <1>3, <4>2, BranchFacts
        <5>2. BelongsTo(unit', v, p) /\ p \in branch' \cup {Head(todo')}
          BY <1>1, <1>2, <5>1
        <5> QED
          BY <1>5, <4>2, <5>2
      <4> QED
        BY <1>2, <3>1, <4>1, <4>2
    <3> QED
      BY <3>1
  <2>4. \A p \in Units : Cardinality(BusyIn(unit', p)) <= MaxParallelism
    BY <1>1, <1>3 DEF FlowInv, FlowBranch
  <2> QED
    BY <1>1, <2>1, <2>3, <2>4, BranchNext
<1>7. Flow!Top' = Flow!Top /\ flow' = flow /\ unit' = unit /\ todo' = todo /\ outcome' = outcome
  BY <1>1 DEF Flow!Top
<1>8. FlowTypes'
  BY <1>2, <1>4, <1>5, <1>7 DEF FlowInv, FlowTypes
<1>9. FlowPlan' /\ FlowOrder'
  BY <1>7 DEF FlowInv, FlowPlan, FlowOrder
<1>10. FlowAttempts' /\ FlowEnds'
  BY <1>7 DEF FlowInv, FlowAttempts, FlowEnds
<1>11. FlowPhase'
  BY <1>2, <1>3, <1>7 DEF FlowInv, FlowPhase
<1> QED
  BY <1>6, <1>8, <1>9, <1>10, <1>11 DEF FlowInv

\* When the step at work has ended, so has everything in it: of the units at work
\* one lies least deep, and the step it lies in would be at work too.
LEMMA NothingAtWork ==
    ASSUME Flow!WorkflowAssumption, FlowInv, outcome = "RUNNING",
           unit[Head(todo)].status \notin Flow!AtWork
    PROVE  \A v \in Units : unit[v].status \notin Flow!AtWork
<1>1. SUFFICES ASSUME NEW w \in Units, unit[w].status \in Flow!AtWork PROVE FALSE
  OBVIOUS
<1>2. PICK D : D = {flow.def.depth[v] : v \in {x \in Units : unit[x].status \in Flow!AtWork}}
  OBVIOUS
<1>3. D \in SUBSET Nat /\ D # {}
  BY <1>1, <1>2, SubsFacts
<1>4. PICK d \in D : \A e \in D : d <= e
  BY <1>3, LeastNat
<1>5. PICK v \in Units : unit[v].status \in Flow!AtWork /\ d = flow.def.depth[v]
  BY <1>2, <1>4
<1>6. v \in branch
  BY <1>5 DEF FlowInv, FlowPhase
<1>7. PICK p \in Units : BelongsTo(unit, v, p)
  BY <1>6, BranchFacts
<1>8. unit[p].status \in Flow!AtWork
  BY <1>5, <1>7 DEF BelongsTo, Flow!AtWork, Flow!Ended, Flow!Succeeded
<1>9. flow.def.depth[p] \in D /\ flow.def.depth[p] < flow.def.depth[v]
  BY <1>2, <1>7, <1>8, SubsFacts DEF BelongsTo
<1>10. flow.def.depth[p] \in Nat /\ flow.def.depth[v] \in Nat
  BY <1>5, SubsFacts
<1> QED
  BY <1>4, <1>5, <1>9, <1>10

LEMMA StepIsOver ==
    ASSUME Flow!WorkflowAssumption, FlowInv, Flow!StepEnds
    PROVE  FlowInv'
<1>1. /\ outcome = "RUNNING" /\ unit[Head(todo)].status \in Flow!Succeeded
      /\ todo' = Tail(todo) /\ branch' = {} /\ flow' = flow /\ unit' = unit
      /\ outcome' = IF Len(todo) = 1 THEN "COMPLETED" ELSE outcome
  BY DEF Flow!StepEnds
<1>2. PICK h \in Units : /\ h = Head(todo) /\ h = todo[1] /\ h \in Flow!Top /\ 1 \in DOMAIN todo
                         /\ unit[h].status \in Flow!Succeeded
  BY <1>1, HeadFacts DEF FlowInv
<1>3. PICK l \in Nat : l = Len(todo) /\ DOMAIN todo = 1 .. l
  BY DEF FlowInv, FlowTypes
<1>4. todo \in Seq(Units) /\ todo # <<>> /\ Distinct(todo) /\ l >= 1
  BY <1>1, <1>2, <1>3 DEF FlowInv, FlowTypes, FlowPlan
<1>5. PICK rest \in Seq(Units) : /\ rest = Tail(todo) /\ Len(rest) = l - 1 /\ DOMAIN rest = 1 .. l - 1
                                 /\ \A i \in 1 .. l - 1 : rest[i] = todo[i + 1]
  <2>1. /\ Tail(todo) \in Seq(Units) /\ Len(Tail(todo)) = l - 1 /\ DOMAIN Tail(todo) = 1 .. l - 1
        /\ \A i \in 1 .. l - 1 : Tail(todo)[i] = todo[i + 1]
    BY <1>3, <1>4, TailIs
  <2> QED
    BY <2>1
<1>6. Flow!Top' = Flow!Top
  BY <1>1 DEF Flow!Top
<1>7. \A v \in Units : unit[v].status \notin Flow!AtWork
  <2>1. unit[Head(todo)].status \notin Flow!AtWork
    BY <1>2 DEF Flow!AtWork, Flow!Succeeded
  <2> QED
    BY <1>1, <2>1, NothingAtWork
<1>8. FlowTypes'
  BY <1>1, <1>5 DEF FlowInv, FlowTypes
<1>9. FlowPhase'
  <2>1. outcome' \in {"RUNNING", "COMPLETED"}
    BY <1>1
  <2>2. flow.def \in Flows /\ \A v \in Units : unit[v].status # "SKIPPED"
    BY <1>1 DEF FlowInv, FlowPhase
  <2> QED
    BY <1>1, <1>7, <2>1, <2>2 DEF FlowPhase, Flow!AtWork
<1>10. \A v : v \in Flow!ToSet(todo) => v = h \/ v \in Flow!ToSet(rest)
  <2>1. ASSUME NEW v, v \in Flow!ToSet(todo), v # h PROVE v \in Flow!ToSet(rest)
    <3>1. PICK i \in 1 .. l : v = todo[i]
      BY <1>3, <2>1, ToSetIs
    <3>2. i # 1
      BY <1>2, <2>1, <3>1
    <3>3. i - 1 \in 1 .. l - 1 /\ (i - 1) + 1 = i
      BY <3>1, <3>2
    <3>4. rest[i - 1] = v
      BY <1>5, <3>1, <3>3
    <3> QED
      BY <1>5, <3>3, <3>4, ToSetIs
  <2> QED
    BY <2>1
<1>11. \A v \in Flow!Top : v \notin Flow!ToSet(rest) => unit[v].status \in Flow!Succeeded
  BY <1>1, <1>2, <1>10 DEF FlowInv, FlowPlan
<1>12. FlowPlan'
  <2>1. CASE l = 1
    BY <1>1, <1>3, <2>1 DEF FlowPlan
  <2>2. CASE l # 1
    <3>1. rest # <<>>
      BY <1>4, <1>5, <2>2
    <3>2. Distinct(rest)
      <4>1. ASSUME NEW i \in 1 .. l - 1, NEW j \in 1 .. l - 1, rest[i] = rest[j] PROVE i = j
        <5>1. i + 1 \in 1 .. l /\ j + 1 \in 1 .. l /\ todo[i + 1] = todo[j + 1]
          BY <1>5, <4>1
        <5>2. i + 1 = j + 1
          BY <1>3, <1>4, <5>1 DEF Distinct
        <5> QED
          BY <5>2
      <4> QED
        BY <1>5, <4>1 DEF Distinct
    <3>3. ASSUME NEW i \in DOMAIN rest
          PROVE  /\ rest[i] \in Flow!Top
                 /\ i # 1 => unit[rest[i]].status = "PENDING"
                 /\ \A d \in flow.def.deps[rest[i]] :
                      \/ d \in Flow!Top /\ unit[d].status \in Flow!Succeeded
                      \/ \E j \in DOMAIN rest : j < i /\ rest[j] = d
      <4>1. PICK k \in 1 .. l : k = i + 1 /\ rest[i] = todo[k] /\ k # 1
        BY <1>5
      <4>2. todo[k] \in Flow!Top /\ unit[todo[k]].status = "PENDING"
        BY <1>1, <1>3, <4>1 DEF FlowInv, FlowPlan
      <4>3. ASSUME NEW d \in flow.def.deps[todo[k]], ~ (d \in Flow!Top /\ unit[d].status \in Flow!Succeeded)
            PROVE  \E j \in DOMAIN rest : j < i /\ rest[j] = d
        <5>1. PICK j \in 1 .. l : j < k /\ todo[j] = d
          BY <1>1, <1>3, <4>1, <4>3 DEF FlowInv, FlowPlan
        <5>2. j # 1
          BY <1>2, <4>3, <5>1
        <5>3. j - 1 \in 1 .. l - 1 /\ (j - 1) + 1 = j /\ j - 1 < i
          BY <4>1, <5>1, <5>2
        <5>4. rest[j - 1] = d
          BY <1>5, <5>1, <5>3
        <5> QED
          BY <1>5, <5>3, <5>4
      <4> QED
        BY <4>1, <4>2, <4>3
    <3>4. FlowPlan' <=> (outcome' = "RUNNING" =>
      /\ todo' # <<>> /\ Distinct(todo')
      /\ \A i \in DOMAIN todo' :
           /\ todo'[i] \in Flow!Top'
           /\ i # 1 => unit'[todo'[i]].status = "PENDING"
           /\ \A d \in flow'.def.deps[todo'[i]] :
                \/ d \in Flow!Top' /\ unit'[d].status \in Flow!Succeeded
                \/ \E j \in DOMAIN todo' : j < i /\ todo'[j] = d
      /\ \A v \in Flow!Top' : v \notin Flow!ToSet(todo') => unit'[v].status \in Flow!Succeeded)
      BY DEF FlowPlan, Distinct, Flow!Succeeded, Flow!ToSet
    <3> QED
      BY <1>1, <1>5, <1>6, <1>11, <3>1, <3>2, <3>3, <3>4
  <2> QED
    BY <2>1, <2>2
<1>13. FlowOrder' /\ FlowAttempts'
  BY <1>1, <1>6 DEF FlowInv, FlowOrder, FlowAttempts
<1>14. FlowBranch'
  <2>1. \A p \in Units : Cardinality(BusyIn(unit', p)) <= MaxParallelism
    BY <1>1 DEF FlowInv, FlowBranch
  <2> QED
    BY <1>1, <2>1, BranchNext
<1>15. FlowEnds'
  <2>1. CASE l = 1
    <3>1. Flow!ToSet(rest) = {}
      <4>1. DOMAIN rest = {}
        BY <1>5, <2>1
      <4>2. Flow!ToSet(rest) = {rest[i] : i \in DOMAIN rest}
        BY ToSetIs
      <4> QED
        BY <4>1, <4>2
    <3>2. \A v \in Flow!Top : unit[v].status \in Flow!Succeeded
      BY <1>11, <3>1
    <3> QED
      BY <1>1, <1>3, <1>6, <2>1, <3>2 DEF FlowEnds
  <2>2. CASE l # 1
    BY <1>1, <1>3, <2>2 DEF FlowEnds
  <2> QED
    BY <2>1, <2>2
<1> QED
  BY <1>8, <1>9, <1>12, <1>13, <1>14, <1>15 DEF FlowInv

\* What lies below a step that failed has not begun, and is skipped.
LEMMA StepHasFailed ==
    ASSUME Flow!WorkflowAssumption, FlowInv, Flow!StepFailed
    PROVE  FlowInv'
<1>1. PICK h \in Units : /\ h = Head(todo) /\ h \in Flow!Top
                         /\ \A v \in Flow!Top : v # h => unit[v].status \in Flow!Succeeded \cup {"PENDING"}
  BY HeadFacts DEF FlowInv, Flow!StepFailed
<1>2. PICK D : D = Flow!Downstream(flow.def, h)
  OBVIOUS
<1>3. /\ outcome = "RUNNING" /\ unit[h].status = "FAILED"
      /\ unit' = [u \in Units |-> IF u \in D /\ unit[u].status = "PENDING"
                                 THEN [unit[u] EXCEPT !.status = "SKIPPED"] ELSE unit[u]]
      /\ todo' = <<>> /\ branch' = {} /\ outcome' = "FAILED" /\ flow' = flow
  BY <1>1, <1>2 DEF Flow!StepFailed
<1>4. Flow!Top' = Flow!Top /\ Flow!Top = Flow!ToSet(flow.def.order) /\ Flow!Top \subseteq Units /\ flow.def \in Flows
  BY <1>3, TopFacts DEF Flow!Top
<1>5. \A u \in Units : unit[u] \in Results /\ unit[u].status # "SKIPPED"
  BY <1>3 DEF FlowInv, FlowTypes, FlowPhase
<1>6. ASSUME NEW u \in Units, u \in D, unit[u].status = "PENDING"
      PROVE  unit'[u] \in Results /\ unit'[u].status = "SKIPPED" /\ unit'[u].attempts = unit[u].attempts
  <2>1. PICK r : r = [unit[u] EXCEPT !.status = "SKIPPED"]
    OBVIOUS
  <2>2. r \in Results /\ r.status = "SKIPPED" /\ r.attempts = unit[u].attempts
    BY <1>5, <2>1 DEF Results
  <2>3. unit'[u] = r
    BY <1>3, <1>6, <2>1
  <2> QED
    BY <2>2, <2>3
<1>7. \A u \in Units : ~ (u \in D /\ unit[u].status = "PENDING") => unit'[u] = unit[u]
  BY <1>3
<1>8. D \subseteq {c \in Flow!Top : unit[c].status = "PENDING"}
  <2>1. PICK R \in SUBSET Flow!Top : R = {c \in Flow!Top : unit[c].status = "PENDING"}
    OBVIOUS
  <2>2. ASSUME NEW c \in Flow!Top, flow.def.deps[c] \cap (R \cup {h}) # {} PROVE c \in R
    <3>1. PICK d \in flow.def.deps[c] : d \in R \/ d = h
      BY <2>2
    <3>2. unit[d].status \notin Flow!Succeeded
      BY <1>3, <2>1, <3>1 DEF Flow!Succeeded
    <3>3. unit[c].status \in {"PENDING", "SKIPPED"}
      BY <3>2 DEF FlowInv, FlowOrder
    <3> QED
      BY <1>4, <1>5, <2>1, <3>3
  <2>3. PICK f : f = flow.def
    OBVIOUS
  <2>4. Flow!Downstream(f, h) \subseteq R
    <3>1. R \in SUBSET Flow!ToSet(f.order)
      BY <1>4, <2>3
    <3>2. \A c \in Flow!ToSet(f.order) : f.deps[c] \cap (R \cup {h}) # {} => c \in R
      BY <1>4, <2>2, <2>3
    <3> QED
      BY <3>1, <3>2, DownstreamWithin
  <2> QED
    BY <1>2, <2>1, <2>3, <2>4
<1>9. h \notin D
  BY <1>3, <1>8
<1>10. ASSUME NEW u \in Flow!Top
       PROVE  /\ unit'[u].status = "SKIPPED" <=> u \in D
              /\ u \notin D => unit'[u] = unit[u]
              /\ u \in D <=> \E d \in flow.def.deps[u] : d = h \/ d \in D
  <2>1. u \in D => unit[u].status = "PENDING"
    BY <1>8
  <2>2. unit'[u].status = "SKIPPED" <=> u \in D
    BY <1>4, <1>5, <1>6, <1>7, <2>1
  <2>3. u \in D <=> \E d \in flow.def.deps[u] : d = h \/ d \in D
    <3>1. PICK f : f = flow.def
      OBVIOUS
    <3>2. u \in Flow!Downstream(f, h) <=> \E d \in f.deps[u] : d = h \/ d \in Flow!Downstream(f, h)
      BY <1>4, <3>1, DownstreamIs
    <3> QED
      BY <1>2, <3>1, <3>2
  <2> QED
    BY <1>4, <1>7, <2>2, <2>3
<1>11. \A u \in Units : unit'[u] \in Results /\ unit'[u].status \notin Flow!AtWork
  <2>1. ASSUME NEW u \in Units PROVE unit'[u] \in Results /\ unit'[u].status \notin Flow!AtWork
    <3>1. CASE u \in D /\ unit[u].status = "PENDING"
      BY <1>6, <3>1 DEF Flow!AtWork
    <3>2. CASE ~ (u \in D /\ unit[u].status = "PENDING")
      <4>1. unit[u].status \notin Flow!AtWork
        <5>1. unit[Head(todo)].status \notin Flow!AtWork
          BY <1>1, <1>3 DEF Flow!AtWork
        <5> QED
          BY <1>3, <5>1, NothingAtWork
      <4> QED
        BY <1>5, <1>7, <3>2, <4>1
    <3> QED
      BY <3>1, <3>2
  <2> QED
    BY <2>1
<1>12. FlowTypes'
  <2>1. unit' \in [Units -> Results]
    BY <1>3, <1>11
  <2> QED
    BY <1>3, <2>1 DEF FlowInv, FlowTypes
<1>13. FlowPhase' /\ FlowPlan'
  BY <1>3, <1>4, <1>11 DEF FlowPhase, FlowPlan, Flow!AtWork
<1>14. \A u \in Units : unit[u].status \in Flow!Succeeded => unit'[u] = unit[u]
  BY <1>7 DEF Flow!Succeeded
<1>15. FlowOrder'
  <2>1. ASSUME NEW u \in Flow!Top, unit'[u].status \notin {"PENDING", "SKIPPED"}, NEW d \in flow.def.deps[u]
        PROVE  d \in Flow!Top /\ unit'[d].status \in Flow!Succeeded
    <3>1. unit'[u] = unit[u]
      BY <1>10, <2>1
    <3>2. d \in Flow!Top /\ unit[d].status \in Flow!Succeeded
      BY <2>1, <3>1 DEF FlowInv, FlowOrder
    <3> QED
      BY <1>4, <1>14, <3>2
  <2>2. FlowOrder' <=> \A v \in Flow!Top' : unit'[v].status \notin {"PENDING", "SKIPPED"} =>
           \A d \in flow'.def.deps[v] : d \in Flow!Top' /\ unit'[d].status \in Flow!Succeeded
    BY DEF FlowOrder, Flow!Succeeded
  <2> QED
    BY <1>3, <1>4, <2>1, <2>2
<1>16. FlowBranch'
  BY <1>3, BranchNext
<1>17. FlowAttempts'
  <2>1. ASSUME NEW u \in Units
        PROVE  /\ unit'[u].status \in {"PENDING", "SKIPPED"} => unit'[u].attempts = 0
               /\ unit'[u].attempts > 0 => unit'[u].attempts <= flow.def.tries[u]
               /\ unit'[u].status # "RETRYING"
    <3>1. CASE u \in D /\ unit[u].status = "PENDING"
      <4>1. unit'[u].attempts = 0
        BY <1>6, <3>1 DEF FlowInv, FlowAttempts
      <4> QED
        BY <1>6, <3>1, <4>1
    <3>2. CASE ~ (u \in D /\ unit[u].status = "PENDING")
      BY <1>7, <1>11, <3>2 DEF FlowInv, FlowAttempts, Flow!AtWork
    <3> QED
      BY <3>1, <3>2
  <2> QED
    BY <1>3, <2>1 DEF FlowAttempts
<1>18. FlowEnds'
  <2>1. {u \in Flow!Top : unit'[u].status = "FAILED"} = {h}
    <3>1. ASSUME NEW u \in Flow!Top, unit'[u].status = "FAILED" PROVE u = h
      <4>1. unit'[u] = unit[u]
        BY <1>10, <3>1
      <4> QED
        BY <1>1, <3>1, <4>1 DEF Flow!Succeeded
    <3>2. unit'[h].status = "FAILED"
      BY <1>3, <1>7, <1>9
    <3> QED
      BY <1>1, <3>1, <3>2
  <2>2. ASSUME NEW u \in Flow!Top \ {h}
        PROVE  unit'[u].status = "SKIPPED" <=> \E d \in flow.def.deps[u] : d = h \/ unit'[d].status = "SKIPPED"
    <3>1. ASSUME unit'[u].status = "SKIPPED"
          PROVE  \E d \in flow.def.deps[u] : d = h \/ unit'[d].status = "SKIPPED"
      <4>1. PICK d \in flow.def.deps[u] : d = h \/ d \in D
        BY <1>10, <3>1
      <4>2. d \in D => unit'[d].status = "SKIPPED"
        BY <1>8, <1>10
      <4> QED
        BY <4>1, <4>2
    <3>2. ASSUME NEW d \in flow.def.deps[u], d = h \/ unit'[d].status = "SKIPPED"
          PROVE  unit'[u].status = "SKIPPED"
      <4>1. d \in Units
        BY <1>3, TopFacts DEF Flow!FlowOK
      <4>2. d = h \/ d \in D
        BY <1>5, <1>7, <3>2, <4>1
      <4> QED
        BY <1>10, <4>2
    <3> QED
      BY <3>1, <3>2
  <2>3. FlowEnds' <=>
    /\ outcome' = "COMPLETED" => \A u \in Flow!Top' : unit'[u].status \in Flow!Succeeded
    /\ outcome' = "FAILED" => \E s \in Flow!Top' :
         /\ {u \in Flow!Top' : unit'[u].status = "FAILED"} = {s}
         /\ \A u \in Flow!Top' \ {s} : unit'[u].status = "SKIPPED" <=>
              \E d \in flow'.def.deps[u] : d = s \/ unit'[d].status = "SKIPPED"
    BY DEF FlowEnds, Flow!Succeeded
  <2>4. outcome' # "COMPLETED" /\ Flow!Top' = Flow!Top /\ flow' = flow
    BY <1>3, <1>4
  <2>5. \A u \in Flow!Top' \ {h} : unit'[u].status = "SKIPPED" <=>
              \E d \in flow'.def.deps[u] : d = h \/ unit'[d].status = "SKIPPED"
    BY <2>2, <2>4
  <2>6. h \in Flow!Top' /\ {u \in Flow!Top' : unit'[u].status = "FAILED"} = {h}
    BY <1>1, <2>1, <2>4
  <2> QED
    BY <2>3, <2>4, <2>5, <2>6, Zenon
<1> QED
  BY <1>12, <1>13, <1>15, <1>16, <1>17, <1>18 DEF FlowInv

LEMMA FlowIsExecuted ==
    ASSUME Flow!WorkflowAssumption, FlowInv, Flow!Execute
    PROVE  FlowInv'
<1>1. PICK f \in Flows, handled \in BOOLEAN, o \in {Flow!TopologicalSort(x) : x \in Flows} :
        /\ o = Flow!TopologicalSort(f)
        /\ flow' = [def |-> f, handled |-> handled]
        /\ todo' = IF Len(o) = Len(f.order) THEN o ELSE <<>>
        /\ outcome' = IF ~(Len(o) = Len(f.order)) THEN "INVALID" ELSE IF o = <<>> THEN "COMPLETED" ELSE "RUNNING"
  BY DEF Flow!Execute
<1>2. outcome = "none" /\ unit' = unit /\ branch' = branch
  BY DEF Flow!Execute
<1>3. Flow!FlowOK(f)
  BY DEF Flow!WorkflowAssumption
<1>4. o \in Seq(Units) /\ Sorted(f, o)
  BY <1>1, <1>3, SortSorts DEF Sorted
<1>5. PICK E : E = Flow!ToSet(f.order)
  OBVIOUS
<1>6. flow'.def = f /\ flow'.handled = handled /\ Flow!Top' = E
  BY <1>1, <1>5 DEF Flow!Top, Flow!ToSet
<1>7. /\ \A u \in Units : unit[u].status = "PENDING" /\ unit[u].attempts = 0
      /\ branch = {} /\ unit \in [Units -> Results]
  BY <1>2 DEF FlowInv, FlowTypes, FlowPhase, FlowAttempts
<1>8. Len(o) = Len(f.order) => Flow!ToSet(o) = E
  BY <1>1, <1>3, <1>5, SortComplete
<1>9. outcome' \in {"INVALID", "COMPLETED", "RUNNING"}
  BY <1>1
<1>10. E \subseteq Units
  <2>1. PICK order \in Seq(Units) : order = f.order
    BY <1>3 DEF Flow!FlowOK
  <2> QED
    BY <1>5, <2>1, ToSetIs
<1>11. FlowTypes'
  <2>1. todo' \in Seq(Units)
    BY <1>1, <1>4
  <2>2. flow' = [def |-> flow'.def, handled |-> flow'.handled] /\ flow'.handled \in BOOLEAN
    BY <1>1, <1>6
  <2> QED
    BY <1>2, <1>7, <1>9, <2>1, <2>2 DEF FlowTypes, Results, Flow!AtWork, Flow!Ended, Flow!Succeeded
<1>12. FlowPhase'
  BY <1>2, <1>6, <1>7, <1>9 DEF FlowPhase, Flow!AtWork
<1>13. FlowPlan'
  <2> SUFFICES ASSUME outcome' = "RUNNING"
      PROVE  /\ todo' # <<>> /\ Distinct(todo')
             /\ \A i \in DOMAIN todo' :
                  /\ todo'[i] \in E
                  /\ i # 1 => unit'[todo'[i]].status = "PENDING"
                  /\ \A d \in flow'.def.deps[todo'[i]] : \E j \in DOMAIN todo' : j < i /\ todo'[j] = d
             /\ \A v \in E : v \in Flow!ToSet(todo')
    BY <1>6 DEF FlowPlan, Distinct, Flow!Succeeded, Flow!ToSet
  <2>1. todo' = o /\ o # <<>> /\ Len(o) = Len(f.order)
    BY <1>1
  <2>2. Flow!ToSet(o) = E
    BY <1>8, <2>1
  <2>3. /\ Distinct(o)
        /\ \A i \in DOMAIN o : /\ o[i] \in E
                               /\ \A d \in f.deps[o[i]] : \E j \in DOMAIN o : j < i /\ o[j] = d
    BY <1>4, <1>5 DEF Sorted
  <2>4. \A i \in DOMAIN o : unit'[o[i]].status = "PENDING"
    BY <1>2, <1>7, <1>10, <2>3
  <2> QED
    BY <1>6, <2>1, <2>2, <2>3, <2>4
<1>14. FlowOrder' /\ FlowAttempts'
  BY <1>2, <1>6, <1>7, <1>10 DEF FlowOrder, FlowAttempts
<1>15. FlowBranch'
  <2>1. ASSUME NEW p \in Units PROVE Cardinality(BusyIn(unit, p)') <= MaxParallelism
    <3>1. PICK F : F = BusyIn(unit, p)'
      OBVIOUS
    <3>2. Flow!ToSet(f.subs[p]) \subseteq Units
      <4>1. PICK below \in Seq(Units) : below = f.subs[p]
        BY <1>3 DEF Flow!FlowOK
      <4> QED
        BY <4>1, ToSetIs
    <3>3. F = {v \in Flow!ToSet(f.subs[p]) : unit[v].status \in Flow!AtWork}
      BY <1>2, <1>6, <3>1 DEF BusyIn, Flow!ToSet, Flow!AtWork
    <3>4. F = {}
      BY <1>7, <3>2, <3>3 DEF Flow!AtWork
    <3> QED
      BY <3>1, <3>4, FS_EmptySet DEF Flow!WorkflowAssumption
  <2>2. branch' = {}
    BY <1>2, <1>7
  <2> QED
    BY <2>1, <2>2 DEF FlowBranch
<1>16. FlowEnds'
  <2>1. ASSUME outcome' = "COMPLETED" PROVE E = {}
    <3>1. Len(o) = Len(f.order) /\ o = <<>>
      BY <1>1, <2>1
    <3>2. Flow!ToSet(o) = {}
      BY <3>1, ToSetIs
    <3> QED
      BY <1>8, <3>1, <3>2
  <2> QED
    BY <1>6, <1>9, <2>1 DEF FlowEnds
<1> QED
  BY <1>11, <1>12, <1>13, <1>14, <1>15, <1>16 DEF FlowInv

LEMMA FlowInvHolds == Flow!WorkflowAssumption /\ Flow!Init => FlowInv
<1> SUFFICES ASSUME Flow!WorkflowAssumption, Flow!Init PROVE FlowInv
  OBVIOUS
<1>1. PICK r : r = [status |-> "PENDING", attempts |-> 0]
  OBVIOUS
<1>2. /\ unit = [u \in Units |-> r] /\ branch = {} /\ todo = <<>> /\ outcome = "none"
      /\ flow = [def |-> Flow!NoFlow, handled |-> FALSE]
  BY <1>1 DEF Flow!Init
<1>3. r \in Results /\ unit \in [Units -> Results] /\ todo \in Seq(Units)
  BY <1>1, <1>2 DEF Results
<1>4. FlowTypes
  BY <1>2, <1>3 DEF FlowTypes
<1>5. \A u \in Units : unit[u].status = "PENDING" /\ unit[u].attempts = 0
  BY <1>1, <1>2
<1>6. FlowPhase /\ FlowPlan /\ FlowAttempts /\ FlowEnds
  BY <1>2, <1>5 DEF FlowPhase, FlowPlan, FlowAttempts, FlowEnds, Flow!AtWork
<1>7. FlowOrder
  <2>1. flow.def.order = <<>>
    BY <1>2 DEF Flow!NoFlow
  <2>2. Flow!Top = {}
    BY <2>1, ToSetIs DEF Flow!Top
  <2> QED
    BY <2>2 DEF FlowOrder
<1>8. FlowBranch
  BY <1>2 DEF FlowBranch
<1> QED
  BY <1>4, <1>6, <1>7, <1>8 DEF FlowInv

LEMMA FlowInvKept == Flow!WorkflowAssumption /\ FlowInv /\ [Flow!Next]_Flow!flowVars => FlowInv'
<1> SUFFICES ASSUME Flow!WorkflowAssumption, FlowInv, [Flow!Next]_Flow!flowVars PROVE FlowInv'
  OBVIOUS
<1>1. CASE Flow!Execute
  BY <1>1, FlowIsExecuted
<1>2. CASE Flow!StepStarts
  BY <1>2, StepIsStarted
<1>3. ASSUME NEW u \in Units, Flow!BranchTaken(u) PROVE FlowInv'
  BY <1>3, BranchIsTaken
<1>4. CASE Flow!StepEnds
  BY <1>4, StepIsOver
<1>5. CASE Flow!StepFailed
  BY <1>5, StepHasFailed
<1>6. ASSUME NEW u \in Units, Flow!SubStarts(u) PROVE FlowInv'
  BY <1>6, SubIsStarted
<1>7. ASSUME NEW u \in Units, Flow!AttemptSucceeds(u) PROVE FlowInv'
  BY <1>7, AttemptEnds
<1>8. ASSUME NEW u \in Units, Flow!AttemptFails(u) PROVE FlowInv'
  BY <1>8, AttemptIsLost
<1>9. ASSUME NEW u \in Units, Flow!Retries(u) PROVE FlowInv'
  BY <1>9, AttemptIsRetried
<1>10. ASSUME NEW u \in Units, Flow!FallbackEnds(u) PROVE FlowInv'
  BY <1>10, FallbackIsOver
<1>11. CASE UNCHANGED Flow!flowVars
  <2>1. flow' = flow /\ unit' = unit /\ branch' = branch /\ todo' = todo /\ outcome' = outcome
    BY <1>11 DEF Flow!flowVars
  <2>2. Flow!Top' = Flow!Top
    BY <2>1 DEF Flow!Top
  <2>3. FlowTypes' /\ FlowPhase' /\ FlowAttempts'
    BY <2>1 DEF FlowInv, FlowTypes, FlowPhase, FlowAttempts
  <2>4. FlowPlan' /\ FlowOrder'
    BY <2>1, <2>2 DEF FlowInv, FlowPlan, FlowOrder
  <2>5. FlowBranch' /\ FlowEnds'
    BY <2>1, <2>2, BranchNext DEF FlowInv, FlowBranch, FlowEnds
  <2> QED
    BY <2>3, <2>4, <2>5 DEF FlowInv
<1> QED
  BY <1>1, <1>2, <1>3, <1>4, <1>5, <1>6, <1>7, <1>8, <1>9, <1>10, <1>11 DEF Flow!Next, Flow!Runs

LEMMA FlowInvTells ==
    ASSUME Flow!WorkflowAssumption, FlowInv
    PROVE  Flow!StepsFollowPlan /\ Flow!TypeOK
<1>1. Flow!OrderRespected
  <2>1. \A u \in Flow!Top : unit[u].status \notin {"PENDING", "SKIPPED"} =>
           \A d \in flow.def.deps[u] : unit[d].status \in Flow!Succeeded
    BY DEF FlowInv, FlowOrder
  <2>2. FlowEnds
    BY DEF FlowInv
  <2> QED
    BY <2>1, <2>2, Zenon DEF FlowEnds, Flow!OrderRespected
<1>2. Flow!WorkBounded
  <2>1. \A u \in Units : unit[u].attempts > 0 => unit[u].attempts <= flow.def.tries[u]
    BY DEF FlowInv, FlowAttempts
  <2>2. outcome # "RUNNING" => \A u \in Units : unit[u].status \notin Flow!AtWork
    BY DEF FlowInv, FlowPhase
  <2>3. ASSUME outcome = "RUNNING", NEW p \in Units PROVE Flow!Cardinality(Flow!Busy(p)) <= MaxParallelism
    <3>1. Flow!Busy(p) = BusyIn(unit, p)
      BY DEF Flow!Busy, BusyIn
    <3> QED
      BY <2>3, <3>1, FlowCardinality DEF FlowInv, FlowBranch
  <2>4. ASSUME NEW u \in Units, unit[u].status \in Flow!AtWork, u # Head(todo)
        PROVE  \E p \in Units : u \in Flow!Busy(p) /\ unit[p].status = "RUNNING"
    <3>1. outcome = "RUNNING" /\ u \in branch
      BY <2>4 DEF FlowInv, FlowPhase
    <3>2. PICK p \in Units : BelongsTo(unit, u, p)
      BY <3>1, BranchFacts
    <3>3. u \in Flow!Busy(p) /\ unit[p].status = "RUNNING"
      BY <2>4, <3>2 DEF BelongsTo, Flow!Busy, Flow!AtWork, Flow!Ended, Flow!Succeeded
    <3> QED
      BY <3>3
  <2> QED
    BY <2>1, <2>2, <2>3, <2>4, Zenon DEF Flow!WorkBounded
<1>3. Flow!TypeOK
  <2>1. \A u \in Units : unit[u].status \in {"PENDING", "SKIPPED"} \cup Flow!AtWork \cup Flow!Ended
    BY DEF FlowInv, FlowTypes, Results
  <2> QED
    BY <2>1 DEF FlowInv, FlowTypes, Flow!TypeOK
<1> QED
  BY <1>1, <1>2, <1>3 DEF Flow!StepsFollowPlan

\* Whatever the definition of a workflow, however its steps answer, fail, retry and
\* branch: a step runs only when all it depends on has succeeded, a completed
\* workflow has succeeded in all its steps, in a failed one a single step failed
\* and exactly what depends on it was skipped; attempts and parallel steps keep
\* their limits, and no sub-step, however deep, outlives the step it lies in
\* (orchestration_engine.py:139-262, 432-473).
THEOREM StepsAreInOrder == Flow!WorkflowAssumption /\ Flow!Spec => [](Flow!StepsFollowPlan /\ Flow!TypeOK)
<1> SUFFICES ASSUME Flow!WorkflowAssumption PROVE Flow!Spec => [](Flow!StepsFollowPlan /\ Flow!TypeOK)
  OBVIOUS
<1>1. Flow!Init => FlowInv
  BY FlowInvHolds
<1>2. FlowInv /\ [Flow!Next]_Flow!flowVars => FlowInv'
  BY FlowInvKept
<1>3. FlowInv => Flow!StepsFollowPlan /\ Flow!TypeOK
  BY FlowInvTells
<1> QED
  BY <1>1, <1>2, <1>3, PTL DEF Flow!Spec

-----------------------------------------------------------------------------
(* The events of a dispatch over a socket or a terminal (SocketDispatch).  *)

Script == <<"QUEUED", "CLAIMED", "RUNNING">>
SocketEvents == {"QUEUED", "CLAIMED", "RUNNING"} \cup Socket!Terminals
SocketFrames ==
    [at : {"idle", "enqueue", "claim", "mark", "poll", "spawn", "send", "read", "ended"},
     mode : {"socket", "terminal"}, timed : BOOLEAN, events : Seq(SocketEvents), polls : Nat, round : Nat]
RowWords == Socket!RowStates \cup Words \cup {"none"}
Told == Socket!Completed \cup Socket!Waiting
RowRecords == [named : RowWords, shown : SUBSET (Told \cup {"in_progress"}), made : Nat]
SocketTypes ==
    /\ wired \subseteq {"herdr", "hm", "up"}
    /\ sd \in SocketFrames
    /\ hmrow \in RowRecords
    /\ typed \in Nat

\* How many of the steps a dispatch has told of, wherever it is.
Said(d) == CASE d.at \in {"idle", "enqueue"} -> 0
             [] d.at \in {"claim", "spawn"} -> 1
             [] d.at \in {"mark", "send"} -> 2
             [] d.at \in {"poll", "read"} -> 3
             [] OTHER -> Len(d.events) - 1
InScript(d) ==
    /\ d.at # "ended" => Len(d.events) = Said(d)
    /\ d.at = "ended" => /\ Said(d) \in 0 .. 3
                         /\ d.events[Len(d.events)] \in Socket!Terminals
    /\ \A i \in 1 .. Said(d) : d.events[i] = Script[i]
RowStarted == hmrow.shown # {} \/ typed > 0
LastSaid == sd.events[Len(sd.events)]
RowSaid == /\ LastSaid = "DONE" => Said(sd) = 3 /\ hmrow.shown \cap Socket!Completed # {}
           /\ LastSaid = "BLOCKED" => Said(sd) = 3 /\ (hmrow.shown \cap Socket!Waiting # {} \/ typed > 0)
SocketInv ==
    /\ SocketTypes
    /\ wired = {} => sd.at = "idle"
    /\ InScript(sd)
    /\ Said(sd) = 3 => RowStarted
    /\ hmrow.named \in Told => hmrow.named \in hmrow.shown
    /\ sd.at = "read" => typed > 0
    /\ sd.at = "ended" => RowSaid
    /\ hmrow.made + typed <= sd.round
    /\ sd.at \in {"enqueue", "spawn", "send"} => hmrow.made + typed < sd.round

LEMMA SaidRange ==
    ASSUME NEW d \in SocketFrames
    PROVE  /\ Len(d.events) \in Nat
           /\ d.at # "ended" => Said(d) \in 0 .. 3
           /\ d.at = "ended" => Said(d) = Len(d.events) - 1
<1>1. d.events \in Seq(SocketEvents)
  BY DEF SocketFrames
<1>2. d.at # "ended" => Said(d) \in 0 .. 3
  BY DEF SocketFrames, Said
<1>3. d.at = "ended" => Said(d) = Len(d.events) - 1
  BY DEF Said
<1> QED
  BY <1>1, <1>2, <1>3

LEMMA SocketInvTells == SocketInv => Socket!EventsTell /\ Socket!TypeOK
<1> SUFFICES ASSUME SocketInv PROVE Socket!EventsTell /\ Socket!TypeOK
  OBVIOUS
<1>1. PICK ev : ev = sd.events
  OBVIOUS
<1>2. PICK n : n = IF sd.at = "ended" THEN Len(ev) - 1 ELSE Len(ev)
  OBVIOUS
<1>3. ev \in Seq(SocketEvents) /\ Len(ev) \in Nat
  BY <1>1 DEF SocketInv, SocketTypes, SocketFrames
<1>4. n = Said(sd) /\ n \in 0 .. 3 /\ n <= Len(ev) /\ Len(ev) <= n + 1
  <2>0. sd \in SocketFrames /\ InScript(sd)
    BY DEF SocketInv, SocketTypes
  <2>3. /\ Len(ev) \in Nat
        /\ sd.at # "ended" => Said(sd) \in 0 .. 3 /\ Len(ev) = Said(sd)
        /\ sd.at = "ended" => Said(sd) = Len(ev) - 1 /\ Said(sd) \in 0 .. 3
    BY <1>1, <2>0, SaidRange DEF InScript
  <2>1. CASE sd.at = "ended"
    BY <1>2, <2>1, <2>3
  <2>2. CASE sd.at # "ended"
    BY <1>2, <2>2, <2>3
  <2> QED
    BY <2>1, <2>2
<1>5. PICK h : h = SubSeq(Script, 1, n)
  OBVIOUS
<1>6. PICK t : t = SubSeq(ev, n + 1, Len(ev))
  OBVIOUS
<1>7. h \in Seq(SocketEvents) /\ Len(h) = n /\ \A i \in 1 .. n : h[i] = Script[i]
  <2>1. \A i \in 1 .. 3 : Script[i] \in SocketEvents
    BY DEF Script, SocketEvents
  <2>2. \A i \in 1 .. n : Script[i] \in SocketEvents
    BY <1>4, <2>1
  <2>3. /\ SubSeq(Script, 1, n) \in Seq(SocketEvents)
        /\ Len(SubSeq(Script, 1, n)) = IF 1 <= n THEN n - 1 + 1 ELSE 0
        /\ \A i \in 1 .. n - 1 + 1 : SubSeq(Script, 1, n)[i] = Script[1 + i - 1]
    BY <1>4, <2>2, SubSeqProperties
  <2> QED
    BY <1>4, <1>5, <2>3
<1>8. /\ t \in Seq(SocketEvents) /\ Len(t) = Len(ev) - n
      /\ \A i \in 1 .. Len(t) : t[i] = ev[n + i]
  <2>0. PICK m : m = n + 1
    OBVIOUS
  <2>1. PICK k : k = Len(ev)
    OBVIOUS
  <2>2. m \in Int /\ k \in Int /\ \A i \in m .. k : ev[i] \in SocketEvents
    BY <1>3, <1>4, <2>0, <2>1
  <2>3. /\ SubSeq(ev, m, k) \in Seq(SocketEvents)
        /\ Len(SubSeq(ev, m, k)) = IF m <= k THEN k - m + 1 ELSE 0
        /\ \A i \in 1 .. k - m + 1 : SubSeq(ev, m, k)[i] = ev[m + i - 1]
    BY <2>2, SubSeqProperties
  <2>4. t = SubSeq(ev, m, k)
    BY <1>6, <2>0, <2>1
  <2>5. k - m + 1 = Len(ev) - n /\ (IF m <= k THEN k - m + 1 ELSE 0) = Len(ev) - n
    BY <1>3, <1>4, <2>0, <2>1
  <2>6. Len(t) = Len(ev) - n /\ \A i \in 1 .. Len(ev) - n : t[i] = ev[m + i - 1]
    BY <2>3, <2>4, <2>5
  <2>7. \A i \in 1 .. Len(t) : t[i] = ev[n + i]
    <3> SUFFICES ASSUME NEW i \in 1 .. Len(t) PROVE t[i] = ev[n + i]
      OBVIOUS
    <3>1. m + i - 1 = n + i /\ i \in 1 .. Len(ev) - n
      BY <1>3, <1>4, <2>0, <2>6
    <3> QED
      BY <2>6, <3>1
  <2> QED
    BY <2>3, <2>4, <2>6, <2>7
<1>9. PICK c : c = h \o t
  OBVIOUS
<1>10. /\ c \in Seq(SocketEvents) /\ Len(c) = Len(ev)
       /\ \A i \in 1 .. Len(ev) : c[i] = IF i <= n THEN h[i] ELSE t[i - n]
  <2>1. /\ h \o t \in Seq(SocketEvents) /\ Len(h \o t) = Len(h) + Len(t)
        /\ \A i \in 1 .. Len(h) + Len(t) : (h \o t)[i] = IF i <= Len(h) THEN h[i] ELSE t[i - Len(h)]
    BY <1>7, <1>8, ConcatProperties
  <2>2. Len(h) = n /\ Len(h) + Len(t) = Len(ev)
    BY <1>3, <1>4, <1>7, <1>8
  <2> QED
    BY <1>9, <2>1, <2>2
<1>20. \A i \in 1 .. Len(ev) : ev[i] = c[i]
  <2> SUFFICES ASSUME NEW i \in 1 .. Len(ev) PROVE ev[i] = c[i]
    OBVIOUS
  <2>1. CASE i <= n
    <3>1. i \in 1 .. n
      BY <1>3, <1>4, <2>1
    <3>2. ev[i] = Script[i]
      BY <1>1, <1>4, <3>1 DEF SocketInv, InScript
    <3> QED
      BY <1>7, <1>10, <2>1, <3>1, <3>2
  <2>2. CASE ~ (i <= n)
    <3>1. PICK j : j = i - n
      OBVIOUS
    <3>2. j \in 1 .. Len(t) /\ n + j = i
      BY <1>3, <1>4, <1>8, <2>2, <3>1
    <3>3. c[i] = t[j]
      BY <1>10, <2>2, <3>1
    <3> QED
      BY <1>8, <3>2, <3>3
  <2> QED
    BY <2>1, <2>2
<1>21. ev = c
  BY <1>3, <1>10, <1>20, SeqEqual
<1>11. ev = h \o t
  BY <1>9, <1>21
<1>12. sd.at = "ended" => n >= 0 /\ n + 1 = Len(ev) /\ ev[n + 1] \in Socket!Terminals
  BY <1>1, <1>2, <1>3, <1>4 DEF SocketInv, InScript
<1>13. sd.at = "ended" =>
        /\ ev[n + 1] = "DONE" => n = 3 /\ hmrow.shown \cap Socket!Completed # {}
        /\ ev[n + 1] = "BLOCKED" => n = 3 /\ (hmrow.shown \cap Socket!Waiting # {} \/ typed > 0)
  BY <1>1, <1>4, <1>12 DEF SocketInv, RowSaid, LastSaid
<1>14. n = 3 => hmrow.shown # {} \/ typed > 0
  BY <1>4 DEF SocketInv, RowStarted
<1>15. Socket!EventsTell
  BY <1>1, <1>2, <1>5, <1>6, <1>11, <1>12, <1>13, <1>14 DEF Socket!EventsTell, SocketInv, Script
<1>16. Socket!TypeOK
  BY DEF SocketInv, SocketTypes, SocketFrames, Socket!TypeOK, SocketEvents, RowRecords, RowWords
<1> QED
  BY <1>15, <1>16

LEMMA SocketInit == Socket!Init => SocketInv
<1> SUFFICES ASSUME Socket!Init PROVE SocketInv
  OBVIOUS
<1>1. <<>> \in Seq(SocketEvents) /\ Len(<<>>) = 0
  OBVIOUS
<1>2. SocketTypes
  BY <1>1 DEF Socket!Init, SocketTypes, SocketFrames, RowRecords, RowWords
<1>3. InScript(sd) /\ Said(sd) = 0
  BY <1>1 DEF Socket!Init, InScript, Said
<1> QED
  BY <1>1, <1>2, <1>3 DEF Socket!Init, SocketInv, RowStarted, Told, Socket!Completed, Socket!Waiting

\* An event said in its turn: the script goes on, or the dispatch ends.
LEMMA YieldSays ==
    ASSUME SocketInv, NEW event \in SocketEvents, NEW to \in {"claim", "mark", "poll", "send", "read", "ended"},
           Socket!Yield(event, to), sd.at \notin {"idle", "ended"},
           event \notin Socket!Terminals =>
             /\ to # "ended"
             /\ Said([sd EXCEPT !.at = to]) = Said(sd) + 1 /\ event = Script[Said(sd) + 1]
    PROVE  /\ sd' \in SocketFrames /\ InScript(sd') /\ sd'.round = sd.round
           /\ event \in Socket!Terminals => /\ sd'.at = "ended" /\ Said(sd') = Said(sd)
                                       /\ sd'.events[Len(sd'.events)] = event
           /\ event \notin Socket!Terminals => sd'.at = to /\ Said(sd') = Said(sd) + 1
<1>1. PICK ev : ev = sd.events
  OBVIOUS
<1>2. PICK new : new = Append(ev, event)
  OBVIOUS
<1>3. ev \in Seq(SocketEvents) /\ Len(ev) \in Nat /\ Len(ev) = Said(sd) /\ Said(sd) \in 0 .. 3
  BY <1>1 DEF SocketInv, SocketTypes, SocketFrames, InScript, Said
<1>4. /\ new \in Seq(SocketEvents) /\ Len(new) = Len(ev) + 1 /\ new[Len(ev) + 1] = event
      /\ \A i \in 1 .. Len(ev) : new[i] = ev[i]
  BY <1>2, <1>3, AppendProperties
<1>5. \A i \in 1 .. Len(ev) : ev[i] = Script[i]
  BY <1>1, <1>3 DEF SocketInv, InScript
<1>6. CASE event \in Socket!Terminals
  <2>1. sd' = [sd EXCEPT !.events = new, !.at = "ended"]
    BY <1>1, <1>2, <1>6 DEF Socket!Yield
  <2>2. sd' \in SocketFrames /\ sd'.round = sd.round /\ sd'.events = new /\ sd'.at = "ended"
    BY <1>4, <2>1 DEF SocketInv, SocketTypes, SocketFrames
  <2>3. Said(sd') = Len(ev)
    BY <1>3, <1>4, <2>2 DEF Said
  <2>4. InScript(sd')
    BY <1>3, <1>4, <1>5, <1>6, <2>2, <2>3 DEF InScript
  <2> QED
    BY <1>3, <1>4, <1>6, <2>2, <2>3, <2>4
<1>7. CASE event \notin Socket!Terminals
  <2>1. sd' = [sd EXCEPT !.events = new, !.at = to]
    BY <1>1, <1>2, <1>7 DEF Socket!Yield
  <2>2. sd' \in SocketFrames /\ sd'.round = sd.round /\ sd'.events = new /\ sd'.at = to
    BY <1>4, <2>1 DEF SocketInv, SocketTypes, SocketFrames
  <2>3. Said([sd EXCEPT !.at = to]) = Said(sd')
    BY <1>7, <2>2 DEF Said, SocketInv, SocketTypes, SocketFrames
  <2>4. Said(sd') = Len(ev) + 1 /\ event = Script[Len(ev) + 1]
    BY <1>3, <1>7, <2>3
  <2>5. InScript(sd')
    BY <1>3, <1>4, <1>5, <1>7, <2>2, <2>4 DEF InScript
  <2> QED
    BY <1>3, <1>7, <2>2, <2>4, <2>5
<1> QED
  BY <1>6, <1>7

LEMMA SocketStep == SocketInv /\ [Socket!Next]_(Socket!sdVars) => SocketInv'
<1> SUFFICES ASSUME SocketInv, [Socket!Next]_(Socket!sdVars) PROVE SocketInv'
  OBVIOUS
<1>0. /\ sd \in SocketFrames /\ typed \in Nat /\ hmrow.made \in Nat /\ sd.round \in Nat
      /\ hmrow \in RowRecords
      /\ wired \subseteq {"herdr", "hm", "up"}
  BY DEF SocketInv, SocketTypes, SocketFrames, RowRecords
<1>1. CASE Socket!Build
  <2>1. /\ wired' \subseteq {"herdr", "hm", "up"} /\ wired' # {} /\ sd' = sd /\ typed' = typed
        /\ hmrow' \in RowRecords /\ hmrow'.named \in {"none", "queued"}
        /\ hmrow'.made = hmrow.made /\ hmrow'.shown = hmrow.shown
    BY <1>0, <1>1 DEF Socket!Build, RowRecords, RowWords, Socket!RowStates
  <2>2. sd.at = "idle" /\ Said(sd) = 0
    BY <1>1 DEF Socket!Build, SocketInv, Said
  <2>3. SocketTypes'
    BY <1>0, <2>1 DEF SocketTypes
  <2>4. InScript(sd)' /\ Said(sd)' = 0
    BY <2>1, <2>2 DEF SocketInv, InScript, Said
  <2> QED
    BY <2>1, <2>2, <2>3, <2>4 DEF SocketInv, Told, Socket!Completed, Socket!Waiting
<1>2. CASE Socket!Dispatch
  <2>1. /\ wired' = wired /\ hmrow' = hmrow /\ typed' = typed /\ wired # {}
        /\ sd' \in SocketFrames /\ sd'.at \in {"spawn", "enqueue"} /\ sd'.round = sd.round + 1
        /\ sd'.events = IF sd'.at = "spawn" THEN <<"QUEUED">> ELSE <<>>
    <3>1. PICK mode \in {"socket", "terminal"}, timed \in BOOLEAN :
            sd' = [at |-> IF mode = "terminal" THEN "spawn" ELSE "enqueue", mode |-> mode, timed |-> timed,
                   events |-> IF mode = "terminal" THEN <<"QUEUED">> ELSE <<>>,
                   polls |-> 0, round |-> sd.round + 1]
      BY <1>0, <1>2 DEF Socket!Dispatch, SocketFrames
    <3>2. <<"QUEUED">> \in Seq(SocketEvents) /\ <<>> \in Seq(SocketEvents)
      BY DEF SocketEvents
    <3>3. sd.round + 1 \in Nat
      BY <1>0
    <3>4. (IF mode = "terminal" THEN <<"QUEUED">> ELSE <<>>) \in Seq(SocketEvents)
      BY <3>2
    <3> QED
      BY <1>2, <3>1, <3>3, <3>4 DEF Socket!Dispatch, SocketFrames
  <2>2. SocketTypes'
    BY <1>0, <2>1 DEF SocketTypes
  <2>3. InScript(sd') /\ Said(sd') # 3
    <3>1. Len(<<"QUEUED">>) = 1 /\ Len(<<>>) = 0 /\ <<"QUEUED">>[1] = Script[1]
      BY DEF Script
    <3>2. Said(sd') = IF sd'.at = "spawn" THEN 1 ELSE 0
      BY <2>1 DEF Said
    <3> QED
      BY <2>1, <3>1, <3>2 DEF InScript
  <2> QED
    <3>1. sd'.at # "ended" /\ sd'.at # "read" /\ wired' # {}
      BY <2>1
    <3>2. hmrow'.made + typed' < sd'.round
      BY <1>0, <2>1 DEF SocketInv
    <3>3. hmrow'.made + typed' <= sd'.round
      BY <1>0, <2>1, <3>2
    <3> QED
      BY <2>1, <2>2, <2>3, <3>1, <3>2, <3>3 DEF SocketInv
<1>3. CASE Socket!Enqueue
  <2>1. Said([sd EXCEPT !.at = "claim"]) = 1 /\ Said(sd) = 0 /\ Script[1] = "QUEUED" /\ "QUEUED" \notin Socket!Terminals
    BY <1>0, <1>3 DEF Socket!Enqueue, Said, Script, Socket!Terminals, SocketFrames
  <2>2. sd' \in SocketFrames /\ InScript(sd') /\ sd'.round = sd.round /\ sd'.at = "claim" /\ Said(sd') = 1
    BY <1>3, <2>1, YieldSays DEF Socket!Enqueue, SocketEvents
  <2>3. hmrow' \in RowRecords /\ hmrow'.made = hmrow.made + 1 /\ hmrow'.named = hmrow.named /\ hmrow'.shown = hmrow.shown
    BY <1>0, <1>3 DEF Socket!Enqueue, Socket!Enqueued, RowRecords
  <2> QED
    BY <1>0, <1>3, <2>2, <2>3 DEF SocketInv, SocketTypes, Socket!Enqueue, Socket!Enqueued
<1>4. CASE Socket!Claim
  <2>1. Said([sd EXCEPT !.at = "mark"]) = 2 /\ Said(sd) = 1 /\ Script[2] = "CLAIMED" /\ "CLAIMED" \notin Socket!Terminals
    BY <1>0, <1>4 DEF Socket!Claim, Said, Script, Socket!Terminals, SocketFrames
  <2>2. sd' \in SocketFrames /\ InScript(sd') /\ sd'.round = sd.round /\ sd'.at = "mark" /\ Said(sd') = 2
    BY <1>4, <2>1, YieldSays DEF Socket!Claim, SocketEvents
  <2> QED
    BY <1>0, <1>4, <2>2 DEF SocketInv, SocketTypes, Socket!Claim
<1>5. CASE Socket!MarkRunning
  <2>1. Said([sd EXCEPT !.at = "poll"]) = 3 /\ Said(sd) = 2 /\ Script[3] = "RUNNING" /\ "RUNNING" \notin Socket!Terminals
    BY <1>0, <1>5 DEF Socket!MarkRunning, Said, Script, Socket!Terminals, SocketFrames
  <2>2. sd' \in SocketFrames /\ InScript(sd') /\ sd'.round = sd.round /\ sd'.at = "poll" /\ Said(sd') = 3
    BY <1>5, <2>1, YieldSays DEF Socket!MarkRunning, SocketEvents
  <2>3. hmrow' \in RowRecords /\ hmrow'.made = hmrow.made /\ hmrow'.named = "in_progress" /\ hmrow'.shown = {"in_progress"}
    BY <1>0, <1>5 DEF Socket!MarkRunning, Socket!Marked, Socket!RowStates, RowRecords, RowWords
  <2> QED
    BY <1>0, <1>5, <2>2, <2>3 DEF SocketInv, SocketTypes, Socket!MarkRunning, Socket!Marked, RowStarted
<1>6. CASE Socket!Poll
  <2>0. Said(sd) = 3 /\ RowStarted /\ wired' = wired /\ hmrow' = hmrow /\ typed' = typed
    BY <1>6 DEF Socket!Poll, SocketInv, Said
  <2>1. CASE \E event \in Socket!Terminals :
               /\ Socket!Yield(event, "ended")
               /\ event = "DONE" => hmrow.shown \cap Socket!Completed # {}
               /\ event = "BLOCKED" => hmrow.shown \cap Socket!Waiting # {}
    <3>1. PICK event \in Socket!Terminals :
            /\ Socket!Yield(event, "ended")
            /\ event = "DONE" => hmrow.shown \cap Socket!Completed # {}
            /\ event = "BLOCKED" => hmrow.shown \cap Socket!Waiting # {}
      BY <2>1
    <3>2. event \in SocketEvents /\ sd.at \notin {"idle", "ended"}
      BY <1>6 DEF Socket!Poll, SocketEvents
    <3>3. /\ sd' \in SocketFrames /\ InScript(sd') /\ sd'.round = sd.round /\ sd'.at = "ended" /\ Said(sd') = 3
          /\ sd'.events[Len(sd'.events)] = event
      BY <2>0, <3>1, <3>2, YieldSays
    <3>4. SocketTypes' /\ RowStarted'
      BY <1>0, <2>0, <3>3 DEF SocketTypes, RowStarted
    <3>5. wired' # {}
      BY <2>0, <3>2 DEF SocketInv
    <3>6. hmrow'.made + typed' <= sd'.round
      BY <2>0, <3>3 DEF SocketInv
    <3>7. InScript(sd)' /\ Said(sd)' = 3
      BY <3>3
    <3>8. RowSaid'
      BY <2>0, <3>1, <3>3 DEF RowSaid, LastSaid
    <3> QED
      BY <2>0, <3>3, <3>4, <3>5, <3>6, <3>7, <3>8 DEF SocketInv
  <2>2. CASE sd' = [sd EXCEPT !.polls = @ + 1]
    <3>0. sd.polls + 1 \in Nat
      BY <1>0 DEF SocketFrames
    <3>1. sd' \in SocketFrames /\ sd'.at = sd.at /\ sd'.events = sd.events /\ sd'.round = sd.round
      BY <1>0, <2>2, <3>0 DEF SocketFrames
    <3>2. Said(sd') = Said(sd)
      BY <3>1 DEF Said
    <3>3. InScript(sd)' /\ Said(sd)' = 3 /\ sd'.at = "poll" /\ wired' # {}
      BY <1>6, <2>0, <3>1, <3>2 DEF SocketInv, InScript, Socket!Poll
    <3>4. SocketTypes' /\ RowStarted' /\ (hmrow'.named \in Told => hmrow'.named \in hmrow'.shown)
      BY <1>0, <2>0, <3>1 DEF SocketInv, SocketTypes, RowStarted
    <3>5. hmrow'.made + typed' <= sd'.round
      BY <2>0, <3>1 DEF SocketInv
    <3> QED
      BY <3>3, <3>4, <3>5 DEF SocketInv
  <2>3. /\ Socket!Mapped(hmrow.named) = "DONE" => hmrow.shown \cap Socket!Completed # {}
        /\ Socket!Mapped(hmrow.named) = "BLOCKED" => hmrow.shown \cap Socket!Waiting # {}
    <3>1. hmrow.named \in Told => hmrow.named \in hmrow.shown
      BY DEF SocketInv
    <3>2. Socket!Mapped(hmrow.named) = "DONE" => hmrow.named \in Socket!Completed
      BY DEF Socket!Mapped
    <3>3. Socket!Mapped(hmrow.named) = "BLOCKED" => hmrow.named \in Socket!Waiting
      BY DEF Socket!Mapped
    <3> QED
      BY <3>1, <3>2, <3>3 DEF Told
  <2>4. "ACCEPTED" \in Socket!Terminals
    BY DEF Socket!Terminals
  <2> QED
    BY <1>6, <2>1, <2>2, <2>3, <2>4 DEF Socket!Poll
<1>7. CASE Socket!Spawn
  <2>1. Said([sd EXCEPT !.at = "send"]) = 2 /\ Said(sd) = 1 /\ Script[2] = "CLAIMED" /\ "CLAIMED" \notin Socket!Terminals
    BY <1>0, <1>7 DEF Socket!Spawn, Said, Script, Socket!Terminals, SocketFrames
  <2>2. sd' \in SocketFrames /\ InScript(sd') /\ sd'.round = sd.round /\ sd'.at = "send" /\ Said(sd') = 2
    BY <1>7, <2>1, YieldSays DEF Socket!Spawn, SocketEvents
  <2> QED
    BY <1>0, <1>7, <2>2 DEF SocketInv, SocketTypes, Socket!Spawn
<1>8. CASE Socket!Send
  <2>1. Said([sd EXCEPT !.at = "read"]) = 3 /\ Said(sd) = 2 /\ Script[3] = "RUNNING" /\ "RUNNING" \notin Socket!Terminals
    BY <1>0, <1>8 DEF Socket!Send, Said, Script, Socket!Terminals, SocketFrames
  <2>2. sd' \in SocketFrames /\ InScript(sd') /\ sd'.round = sd.round /\ sd'.at = "read" /\ Said(sd') = 3
    BY <1>8, <2>1, YieldSays DEF Socket!Send, SocketEvents
  <2>3. typed' = typed + 1 /\ typed' \in Nat /\ typed' > 0
    BY <1>0, <1>8 DEF Socket!Send, Socket!Sent
  <2> QED
    BY <1>0, <1>8, <2>2, <2>3 DEF SocketInv, SocketTypes, Socket!Send, Socket!Sent, RowStarted
<1>9. CASE Socket!ReadState
  <2>0. Said(sd) = 3 /\ RowStarted /\ wired' = wired /\ hmrow' = hmrow /\ typed' = typed
    BY <1>9 DEF Socket!ReadState, SocketInv, Said
  <2>1. PICK event \in {"BLOCKED", "ACCEPTED"} : Socket!Yield(event, "ended")
    BY <1>9 DEF Socket!ReadState
  <2>2. event \in Socket!Terminals /\ event \in SocketEvents /\ sd.at \notin {"idle", "ended"} /\ event # "DONE"
    BY <1>9 DEF Socket!ReadState, Socket!Terminals, SocketEvents
  <2>3. /\ sd' \in SocketFrames /\ InScript(sd') /\ sd'.round = sd.round /\ sd'.at = "ended" /\ Said(sd') = 3
        /\ sd'.events[Len(sd'.events)] = event
    BY <2>0, <2>1, <2>2, YieldSays
  <2>4. RowSaid'
    <3>1. typed > 0
      BY <1>9 DEF Socket!ReadState, SocketInv
    <3> QED
      BY <2>0, <2>2, <2>3, <3>1 DEF RowSaid, LastSaid
  <2> QED
    BY <1>0, <2>0, <2>2, <2>3, <2>4 DEF SocketInv, SocketTypes, RowStarted
<1>10. CASE Socket!Raises
  <2>1. "FAILED" \in Socket!Terminals /\ "FAILED" \in SocketEvents /\ sd.at \notin {"idle", "ended"}
    BY <1>10 DEF Socket!Raises, Socket!Terminals, SocketEvents
  <2>2. /\ sd' \in SocketFrames /\ InScript(sd') /\ sd'.round = sd.round /\ sd'.at = "ended" /\ Said(sd') = Said(sd)
        /\ sd'.events[Len(sd'.events)] = "FAILED"
    BY <1>10, <2>1, YieldSays DEF Socket!Raises
  <2>3. /\ hmrow' \in RowRecords /\ typed' \in Nat
        /\ hmrow'.made + typed' <= sd.round
        /\ RowStarted => RowStarted'
        /\ hmrow'.named \in Told => hmrow'.named \in hmrow'.shown
        /\ wired' = wired
    <3>1. CASE UNCHANGED <<hmrow, typed>>
      BY <1>0, <1>10, <3>1 DEF RowStarted, SocketInv, Socket!Raises
    <3>2. CASE sd.at = "enqueue" /\ Socket!Enqueued
      <4>1. /\ hmrow' \in RowRecords /\ hmrow'.made = hmrow.made + 1 /\ typed' = typed
            /\ hmrow'.named = hmrow.named /\ hmrow'.shown = hmrow.shown
        BY <1>0, <3>2 DEF Socket!Enqueued, RowRecords
      <4>2. hmrow.made + typed < sd.round
        BY <3>2 DEF SocketInv
      <4> QED
        BY <1>0, <1>10, <4>1, <4>2 DEF RowStarted, SocketInv, Socket!Raises
    <3>3. CASE sd.at = "mark" /\ Socket!Marked
      <4>1. /\ hmrow' \in RowRecords /\ hmrow'.made = hmrow.made /\ typed' = typed
            /\ hmrow'.named = "in_progress" /\ hmrow'.shown = {"in_progress"}
        BY <1>0, <3>3 DEF Socket!Marked, Socket!RowStates, RowRecords, RowWords
      <4> QED
        BY <1>0, <1>10, <4>1 DEF RowStarted, SocketInv, Socket!Raises
    <3>4. CASE sd.at = "send" /\ Socket!Sent
      <4>1. typed' = typed + 1 /\ typed' \in Nat /\ hmrow' = hmrow
        BY <1>0, <3>4 DEF Socket!Sent
      <4>2. hmrow.made + typed < sd.round
        BY <3>4 DEF SocketInv
      <4> QED
        BY <1>0, <1>10, <4>1, <4>2 DEF RowStarted, SocketInv, Socket!Raises
    <3> QED
      BY <1>10, <3>1, <3>2, <3>3, <3>4 DEF Socket!Raises
  <2>4. wired # {}
    BY <2>1 DEF SocketInv
  <2>5. RowSaid' /\ sd'.at \notin {"read", "enqueue", "spawn", "send"}
    BY <2>2 DEF RowSaid, LastSaid
  <2>6. Said(sd)' = 3 => RowStarted'
    BY <2>2, <2>3 DEF SocketInv
  <2> QED
    BY <1>0, <2>2, <2>3, <2>4, <2>5, <2>6 DEF SocketInv, SocketTypes
<1>11. CASE Socket!HerdMasterMoves
  <2>0. wired' = wired /\ sd' = sd /\ typed' = typed
    BY <1>11 DEF Socket!HerdMasterMoves
  <2>m. PICK s \in Socket!RowMoves(hmrow.named) :
          hmrow' = [hmrow EXCEPT !.named = s, !.shown = hmrow.shown \cup ({s} \cap Told)]
    BY <1>11 DEF Socket!HerdMasterMoves, Told
  <2>n. PICK new : new = hmrow.shown \cup ({s} \cap Told)
    OBVIOUS
  <2>1. hmrow' = [hmrow EXCEPT !.named = s, !.shown = new]
    BY <2>m, <2>n
  <2>2. s \in RowWords
    BY <2>m DEF Socket!RowMoves, RowWords, Socket!RowStates
  <2>3. new \in SUBSET (Told \cup {"in_progress"}) /\ hmrow.shown \subseteq new /\ (s \in Told => s \in new)
    BY <1>0, <2>n DEF RowRecords
  <2>4. hmrow' \in RowRecords /\ hmrow'.named = s /\ hmrow'.shown = new /\ hmrow'.made = hmrow.made
    BY <1>0, <2>1, <2>2, <2>3 DEF RowRecords
  <2>5. InScript(sd)' /\ Said(sd)' = Said(sd)
    BY <2>0 DEF SocketInv, InScript, Said
  <2>6. RowSaid => RowSaid'
    BY <2>0, <2>3, <2>4, <2>5 DEF RowSaid, LastSaid
  <2>7. RowStarted => RowStarted'
    BY <2>0, <2>3, <2>4 DEF RowStarted
  <2> QED
    BY <1>0, <2>0, <2>3, <2>4, <2>5, <2>6, <2>7 DEF SocketInv, SocketTypes
<1>12. CASE UNCHANGED Socket!sdVars
  <2>1. wired' = wired /\ sd' = sd /\ hmrow' = hmrow /\ typed' = typed
    BY <1>12 DEF Socket!sdVars
  <2> QED
    BY <2>1 DEF SocketInv, SocketTypes, RowStarted, RowSaid, LastSaid, InScript, Said
<1> QED
  BY <1>1, <1>2, <1>3, <1>4, <1>5, <1>6, <1>7, <1>8, <1>9, <1>10, <1>11, <1>12 DEF Socket!Next, Socket!Runs

\* Whenever the two sides answer or fail and whatever HerdMaster's clients make of
\* the row, the caller of a dispatch is told of its steps in order and of one end:
\* DONE and BLOCKED only of what the row said in this dispatch, RUNNING only of
\* what was started, and the task runs at most once for each dispatch
\* (executors/socket.py:148-208, executors/terminal.py:106-152).
THEOREM DispatchesTell == Socket!Spec => [](Socket!EventsTell /\ Socket!TypeOK)
<1>1. Socket!Init => SocketInv
  BY SocketInit
<1>2. SocketInv /\ [Socket!Next]_(Socket!sdVars) => SocketInv'
  BY SocketStep
<1>3. SocketInv => Socket!EventsTell /\ Socket!TypeOK
  BY SocketInvTells
<1> QED
  BY <1>1, <1>2, <1>3, PTL DEF Socket!Spec

-----------------------------------------------------------------------------
(* The indexes of the websocket manager (ConnectionManager).               *)

SocketPushes == [running : BOOLEAN, left : SUBSET Sockets, dead : SUBSET Sockets]
LinkTypes ==
    /\ link \in [Sockets -> {"new", "open", "closed"}]
    /\ DOMAIN active \subseteq Sockets
    /\ active = [w \in DOMAIN active |-> active[w]]
    /\ tenants \in [Ws!OwnerNames -> SUBSET Sockets]
    /\ rooms \in [Rooms -> SUBSET Sockets]
    /\ push \in [Pushes -> SocketPushes]
IndexInv == LinkTypes /\ Ws!IndexesAgree

LEMMA IndexInit == Ws!Init => IndexInv
<1> SUFFICES ASSUME Ws!Init PROVE IndexInv
  OBVIOUS
<1>1. DOMAIN active = {}
  BY DEF Ws!Init
<1>2. Ws!NoPush \in SocketPushes
  BY DEF Ws!NoPush, SocketPushes
<1>3. LinkTypes
  BY <1>1, <1>2 DEF Ws!Init, LinkTypes
<1>4. Ws!IndexesAgree
  BY <1>1 DEF Ws!Init, Ws!IndexesAgree, Ws!Connected
<1> QED
  BY <1>3, <1>4 DEF IndexInv

\* disconnect takes a socket out of every index that it is in.
LEMMA DisconnectKeeps ==
    ASSUME IndexInv, NEW gone \in SUBSET Sockets, Ws!Disconnected(gone)
    PROVE  /\ DOMAIN active' = DOMAIN active \ gone
           /\ active' = [w \in DOMAIN active' |-> active'[w]]
           /\ tenants' \in [Ws!OwnerNames -> SUBSET Sockets] /\ rooms' \in [Rooms -> SUBSET Sockets]
           /\ \A r \in Rooms : rooms'[r] = {w \in DOMAIN active' : r \in active'[w]}
           /\ \A o \in Ws!OwnerNames : tenants'[o] = {w \in DOMAIN active' : Owners[w] = o}
<1>1. /\ DOMAIN active' = DOMAIN active \ gone
      /\ \A w \in DOMAIN active \ gone : active'[w] = active[w]
      /\ active' = [w \in DOMAIN active' |-> active'[w]]
  BY DEF Ws!Disconnected, Ws!Connected
<1>2. /\ tenants' = [o \in Ws!OwnerNames |-> tenants[o] \ {w \in gone \cap DOMAIN active : Owners[w] = o}]
      /\ rooms' = [r \in Rooms |-> rooms[r] \ {w \in gone \cap DOMAIN active : r \in active[w]}]
  BY DEF Ws!Disconnected, Ws!Connected
<1>3. /\ \A r \in Rooms : rooms[r] = {w \in DOMAIN active : r \in active[w]}
      /\ \A o \in Ws!OwnerNames : tenants[o] = {w \in DOMAIN active : Owners[w] = o}
  BY DEF IndexInv, Ws!IndexesAgree, Ws!Connected
<1>4. tenants' \in [Ws!OwnerNames -> SUBSET Sockets] /\ rooms' \in [Rooms -> SUBSET Sockets]
  BY <1>2 DEF IndexInv, LinkTypes
<1>5. \A r \in Rooms : rooms'[r] = {w \in DOMAIN active' : r \in active'[w]}
  BY <1>1, <1>2, <1>3
<1>6. \A o \in Ws!OwnerNames : tenants'[o] = {w \in DOMAIN active' : Owners[w] = o}
  BY <1>1, <1>2, <1>3
<1> QED
  BY <1>1, <1>4, <1>5, <1>6

LEMMA IndexStep == IndexInv /\ [Ws!Next]_(Ws!wsVars) => IndexInv'
<1> SUFFICES ASSUME IndexInv, [Ws!Next]_(Ws!wsVars) PROVE IndexInv'
  OBVIOUS
<1>0. /\ LinkTypes
      /\ \A r \in Rooms : rooms[r] = {w \in DOMAIN active : r \in active[w]}
      /\ \A o \in Ws!OwnerNames : tenants[o] = {w \in DOMAIN active : Owners[w] = o}
      /\ \A w \in DOMAIN active : link[w] = "open"
  BY DEF IndexInv, Ws!IndexesAgree, Ws!Connected
<1>1. ASSUME NEW w \in Sockets, Ws!Connect(w) PROVE IndexInv'
  <2>1. /\ DOMAIN active' = DOMAIN active \cup {w} /\ active'[w] = {}
        /\ \A x \in DOMAIN active : x # w => active'[x] = active[x]
        /\ active' = [x \in DOMAIN active' |-> active'[x]]
    BY <1>1 DEF Ws!Connect, Ws!Connected
  <2>2. w \notin DOMAIN active
    BY <1>0, <1>1 DEF Ws!Connect
  <2>3. /\ link' = [link EXCEPT ![w] = "open"]
        /\ tenants' = [tenants EXCEPT ![Owners[w]] = @ \cup {w}]
        /\ rooms' = rooms /\ push' = push
    BY <1>1 DEF Ws!Connect
  <2>4. Owners[w] \in Ws!OwnerNames
    BY DEF Ws!OwnerNames
  <2>5. LinkTypes'
    BY <1>0, <2>1, <2>3, <2>4 DEF LinkTypes
  <2>6. \A r \in Rooms : rooms'[r] = {x \in DOMAIN active' : r \in active'[x]}
    BY <1>0, <2>1, <2>2, <2>3
  <2>7. \A o \in Ws!OwnerNames : tenants'[o] = {x \in DOMAIN active' : Owners[x] = o}
    <3> SUFFICES ASSUME NEW o \in Ws!OwnerNames PROVE tenants'[o] = {x \in DOMAIN active' : Owners[x] = o}
      OBVIOUS
    <3>1. CASE o = Owners[w]
      BY <1>0, <2>1, <2>3, <2>4, <3>1 DEF LinkTypes
    <3>2. CASE o # Owners[w]
      BY <1>0, <2>1, <2>3, <2>4, <3>2 DEF LinkTypes
    <3> QED
      BY <3>1, <3>2
  <2>8. \A x \in DOMAIN active' : link'[x] = "open"
    BY <1>0, <2>1, <2>3 DEF LinkTypes
  <2> QED
    BY <2>5, <2>6, <2>7, <2>8 DEF IndexInv, Ws!IndexesAgree, Ws!Connected
<1>2. ASSUME NEW w \in Sockets, Ws!Leave(w) PROVE IndexInv'
  <2>1. {w} \in SUBSET Sockets /\ Ws!Disconnected({w})
    BY <1>2 DEF Ws!Leave
  <2>2. /\ DOMAIN active' = DOMAIN active \ {w}
        /\ active' = [x \in DOMAIN active' |-> active'[x]]
        /\ tenants' \in [Ws!OwnerNames -> SUBSET Sockets] /\ rooms' \in [Rooms -> SUBSET Sockets]
        /\ \A r \in Rooms : rooms'[r] = {x \in DOMAIN active' : r \in active'[x]}
        /\ \A o \in Ws!OwnerNames : tenants'[o] = {x \in DOMAIN active' : Owners[x] = o}
    BY <2>1, DisconnectKeeps
  <2>3. link' = [link EXCEPT ![w] = "closed"] /\ push' = push
    BY <1>2 DEF Ws!Leave
  <2>4. LinkTypes'
    BY <1>0, <2>2, <2>3 DEF LinkTypes
  <2>5. \A x \in DOMAIN active' : link'[x] = "open"
    BY <1>0, <2>2, <2>3 DEF LinkTypes
  <2> QED
    BY <2>2, <2>4, <2>5 DEF IndexInv, Ws!IndexesAgree, Ws!Connected
<1>3. ASSUME NEW w \in Sockets, NEW r \in Rooms, Ws!Subscribe(w, r) \/ Ws!Unsubscribe(w, r) PROVE IndexInv'
  <2>1. CASE Ws!Subscribe(w, r)
    <3>1. /\ w \in DOMAIN active
          /\ rooms' = [rooms EXCEPT ![r] = @ \cup {w}]
          /\ active' = [x \in DOMAIN active |-> IF x = w THEN active[x] \cup {r} ELSE active[x]]
          /\ link' = link /\ tenants' = tenants /\ push' = push
      BY <2>1 DEF Ws!Subscribe, Ws!Subscriber, Ws!Connected
    <3>2. DOMAIN active' = DOMAIN active
      BY <3>1
    <3>3. LinkTypes'
      BY <1>0, <3>1, <3>2 DEF LinkTypes
    <3>4. \A q \in Rooms : rooms'[q] = {x \in DOMAIN active' : q \in active'[x]}
      BY <1>0, <3>1, <3>2 DEF LinkTypes
    <3> QED
      BY <1>0, <3>1, <3>2, <3>3, <3>4 DEF IndexInv, Ws!IndexesAgree, Ws!Connected
  <2>2. CASE Ws!Unsubscribe(w, r)
    <3>1. /\ active' = [x \in DOMAIN active |-> IF x = w THEN active[x] \ {r} ELSE active[x]]
          /\ rooms' = [rooms EXCEPT ![r] = @ \ {w}]
          /\ link' = link /\ tenants' = tenants /\ push' = push
      BY <2>2 DEF Ws!Unsubscribe, Ws!Connected
    <3>2. DOMAIN active' = DOMAIN active
      BY <3>1
    <3>3. LinkTypes'
      BY <1>0, <3>1, <3>2 DEF LinkTypes
    <3>4. \A q \in Rooms : rooms'[q] = {x \in DOMAIN active' : q \in active'[x]}
      BY <1>0, <3>1, <3>2 DEF LinkTypes
    <3> QED
      BY <1>0, <3>1, <3>2, <3>3, <3>4 DEF IndexInv, Ws!IndexesAgree, Ws!Connected
  <2> QED
    BY <1>3, <2>1, <2>2
<1>4. ASSUME NEW p \in Pushes, NEW targets \in SUBSET Sockets, Ws!BeginPush(p, targets) PROVE IndexInv'
  <2>1. [running |-> TRUE, left |-> targets, dead |-> {}] \in SocketPushes
    BY DEF SocketPushes
  <2>2. LinkTypes'
    BY <1>0, <1>4, <2>1 DEF Ws!BeginPush, LinkTypes
  <2> QED
    BY <1>0, <1>4, <2>2 DEF Ws!BeginPush, IndexInv, Ws!IndexesAgree, Ws!Connected
<1>5. ASSUME NEW p \in Pushes, NEW w \in Sockets, Ws!SendText(p, w) PROVE IndexInv'
  <2>1. PICK q : /\ q.running = push[p].running /\ q.left = push[p].left \ {w}
                 /\ q.dead \in {push[p].dead, push[p].dead \cup {w}}
                 /\ push' = [push EXCEPT ![p] = q] /\ q \in SocketPushes
    <3>0. push[p] \in SocketPushes
      BY <1>0 DEF LinkTypes
    <3>1. PICK q1 : q1 = [push[p] EXCEPT !.left = @ \ {w}]
      OBVIOUS
    <3>2. PICK q2 : q2 = [push[p] EXCEPT !.left = @ \ {w}, !.dead = @ \cup {w}]
      OBVIOUS
    <3>3. q1 \in SocketPushes /\ q1.running = push[p].running /\ q1.left = push[p].left \ {w} /\ q1.dead = push[p].dead
      BY <3>0, <3>1 DEF SocketPushes
    <3>4. /\ q2 \in SocketPushes /\ q2.running = push[p].running /\ q2.left = push[p].left \ {w}
          /\ q2.dead = push[p].dead \cup {w}
      BY <3>0, <3>2 DEF SocketPushes
    <3>5. push' = [push EXCEPT ![p] = q1] \/ push' = [push EXCEPT ![p] = q2]
      BY <1>0, <1>5, <3>0, <3>1, <3>2 DEF Ws!SendText, LinkTypes, SocketPushes
    <3> QED
      BY <3>3, <3>4, <3>5
  <2>2. LinkTypes'
    BY <1>0, <1>5, <2>1 DEF Ws!SendText, LinkTypes
  <2> QED
    BY <1>0, <1>5, <2>2 DEF Ws!SendText, IndexInv, Ws!IndexesAgree, Ws!Connected
<1>6. ASSUME NEW p \in Pushes, Ws!EndPush(p) PROVE IndexInv'
  <2>1. push[p].dead \in SUBSET Sockets /\ Ws!Disconnected(push[p].dead)
    BY <1>0, <1>6 DEF Ws!EndPush, LinkTypes, SocketPushes
  <2>2. /\ DOMAIN active' = DOMAIN active \ push[p].dead
        /\ active' = [x \in DOMAIN active' |-> active'[x]]
        /\ tenants' \in [Ws!OwnerNames -> SUBSET Sockets] /\ rooms' \in [Rooms -> SUBSET Sockets]
        /\ \A r \in Rooms : rooms'[r] = {x \in DOMAIN active' : r \in active'[x]}
        /\ \A o \in Ws!OwnerNames : tenants'[o] = {x \in DOMAIN active' : Owners[x] = o}
    BY <2>1, DisconnectKeeps
  <2>3. link' = link /\ push' = [push EXCEPT ![p] = Ws!NoPush] /\ Ws!NoPush \in SocketPushes
    BY <1>6 DEF Ws!EndPush, Ws!NoPush, SocketPushes
  <2>4. LinkTypes'
    BY <1>0, <2>2, <2>3 DEF LinkTypes
  <2>5. \A x \in DOMAIN active' : link'[x] = "open"
    BY <1>0, <2>2, <2>3
  <2> QED
    BY <2>2, <2>4, <2>5 DEF IndexInv, Ws!IndexesAgree, Ws!Connected
<1>7. CASE UNCHANGED Ws!wsVars
  <2>1. /\ link' = link /\ active' = active /\ tenants' = tenants /\ rooms' = rooms /\ push' = push
    BY <1>7 DEF Ws!wsVars
  <2> QED
    BY <2>1 DEF IndexInv, LinkTypes, Ws!IndexesAgree, Ws!Connected
<1>8. CASE Ws!Next
  <2>1. DOMAIN active \in SUBSET Sockets /\ \A r \in Rooms : rooms[r] \in SUBSET Sockets
    BY <1>0 DEF LinkTypes
  <2>2. \A o \in Ws!OwnerNames : tenants[o] \in SUBSET Sockets
    BY <1>0 DEF LinkTypes
  <2>3. CASE \E p \in Pushes : \/ Ws!BeginPush(p, Ws!Connected)
                               \/ \E r \in Rooms : Ws!BeginPush(p, rooms[r])
                               \/ \E o \in Ws!OwnerNames : tenants[o] # {} /\ Ws!BeginPush(p, tenants[o])
    BY <1>4, <2>1, <2>2, <2>3 DEF Ws!Connected
  <2> QED
    BY <1>1, <1>2, <1>3, <1>5, <1>6, <1>8, <2>3 DEF Ws!Next, Ws!Runs
<1> QED
  BY <1>7, <1>8

\* Whatever connects, joins, leaves or stalls while pushes await their sends, a
\* room and a tenant reach exactly the connected sockets that joined them, and
\* every connected socket is open, so that an evicted one is in no index
\* (websocket/manager.py:30-113).
THEOREM SocketIndexesAgree == Ws!Spec => [](Ws!IndexesAgree /\ Ws!TypeOK)
<1>1. Ws!Init => IndexInv
  BY IndexInit
<1>2. IndexInv /\ [Ws!Next]_(Ws!wsVars) => IndexInv'
  BY IndexStep
<1>3. IndexInv => Ws!IndexesAgree /\ Ws!TypeOK
  BY DEF IndexInv, LinkTypes, Ws!TypeOK, Ws!Connected, SocketPushes
<1> QED
  BY <1>1, <1>2, <1>3, PTL DEF Ws!Spec

-----------------------------------------------------------------------------
(* The report of a sandboxed job (Sandbox).                                *)

PipeMessages == {"stdout", "done"}
Codes == {"none", "0", "1", "SIGSEGV", "SIGXCPU", "SIGTERM", "SIGKILL"}
SandReturns == [timed_out : BOOLEAN, resource_exceeded : BOOLEAN, exit_code : Codes,
                error : BOOLEAN, result : BOOLEAN]
SandTypes ==
    /\ job \in [does : Sand!Jobs \cup {"nothing"}, prints : {0} \cup Outputs]
    /\ child \in [at : {"none", "running", "stdout", "done", "exited"}, exit : Codes]
    /\ pipe \in [whole : Seq(PipeMessages), part : BOOLEAN]
    /\ parent \in [at : {"idle", "join", "alive?", "terminate", "kill", "drain", "stuck", "returned"},
                   returns : SandReturns]

Delivered == Sand!Contains(pipe.whole, "done")
Reporting == {"returns", "returns_unpicklable", "raises"}

\* A child that went by itself has left what its job made of it; one that was
\* signalled by the parent was late, and the parent has noted that before; the
\* only other one to be killed has used up its CPU seconds.
ExitTells ==
    /\ child.at = "exited" <=> child.exit # "none"
    /\ child.at \in {"stdout", "done"} => job.does \in Reporting
    /\ child.exit = "0" =>
         \/ job.does \in {"exits", "returns_unpicklable"}
         \/ job.does \in {"returns", "raises"} /\ Delivered
    /\ child.exit = "SIGXCPU" => job.does = "hogs_cpu"
    /\ child.exit = "SIGTERM" => parent.returns.timed_out
    /\ child.exit = "SIGKILL" => parent.returns.timed_out \/ job.does = "hogs_cpu"
SandInv ==
    /\ SandTypes
    /\ ExitTells
    /\ parent.at = "idle" => child.at = "none"
    /\ parent.at \in {"idle", "join", "alive?"} => ~ parent.returns.timed_out
    /\ parent.at \in {"terminate", "kill"} => parent.returns.timed_out
    /\ parent.at \in {"drain", "stuck", "returned"} => child.at = "exited"
    /\ Sand!ReportIsTrue

LEMMA SandInit == Sand!Init => SandInv
<1> SUFFICES ASSUME Sand!Init PROVE SandInv
  OBVIOUS
<1>1. <<>> \in Seq(PipeMessages)
  OBVIOUS
<1>2. Sand!NoResult \in SandReturns
  BY DEF Sand!NoResult, SandReturns, Codes
<1>3. SandTypes
  BY <1>1, <1>2 DEF Sand!Init, SandTypes, Codes
<1> QED
  BY <1>3 DEF Sand!Init, SandInv, ExitTells, Sand!ReportIsTrue, Sand!NoResult

\* What the child does by itself; the parent's variables stay.
LEMMA ChildStep == SandInv /\ (Sand!JobEnds \/ Sand!WriteStdout \/ Sand!WriteDone) => SandInv'
<1> SUFFICES ASSUME SandInv, Sand!JobEnds \/ Sand!WriteStdout \/ Sand!WriteDone PROVE SandInv'
  OBVIOUS
<1>0. SandTypes /\ ExitTells
  BY DEF SandInv
<1>1. CASE Sand!JobEnds
  <2>1. /\ job' = job /\ pipe' = pipe /\ parent' = parent
        /\ child' \in [at : {"none", "running", "stdout", "done", "exited"}, exit : Codes]
        /\ \/ child'.at = "stdout" /\ child'.exit = child.exit /\ job.does \in Reporting
           \/ child'.at = "exited" /\ child'.exit \in {"0", "1"} /\ job.does = "exits"
           \/ child'.at = "exited" /\ child'.exit = "SIGSEGV"
           \/ child'.at = "exited" /\ child'.exit \in {"SIGXCPU", "SIGKILL"} /\ job.does = "hogs_cpu"
    BY <1>0, <1>1 DEF Sand!JobEnds, Sand!Exit, SandTypes, Codes, Reporting
  <2>2. child.at = "running"
    BY <1>1 DEF Sand!JobEnds
  <2>3. SandTypes'
    BY <1>0, <2>1 DEF SandTypes
  <2>4. ExitTells'
    BY <1>0, <2>1, <2>2 DEF ExitTells, Delivered
  <2>5. parent.at \notin {"idle", "drain", "stuck", "returned"}
    BY <2>2 DEF SandInv
  <2> QED
    BY <2>1, <2>3, <2>4, <2>5 DEF SandInv, Sand!ReportIsTrue
<1>2. CASE Sand!WriteStdout
  <2>1. /\ job' = job /\ parent' = parent /\ child.at = "stdout"
        /\ child' \in [at : {"none", "running", "stdout", "done", "exited"}, exit : Codes]
        /\ child'.at \in {"stdout", "done"} /\ child'.exit = child.exit
    BY <1>0, <1>2 DEF Sand!WriteStdout, SandTypes
  <2>2. pipe' \in [whole : Seq(PipeMessages), part : BOOLEAN]
    <3>1. Append(pipe.whole, "stdout") \in Seq(PipeMessages)
      BY <1>0 DEF SandTypes, PipeMessages
    <3> QED
      BY <1>0, <1>2, <3>1 DEF Sand!WriteStdout, SandTypes
  <2>3. SandTypes'
    BY <1>0, <2>1, <2>2 DEF SandTypes
  <2>4. child.exit = "none" /\ job.does \in Reporting
    BY <1>0, <2>1 DEF ExitTells
  <2>5. ExitTells'
    BY <2>1, <2>4 DEF ExitTells
  <2>6. parent.at \notin {"idle", "drain", "stuck", "returned"}
    BY <2>1 DEF SandInv
  <2> QED
    BY <2>1, <2>3, <2>5, <2>6 DEF SandInv, Sand!ReportIsTrue
<1>3. CASE Sand!WriteDone
  <2>1. /\ job' = job /\ parent' = parent /\ child.at = "done"
        /\ child' = [at |-> "exited", exit |-> "0"]
    BY <1>3 DEF Sand!WriteDone, Sand!Exit
  <2>2. PICK new : new = Append(pipe.whole, "done")
    OBVIOUS
  <2>3. /\ pipe.whole \in Seq(PipeMessages) /\ "done" \in PipeMessages
        /\ new \in Seq(PipeMessages) /\ Len(new) = Len(pipe.whole) + 1 /\ new[Len(pipe.whole) + 1] = "done"
        /\ Len(pipe.whole) \in Nat
    BY <1>0, <2>2, AppendProperties DEF SandTypes, PipeMessages
  <2>4. Sand!Contains(new, "done")
    BY <2>3 DEF Sand!Contains
  <2>5. /\ pipe' \in [whole : Seq(PipeMessages), part : BOOLEAN]
        /\ job.does # "returns_unpicklable" => pipe'.whole = new
    BY <1>0, <1>3, <2>2, <2>3 DEF Sand!WriteDone, SandTypes
  <2>6. SandTypes'
    BY <1>0, <2>1, <2>5 DEF SandTypes, Codes
  <2>7. job.does \in Reporting
    BY <1>0, <2>1 DEF ExitTells
  <2>8. job.does # "returns_unpicklable" => Delivered'
    BY <2>4, <2>5 DEF Delivered
  <2>9. ExitTells'
    BY <2>1, <2>7, <2>8 DEF ExitTells, Reporting
  <2>10. parent.at \notin {"idle", "drain", "stuck", "returned"}
    BY <2>1 DEF SandInv
  <2> QED
    BY <2>1, <2>6, <2>9, <2>10 DEF SandInv, Sand!ReportIsTrue
<1> QED
  BY <1>1, <1>2, <1>3

LEMMA ParentStep ==
    SandInv /\ (Sand!Joined \/ Sand!Deadline \/ Sand!CheckAlive \/ Sand!Terminate \/ Sand!Kill \/ Sand!Stuck) => SandInv'
<1> SUFFICES ASSUME SandInv, Sand!Joined \/ Sand!Deadline \/ Sand!CheckAlive \/ Sand!Terminate \/ Sand!Kill \/ Sand!Stuck
             PROVE  SandInv'
  OBVIOUS
<1>0. SandTypes /\ ExitTells
  BY DEF SandInv
<1>1. CASE Sand!Joined \/ Sand!Deadline \/ Sand!Stuck
  <2>1. /\ job' = job /\ child' = child /\ pipe' = pipe /\ parent'.returns = parent.returns
        /\ \/ parent'.at = "alive?" /\ parent.at = "join"
           \/ parent'.at = "drain" /\ child.at = "exited"
           \/ parent'.at = "stuck" /\ parent.at = "drain"
        /\ parent' \in [at : {"idle", "join", "alive?", "terminate", "kill", "drain", "stuck", "returned"},
                        returns : SandReturns]
    BY <1>0, <1>1 DEF Sand!Joined, Sand!Deadline, Sand!Stuck, Sand!Alive, SandTypes
  <2>2. SandTypes'
    BY <1>0, <2>1 DEF SandTypes
  <2>3. ExitTells'
    BY <1>0, <2>1 DEF ExitTells, Delivered
  <2> QED
    BY <2>1, <2>2, <2>3 DEF SandInv, Sand!ReportIsTrue
<1>2. CASE Sand!CheckAlive
  <2>1. /\ job' = job /\ child' = child /\ pipe' = pipe
        /\ parent'.returns.timed_out = (child.at # "exited")
        /\ parent'.at = IF child.at # "exited" THEN "terminate" ELSE "drain"
        /\ parent' \in [at : {"idle", "join", "alive?", "terminate", "kill", "drain", "stuck", "returned"},
                        returns : SandReturns]
    BY <1>0, <1>2 DEF Sand!CheckAlive, Sand!Alive, Sand!TimedOut, SandTypes, SandReturns
  <2>2. SandTypes'
    BY <1>0, <2>1 DEF SandTypes
  <2>3. child.exit # "SIGTERM" /\ (child.exit = "SIGKILL" => job.does = "hogs_cpu")
    BY <1>2 DEF SandInv, ExitTells, Sand!CheckAlive
  <2>4. ExitTells'
    BY <1>0, <2>1, <2>3 DEF ExitTells, Delivered
  <2> QED
    BY <2>1, <2>2, <2>4 DEF SandInv, Sand!ReportIsTrue
<1>3. CASE Sand!Terminate \/ Sand!Kill
  <2>1. /\ job' = job /\ pipe' = pipe /\ parent'.returns = parent.returns /\ parent.returns.timed_out
        /\ parent'.at \in {"kill", "drain"}
        /\ parent' \in [at : {"idle", "join", "alive?", "terminate", "kill", "drain", "stuck", "returned"},
                        returns : SandReturns]
    BY <1>0, <1>3 DEF Sand!Terminate, Sand!Kill, SandInv, SandTypes
  <2>2. /\ \/ child' = child
           \/ child'.at = "exited" /\ child'.exit \in {"SIGTERM", "SIGKILL"}
        /\ child' \in [at : {"none", "running", "stdout", "done", "exited"}, exit : Codes]
        /\ parent'.at = "drain" => child'.at = "exited"
    BY <1>0, <1>3 DEF Sand!Terminate, Sand!Kill, Sand!Alive, Sand!Exit, SandTypes, Codes
  <2>3. SandTypes'
    BY <1>0, <2>1, <2>2 DEF SandTypes
  <2>4. ExitTells'
    BY <1>0, <2>1, <2>2 DEF ExitTells, Delivered
  <2> QED
    BY <2>1, <2>2, <2>3, <2>4 DEF SandInv, Sand!ReportIsTrue
<1> QED
  BY <1>1, <1>2, <1>3

LEMMA DrainStep == SandInv /\ Sand!Drain => SandInv'
<1> SUFFICES ASSUME SandInv, Sand!Drain PROVE SandInv'
  OBVIOUS
<1>0. SandTypes /\ ExitTells /\ child.at = "exited" /\ child.exit # "none" /\ child.exit \in Codes
  BY DEF SandInv, Sand!Drain, ExitTells, SandTypes
<1>1. PICK late, exceeded : /\ late = parent.returns.timed_out
                            /\ exceeded = (child.exit = "SIGXCPU" \/ (child.exit = "SIGKILL" /\ late))
  OBVIOUS
<1>2. late \in BOOLEAN /\ exceeded \in BOOLEAN /\ Delivered \in BOOLEAN
  BY <1>0, <1>1 DEF SandTypes, SandReturns, Delivered, Sand!Contains
<1>3. PICK r : r = [timed_out |-> late, resource_exceeded |-> exceeded, exit_code |-> child.exit,
                    error |-> exceeded \/ (Delivered /\ job.does = "raises"),
                    result |-> Delivered /\ job.does = "returns"]
  OBVIOUS
<1>4. r \in SandReturns
  BY <1>0, <1>2, <1>3 DEF SandReturns
<1>5. parent' = [at |-> "returned", returns |-> r] /\ job' = job /\ child' = child /\ pipe' = pipe
  BY <1>1, <1>3 DEF Sand!Drain, Delivered
<1>6. SandTypes'
  BY <1>0, <1>4, <1>5 DEF SandTypes
<1>7. ExitTells'
  BY <1>0, <1>1, <1>3, <1>5 DEF ExitTells, Delivered
<1>8. Sand!ReportIsTrue'
  <2>1. r.timed_out = late /\ r.resource_exceeded = exceeded /\ r.exit_code = child.exit
    BY <1>3
  <2>2. r.error <=> exceeded \/ (Delivered /\ job.does = "raises")
    BY <1>3
  <2>3. r.result <=> Delivered /\ job.does = "returns"
    BY <1>3
  <2>4. /\ child.exit = "0" =>
             \/ job.does \in {"exits", "returns_unpicklable"}
             \/ job.does \in {"returns", "raises"} /\ Delivered
        /\ child.exit = "SIGTERM" => late
        /\ child.exit = "SIGKILL" => late \/ job.does = "hogs_cpu"
        /\ child.exit = "SIGXCPU" => job.does = "hogs_cpu"
    BY <1>0, <1>1 DEF ExitTells, Codes
  <2>5. r.exit_code = "0" /\ ~ r.error /\ ~ r.timed_out =>
          job.does \in {"returns", "returns_unpicklable", "exits"}
    BY <2>1, <2>2, <2>4
  <2>6. ~ r.result /\ ~ r.error =>
          r.timed_out \/ r.exit_code # "0" \/ job.does \in {"exits", "returns_unpicklable"}
    BY <1>1, <2>1, <2>2, <2>3, <2>4
  <2>8. child.exit = "SIGKILL" \/ r.resource_exceeded => r.timed_out \/ job.does = "hogs_cpu"
    BY <1>1, <2>1, <2>4
  <2>7. parent'.returns = r
    BY <1>5
  <2> QED
    BY <1>5, <2>1, <2>4, <2>5, <2>6, <2>7, <2>8 DEF Sand!ReportIsTrue, Sand!Succeeded
<1> QED
  BY <1>0, <1>5, <1>6, <1>7, <1>8 DEF SandInv

LEMMA SandStep == SandInv /\ [Sand!Next]_(Sand!sandVars) => SandInv'
<1> SUFFICES ASSUME SandInv, [Sand!Next]_(Sand!sandVars) PROVE SandInv'
  OBVIOUS
<1>1. ASSUME NEW d \in Sand!Jobs, NEW n \in Outputs, Sand!Execute(d, n) PROVE SandInv'
  <2>1. /\ job' \in [does : Sand!Jobs \cup {"nothing"}, prints : {0} \cup Outputs] /\ pipe' = pipe
        /\ child.at = "none" /\ child.exit = "none" /\ child'.at = "running" /\ child'.exit = "none"
        /\ child' \in [at : {"none", "running", "stdout", "done", "exited"}, exit : Codes]
        /\ parent.at = "idle" /\ parent'.at = "join" /\ parent'.returns = parent.returns
        /\ parent' \in [at : {"idle", "join", "alive?", "terminate", "kill", "drain", "stuck", "returned"},
                        returns : SandReturns]
    BY <1>1 DEF Sand!Execute, SandInv, SandTypes, ExitTells
  <2>2. SandTypes'
    BY <2>1 DEF SandInv, SandTypes
  <2>3. ExitTells'
    BY <2>1 DEF ExitTells
  <2> QED
    BY <2>1, <2>2, <2>3 DEF SandInv, Sand!ReportIsTrue
<1>2. CASE UNCHANGED Sand!sandVars
  <2>1. job' = job /\ child' = child /\ pipe' = pipe /\ parent' = parent
    BY <1>2 DEF Sand!sandVars
  <2> QED
    BY <2>1 DEF SandInv, SandTypes, ExitTells, Delivered, Sand!ReportIsTrue, Sand!Succeeded
<1> QED
  BY <1>1, <1>2, ChildStep, ParentStep, DrainStep DEF Sand!Next, Sand!Runs

\* However the child ends, the deadline falls and the signals are ignored, what
\* execute returns is what happened: success only of a callable that came to its
\* end, a signal's exit only of one that was cut short, crashed or used up its CPU
\* seconds, and silence with exit code 0 only of one that left without reporting
\* or had a result that cannot be pickled (agent_runtime/sandbox.py:136-303).
THEOREM JobsAreReported == Sand!Spec => [](Sand!ReportIsTrue /\ Sand!TypeOK)
<1>1. Sand!Init => SandInv
  BY SandInit
<1>2. SandInv /\ [Sand!Next]_(Sand!sandVars) => SandInv'
  BY SandStep
<1>3. SandInv => Sand!ReportIsTrue /\ Sand!TypeOK
  BY DEF SandInv, SandTypes, Sand!TypeOK
<1> QED
  BY <1>1, <1>2, <1>3, PTL DEF Sand!Spec

-----------------------------------------------------------------------------
(* The roster of agents, and the four programs that carry it about. *)

RosterTypes ==
    /\ panes \in SUBSET Agents /\ rows \in SUBSET Agents /\ listed \in SUBSET Agents
    /\ file \in [readable : BOOLEAN, ids : SUBSET Agents]
    /\ config \in [set : BOOLEAN, ids : SUBSET Agents] /\ allow \in [set : BOOLEAN, ids : SUBSET Agents]
    /\ purge \in [at : {"idle", "loaded", "deleting"}, whitelist : SUBSET Agents, todo : SUBSET Agents]
    /\ reconcile \in [at : {"idle", "roster", "sync", "commit"}, roster : SUBSET Agents, sync : SUBSET Agents]
    /\ firing \in BOOLEAN /\ pinned \in BOOLEAN

LEMMA RosterInit == Roster!Init => RosterTypes
<1> SUFFICES ASSUME Roster!Init PROVE RosterTypes
  OBVIOUS
<1>1. /\ panes \in SUBSET Agents /\ rows \in SUBSET Agents /\ listed \in SUBSET Agents
      /\ firing \in BOOLEAN /\ pinned \in BOOLEAN
  BY DEF Roster!Init
<1>2. file \in [readable : BOOLEAN, ids : SUBSET Agents]
  <2>1. Roster!Unread \in [readable : BOOLEAN, ids : SUBSET Agents]
    BY DEF Roster!Unread
  <2>2. [readable |-> TRUE, ids |-> panes] \in [readable : BOOLEAN, ids : SUBSET Agents]
    BY <1>1
  <2> QED
    BY <2>1, <2>2 DEF Roster!Init
<1>3. config \in [set : BOOLEAN, ids : SUBSET Agents] /\ allow \in [set : BOOLEAN, ids : SUBSET Agents]
  BY DEF Roster!Init
<1>4. /\ purge \in [at : {"idle", "loaded", "deleting"}, whitelist : SUBSET Agents, todo : SUBSET Agents]
      /\ reconcile \in [at : {"idle", "roster", "sync", "commit"}, roster : SUBSET Agents, sync : SUBSET Agents]
  BY DEF Roster!Init, Roster!NoPurge, Roster!NoReconcile
<1> QED
  BY <1>1, <1>2, <1>3, <1>4 DEF RosterTypes

LEMMA RosterStep == RosterTypes /\ [Roster!Next]_(Roster!rosterVars) => RosterTypes'
<1> SUFFICES ASSUME RosterTypes, [Roster!Next]_(Roster!rosterVars) PROVE RosterTypes'
  OBVIOUS
<1>1. ASSUME NEW a \in Agents, Roster!PaneChanges(a) PROVE RosterTypes'
  BY <1>1 DEF RosterTypes, Roster!PaneChanges
<1>2. ASSUME NEW a \in Agents, Roster!Register(a) PROVE RosterTypes'
  BY <1>2 DEF RosterTypes, Roster!Register
<1>3. CASE Roster!Reload
  BY <1>3 DEF RosterTypes, Roster!Reload
<1>4. CASE Roster!PollStarts
  BY <1>4 DEF RosterTypes, Roster!PollStarts
<1>5. ASSUME NEW a \in Agents, Roster!SyncAgent(a) PROVE RosterTypes'
  BY <1>5 DEF RosterTypes, Roster!SyncAgent
<1>6. CASE Roster!Scrape
  <2>1. Roster!Mismatch \in BOOLEAN
    BY DEF Roster!Mismatch
  <2> QED
    BY <1>6, <2>1 DEF RosterTypes, Roster!Scrape
<1>7. CASE Roster!LoadWhitelist
  BY <1>7 DEF RosterTypes, Roster!LoadWhitelist
<1>8. CASE Roster!FetchAgents
  BY <1>8 DEF RosterTypes, Roster!FetchAgents, Roster!Unlisted, Roster!NoPurge
<1>9. CASE Roster!FetchFails
  BY <1>9 DEF RosterTypes, Roster!FetchFails, Roster!NoPurge
<1>10. ASSUME NEW a \in Agents, Roster!DeleteAgent(a) PROVE RosterTypes'
  BY <1>10 DEF RosterTypes, Roster!DeleteAgent, Roster!Done, Roster!NoPurge
<1>11. ASSUME NEW a \in Agents, Roster!DeleteFails(a) PROVE RosterTypes'
  BY <1>11 DEF RosterTypes, Roster!DeleteFails, Roster!Done, Roster!NoPurge
<1>12. CASE Roster!ReadRoster
  BY <1>12 DEF RosterTypes, Roster!ReadRoster
<1>13. CASE Roster!SyncTruncates
  BY <1>13 DEF RosterTypes, Roster!SyncTruncates, Roster!Unread
<1>14. CASE Roster!SyncWrites
  BY <1>14 DEF RosterTypes, Roster!SyncWrites
<1>15. CASE Roster!ReconcileCommits
  BY <1>15 DEF RosterTypes, Roster!ReconcileCommits, Roster!NoReconcile
<1>16. CASE Roster!ReconcileDies
  BY <1>16 DEF RosterTypes, Roster!ReconcileDies, Roster!NoReconcile
<1>17. CASE Roster!RegistryChanges
  BY <1>17 DEF RosterTypes, Roster!RegistryChanges
<1>18. CASE UNCHANGED Roster!rosterVars
  BY <1>18 DEF RosterTypes, Roster!rosterVars
<1> QED
  BY <1>1, <1>2, <1>3, <1>4, <1>5, <1>6, <1>7, <1>8, <1>9, <1>10, <1>11, <1>12, <1>13, <1>14, <1>15,
     <1>16, <1>17, <1>18
  DEF Roster!Next, Roster!Watches, Roster!Purges, Roster!Reconciles

LEMMA RosterTypesTell == RosterTypes => Roster!TypeOK
  BY DEF RosterTypes, Roster!TypeOK

-----------------------------------------------------------------------------
(* The services together: each step is one of a single service.            *)

WorkInv == SocketInv /\ SandInv /\ FlowInv /\ IndexInv /\ RosterTypes

LEMMA WorkInit == Flow!WorkflowAssumption /\ ProgressInit => WorkInv
<1> SUFFICES ASSUME Flow!WorkflowAssumption, ProgressInit PROVE WorkInv
  OBVIOUS
<1>1. Socket!Init /\ Flow!Init /\ Sand!Init /\ Ws!Init /\ Roster!Init
  BY DEF ProgressInit
<1> QED
  BY <1>1, SocketInit, SandInit, FlowInvHolds, IndexInit, RosterInit DEF WorkInv

\* Of each service, one of its own steps or none.
LEMMA WorkSteps ==
    ASSUME [ProgressNext]_allVars
    PROVE  /\ [Socket!Next]_(Socket!sdVars) /\ [Sand!Next]_(Sand!sandVars)
           /\ [Flow!Next]_(Flow!flowVars) /\ [Ws!Next]_(Ws!wsVars)
           /\ [Roster!Next]_(Roster!rosterVars)
<1>1. /\ UNCHANGED sdVars => UNCHANGED Socket!sdVars
      /\ UNCHANGED sandVars => UNCHANGED Sand!sandVars
      /\ UNCHANGED flowVars => UNCHANGED Flow!flowVars
      /\ UNCHANGED wsVars => UNCHANGED Ws!wsVars
      /\ UNCHANGED rosterVars => UNCHANGED Roster!rosterVars
  BY DEF sdVars, Socket!sdVars, sandVars, Sand!sandVars, flowVars, Flow!flowVars, wsVars, Ws!wsVars,
         rosterVars, Roster!rosterVars
<1>2. CASE UNCHANGED allVars
  <2>1. UNCHANGED sdVars /\ UNCHANGED sandVars /\ UNCHANGED flowVars /\ UNCHANGED wsVars /\ UNCHANGED rosterVars
    BY <1>2 DEF allVars
  <2> QED
    BY <1>1, <2>1, Zenon
<1>3. CASE Rest("leads") /\ Next
  <2>1. UNCHANGED sdVars /\ UNCHANGED sandVars /\ UNCHANGED flowVars /\ UNCHANGED wsVars /\ UNCHANGED rosterVars
    BY <1>3 DEF Rest
  <2> QED
    BY <1>1, <2>1, Zenon
<1>4. CASE Rest("socket") /\ Socket!Next
  <2>1. UNCHANGED sandVars /\ UNCHANGED flowVars /\ UNCHANGED wsVars /\ UNCHANGED rosterVars
    BY <1>4 DEF Rest
  <2> QED
    BY <1>1, <1>4, <2>1, Zenon
<1>5. CASE Rest("workflow") /\ Flow!Next
  <2>1. UNCHANGED sdVars /\ UNCHANGED sandVars /\ UNCHANGED wsVars /\ UNCHANGED rosterVars
    BY <1>5 DEF Rest
  <2> QED
    BY <1>1, <1>5, <2>1, Zenon
<1>6. CASE Rest("sandbox") /\ Sand!Next
  <2>1. UNCHANGED sdVars /\ UNCHANGED flowVars /\ UNCHANGED wsVars /\ UNCHANGED rosterVars
    BY <1>6 DEF Rest
  <2> QED
    BY <1>1, <1>6, <2>1, Zenon
<1>7. CASE Rest("websocket") /\ Ws!Next
  <2>1. UNCHANGED sdVars /\ UNCHANGED sandVars /\ UNCHANGED flowVars /\ UNCHANGED rosterVars
    BY <1>7 DEF Rest
  <2> QED
    BY <1>1, <1>7, <2>1, Zenon
<1>8. CASE Rest("roster") /\ Roster!Next
  <2>1. UNCHANGED sdVars /\ UNCHANGED sandVars /\ UNCHANGED flowVars /\ UNCHANGED wsVars
    BY <1>8 DEF Rest
  <2> QED
    BY <1>1, <1>8, <2>1, Zenon
<1> QED
  BY <1>2, <1>3, <1>4, <1>5, <1>6, <1>7, <1>8, Zenon DEF ProgressNext

LEMMA WorkStep == Flow!WorkflowAssumption /\ WorkInv /\ [ProgressNext]_allVars => WorkInv'
<1> SUFFICES ASSUME Flow!WorkflowAssumption, WorkInv, [ProgressNext]_allVars PROVE WorkInv'
  OBVIOUS
<1>1. SocketInv' /\ SandInv'
  BY WorkSteps, SocketStep, SandStep DEF WorkInv
<1>2. FlowInv'
  BY WorkSteps, FlowInvKept DEF WorkInv
<1>3. IndexInv' /\ RosterTypes'
  BY WorkSteps, IndexStep, RosterStep DEF WorkInv
<1> QED
  BY <1>1, <1>2, <1>3 DEF WorkInv

\* Whatever the limits and the definitions of workflows, what is told of work
\* under way is so: of dispatches (executors/socket.py:121-202), of sandboxed
\* jobs (agent_runtime/sandbox.py:206-303), of workflows
\* (orchestration_engine.py:142-200) and of websockets
\* (websocket/manager.py:30-113); and every variable has its type.
THEOREM WorkIsTold == Flow!WorkflowAssumption /\ ProgressSpec => []WorkTells
<1> SUFFICES ASSUME Flow!WorkflowAssumption PROVE ProgressSpec => []WorkTells
  OBVIOUS
<1>1. ProgressInit => WorkInv
  BY WorkInit
<1>2. WorkInv /\ [ProgressNext]_allVars => WorkInv'
  BY WorkStep
<1>3. WorkInv => WorkTells
  <2>1. SocketInv => Socket!EventsTell /\ Socket!TypeOK
    BY SocketInvTells
  <2>2. SandInv => Sand!ReportIsTrue /\ Sand!TypeOK
    BY DEF SandInv, SandTypes, Sand!TypeOK
  <2>3. FlowInv => Flow!StepsFollowPlan /\ Flow!TypeOK
    BY FlowInvTells
  <2>4. IndexInv => Ws!IndexesAgree /\ Ws!TypeOK
    BY DEF IndexInv, LinkTypes, Ws!TypeOK, Ws!Connected, SocketPushes
  <2>5. RosterTypes => Roster!TypeOK
    BY RosterTypesTell
  <2> QED
    BY <2>1, <2>2, <2>3, <2>4, <2>5 DEF WorkInv, WorkTells
<1> QED
  BY <1>1, <1>2, <1>3, PTL DEF ProgressSpec
=============================================================================
