--------------------------- MODULE AccountProofs ---------------------------
(***************************************************************************)
(* Accounts, for all accounts, agents, requests and ranks (Rotation), and  *)
(* their quotas, for all tasks, burns, caps and attempts (QuotaScheduler). *)
(*                                                                         *)
(* When callers lease the first account and each agent has one request, two*)
(* agents never use one account: the account of a running request is leased*)
(* to its agent (Backed), and a leased account is neither selectable nor   *)
(* among those that a rotation of another request releases.                *)
(***************************************************************************)
EXTENDS Rotation, QuotaScheduler, FiniteSetTheorems, TLAPS

(* Rotation.                                                               *)

LeaseInv == RotationTypeOK /\ LeaseMatchesStatus

Backed == leasing => \A t \in Requests : Running(t) => lease[account[t]] = AgentOf[t]

\* A task that has not started still has the account of its request.
Fresh == \A t \in Requests : phase[t] = "new" => account[t] = FirstAccount[t]

OneTaskPerAgent == \A t, u \in Requests : AgentOf[t] = AgentOf[u] => t = u

-----------------------------------------------------------------------------
\* What the failures of a rotation do to statuses and leases.
LEMMA Failures ==
    ASSUME LeaseInv, NEW c \in Accounts, NEW D \in SUBSET Accounts
    PROVE  /\ AfterFailures(c, D) \in [Accounts -> Statuses]
           /\ LeasesAfter(c, D) \in [Accounts -> Agents \cup {Nobody}]
           /\ \A a \in Accounts : AfterFailures(c, D)[a] = "leased" <=> a \notin D \cup {c} /\ status[a] = "leased"
           /\ \A a \in Accounts : LeasesAfter(c, D)[a] = IF a \in D \cup {c} THEN Nobody ELSE lease[a]
BY DEF LeaseInv, RotationTypeOK, Statuses, AfterFailures, LeasesAfter

\* One rotation, seen from the pool.
LEMMA RotateEffect ==
    ASSUME RotationAssumption, LeaseInv, NEW t \in Requests, Rotate(t)
    PROVE  \E D \in SUBSET Accounts, n \in Accounts :
             /\ n \notin D \cup {account[t]}
             /\ \A a \in D \cup {n} : IsSelectable(a)
             /\ status' = [AfterFailures(account[t], D) EXCEPT ![n] = "leased"]
             /\ lease' = [LeasesAfter(account[t], D) EXCEPT ![n] = AgentOf[t]]
             /\ account' = [account EXCEPT ![t] = n]
<1>1. PICK n \in Candidates(account[t], signal[t]) :
         LET D == Ahead(Candidates(account[t], signal[t]), n) IN
         /\ status' = [AfterFailures(account[t], D) EXCEPT ![n] = "leased"]
         /\ lease' = [LeasesAfter(account[t], D) EXCEPT ![n] = AgentOf[t]]
         /\ account' = [account EXCEPT ![t] = n]
  BY DEF Rotate
<1> DEFINE D == Ahead(Candidates(account[t], signal[t]), n)
<1>2. D \in SUBSET Accounts /\ n \in Accounts /\ \A a \in D \cup {n} : IsSelectable(a)
  BY DEF Ahead, Candidates, OfVendor
<1>3. n \notin D \cup {account[t]}
  BY <1>2 DEF RotationAssumption, Ahead, Better, Candidates, OfVendor
<1> QED
  BY <1>1, <1>2, <1>3

\* A selectable account has no lease.
LEMMA SelectableIsFree ==
    ASSUME LeaseInv, NEW a \in Accounts, IsSelectable(a)
    PROVE  status[a] # "leased" /\ lease[a] = Nobody
BY DEF LeaseInv, LeaseMatchesStatus, IsSelectable

\* The initial states satisfy the lease invariant.
LEMMA InitLease == RotationAssumption /\ RotationInit => LeaseInv
BY DEF RotationAssumption, RotationInit, LeaseInv, RotationTypeOK, Statuses, Phases, LeaseMatchesStatus

\* Every step preserves it.
LEMMA NextLease == RotationAssumption /\ LeaseInv /\ [RotationNext]_rotationVars => LeaseInv'
<1> SUFFICES ASSUME RotationAssumption, LeaseInv, [RotationNext]_rotationVars PROVE LeaseInv'
  OBVIOUS
<1>1. ASSUME NEW t \in Requests, StartTask(t) PROVE LeaseInv'
  <2>1. AgentOf[t] \in Agents /\ FirstAccount[t] \in Accounts /\ Nobody \notin Agents
    BY DEF RotationAssumption
  <2>2. CASE leasing
    BY <1>1, <2>1, <2>2 DEF StartTask, LeaseInv, RotationTypeOK, Statuses, Phases, LeaseMatchesStatus
  <2>3. CASE ~ leasing
    BY <1>1, <2>3 DEF StartTask, LeaseInv, RotationTypeOK, Statuses, Phases, LeaseMatchesStatus
  <2> QED
    BY <2>2, <2>3
<1>2. ASSUME NEW t \in Requests, SignalSeen(t) \/ TaskEnds(t) \/ ParkThrashing(t) PROVE LeaseInv'
  BY <1>2 DEF SignalSeen, TaskEnds, ParkThrashing, LeaseInv, RotationTypeOK, Phases, LeaseMatchesStatus
<1>3. ASSUME NEW t \in Requests, Rotate(t) PROVE LeaseInv'
  <2>1. PICK D \in SUBSET Accounts, n \in Accounts :
             /\ n \notin D \cup {account[t]}
             /\ status' = [AfterFailures(account[t], D) EXCEPT ![n] = "leased"]
             /\ lease' = [LeasesAfter(account[t], D) EXCEPT ![n] = AgentOf[t]]
             /\ account' = [account EXCEPT ![t] = n]
    BY <1>3, RotateEffect
  <2>2. account[t] \in Accounts /\ AgentOf[t] \in Agents /\ Nobody \notin Agents
    BY DEF RotationAssumption, LeaseInv, RotationTypeOK
  <2>3. /\ AfterFailures(account[t], D) \in [Accounts -> Statuses]
        /\ LeasesAfter(account[t], D) \in [Accounts -> Agents \cup {Nobody}]
        /\ \A a \in Accounts : AfterFailures(account[t], D)[a] = "leased" <=> LeasesAfter(account[t], D)[a] # Nobody
    BY <2>2, Failures DEF LeaseInv, LeaseMatchesStatus
  <2>4. status' \in [Accounts -> Statuses] /\ lease' \in [Accounts -> Agents \cup {Nobody}]
    BY <2>1, <2>2, <2>3 DEF Statuses
  <2>5. LeaseMatchesStatus'
    BY <2>1, <2>2, <2>3 DEF LeaseMatchesStatus
  <2>6. /\ leasing' = leasing /\ cooled' \subseteq Accounts /\ phase' = phase
        /\ rotations' \in [Requests -> 0 .. MaxRotations] /\ resumes' \in [Requests -> 0 .. MaxResumes]
        /\ signal' \in [Requests -> Signals \cup {NoSignal}]
    BY <1>3 DEF RotationAssumption, Rotate, MayRotate, Thrashing, LeaseInv, RotationTypeOK
  <2>7. account' \in [Requests -> Accounts]
    BY <2>1 DEF LeaseInv, RotationTypeOK
  <2> QED
    BY <2>4, <2>5, <2>6, <2>7 DEF LeaseInv, RotationTypeOK
<1>4. ASSUME NEW t \in Requests, ParkExhausted(t) PROVE LeaseInv'
  <2> DEFINE D == FirstOf(Candidates(account[t], signal[t]), MaxLogins)
  <2>1. status' = AfterFailures(account[t], D) /\ lease' = LeasesAfter(account[t], D)
    BY <1>4 DEF ParkExhausted
  <2>2. D \in SUBSET Accounts /\ account[t] \in Accounts
    BY DEF FirstOf, Candidates, OfVendor, LeaseInv, RotationTypeOK
  <2>3. /\ status' \in [Accounts -> Statuses]
        /\ lease' \in [Accounts -> Agents \cup {Nobody}]
        /\ LeaseMatchesStatus'
    BY <2>1, <2>2, Failures DEF LeaseInv, LeaseMatchesStatus
  <2> QED
    BY <1>4, <2>3 DEF ParkExhausted, LeaseInv, RotationTypeOK, Phases
<1>5. ASSUME NEW a \in Accounts, CooldownEnds(a) PROVE LeaseInv'
  BY <1>5 DEF CooldownEnds, LeaseInv, RotationTypeOK, LeaseMatchesStatus
<1>6. CASE UNCHANGED rotationVars
  BY <1>6 DEF rotationVars, LeaseInv, RotationTypeOK, LeaseMatchesStatus
<1> QED
  BY <1>1, <1>2, <1>3, <1>4, <1>5, <1>6 DEF RotationNext

\* Only running tasks are moved to another account.
LEMMA NextFresh == RotationAssumption /\ LeaseInv /\ Fresh /\ [RotationNext]_rotationVars => Fresh'
<1> SUFFICES ASSUME RotationAssumption, LeaseInv, Fresh, [RotationNext]_rotationVars PROVE Fresh'
  OBVIOUS
<1>1. ASSUME NEW t \in Requests,
             StartTask(t) \/ SignalSeen(t) \/ TaskEnds(t) \/ ParkThrashing(t) \/ ParkExhausted(t)
      PROVE  Fresh'
  BY <1>1 DEF StartTask, SignalSeen, TaskEnds, ParkThrashing, ParkExhausted, Fresh, LeaseInv, RotationTypeOK
<1>2. ASSUME NEW t \in Requests, Rotate(t) PROVE Fresh'
  <2>1. PICK n \in Accounts : account' = [account EXCEPT ![t] = n]
    BY <1>2, RotateEffect
  <2>2. phase[t] = "running" /\ phase' = phase
    BY <1>2 DEF Rotate, MayRotate, Running
  <2> QED
    BY <2>1, <2>2 DEF Fresh, LeaseInv, RotationTypeOK
<1>3. ASSUME NEW a \in Accounts, CooldownEnds(a) PROVE Fresh'
  BY <1>3 DEF CooldownEnds, Fresh
<1>4. CASE UNCHANGED rotationVars
  BY <1>4 DEF rotationVars, Fresh
<1> QED
  BY <1>1, <1>2, <1>3, <1>4 DEF RotationNext

\* The account of every running task stays leased to its agent.
LEMMA NextBacked ==
    ASSUME RotationAssumption, OneTaskPerAgent,
           LeaseInv, Fresh, Backed, [RotationNext]_rotationVars
    PROVE  Backed'
<1> USE DEF Running
<1>a. leasing' = leasing
  BY DEF RotationNext, StartTask, SignalSeen, TaskEnds, ParkThrashing, Rotate, ParkExhausted, CooldownEnds, rotationVars
<1> SUFFICES ASSUME leasing
             PROVE  Backed'
  BY <1>a DEF Backed
<1>0. /\ \A t \in Requests : account[t] \in Accounts /\ AgentOf[t] \in Agents /\ FirstAccount[t] \in Accounts
      /\ Nobody \notin Agents
  BY DEF RotationAssumption, LeaseInv, RotationTypeOK
<1>1. ASSUME NEW t \in Requests, StartTask(t) PROVE Backed'
  <2>0. account[t] = FirstAccount[t]
    BY <1>1 DEF StartTask, Fresh
  <2>1. IsSelectable(FirstAccount[t]) /\ lease' = [lease EXCEPT ![FirstAccount[t]] = AgentOf[t]]
        /\ account' = account /\ phase' = [phase EXCEPT ![t] = "running"]
    BY <1>1 DEF StartTask
  <2>2. lease[FirstAccount[t]] = Nobody
    BY <1>0, <2>1, SelectableIsFree
  <2>3. ASSUME NEW u \in Requests, u # t, Running(u) PROVE account[u] # FirstAccount[t]
    BY <1>0, <2>2, <2>3 DEF Backed
  <2>4. \A u \in Requests : u # t => phase'[u] = phase[u]
    BY <2>1 DEF LeaseInv, RotationTypeOK
  <2>5. \A a \in Accounts : lease'[a] = IF a = FirstAccount[t] THEN AgentOf[t] ELSE lease[a]
    BY <2>1 DEF LeaseInv, RotationTypeOK
  <2> QED
    BY <1>0, <2>0, <2>1, <2>3, <2>4, <2>5 DEF Backed
<1>2. ASSUME NEW t \in Requests, SignalSeen(t) \/ TaskEnds(t) \/ ParkThrashing(t) PROVE Backed'
  BY <1>2 DEF SignalSeen, TaskEnds, ParkThrashing, Backed, LeaseInv, RotationTypeOK
<1>3. ASSUME NEW t \in Requests, NEW u \in Requests, u # t, Running(t), Running(u)
      PROVE  account[u] # account[t]
  BY <1>0, <1>3 DEF Backed, OneTaskPerAgent
<1>4. ASSUME NEW t \in Requests, Rotate(t) PROVE Backed'
  <2>1. PICK D \in SUBSET Accounts, n \in Accounts :
             /\ n \notin D \cup {account[t]}
             /\ \A a \in D \cup {n} : IsSelectable(a)
             /\ lease' = [LeasesAfter(account[t], D) EXCEPT ![n] = AgentOf[t]]
             /\ account' = [account EXCEPT ![t] = n]
    BY <1>4, RotateEffect
  <2>2. Running(t) /\ phase' = phase
    BY <1>4 DEF Rotate, MayRotate
  <2>3. \A a \in Accounts : lease'[a] = IF a = n THEN AgentOf[t]
                            ELSE IF a \in D \cup {account[t]} THEN Nobody ELSE lease[a]
    BY <1>0, <2>1, Failures
  <2>4. \A a \in D \cup {n} : lease[a] = Nobody
    BY <2>1, SelectableIsFree
  <2>5. ASSUME NEW u \in Requests, Running(u)' PROVE lease'[account'[u]] = AgentOf[u]
    <3>1. CASE u = t
      BY <2>1, <2>3, <3>1 DEF LeaseInv, RotationTypeOK
    <3>2. CASE u # t
      <4>1. account'[u] = account[u] /\ Running(u)
        BY <2>1, <2>2, <2>5, <3>2 DEF LeaseInv, RotationTypeOK
      <4>2. account[u] # account[t] /\ lease[account[u]] = AgentOf[u]
        BY <1>3, <2>2, <3>2, <4>1 DEF Backed
      <4> QED
        BY <1>0, <2>3, <2>4, <4>1, <4>2
    <3> QED
      BY <3>1, <3>2
  <2> QED
    BY <2>5 DEF Backed
<1>5. ASSUME NEW t \in Requests, ParkExhausted(t) PROVE Backed'
  <2> DEFINE D == FirstOf(Candidates(account[t], signal[t]), MaxLogins)
  <2>1. lease' = LeasesAfter(account[t], D)
    BY <1>5 DEF ParkExhausted
  <2>2. D \in SUBSET Accounts /\ \A a \in D : IsSelectable(a)
    BY DEF FirstOf, Candidates, OfVendor
  <2>3. \A a \in D : lease[a] = Nobody
    BY <2>2, SelectableIsFree
  <2>4. \A a \in Accounts : lease'[a] = IF a \in D \cup {account[t]} THEN Nobody ELSE lease[a]
    BY <1>0, <2>1, <2>2, Failures
  <2>5. Running(t) /\ account' = account /\ phase' = [phase EXCEPT ![t] = "parked"]
    BY <1>5 DEF ParkExhausted, MayRotate
  <2> HIDE DEF D
  <2>6. ASSUME NEW u \in Requests, Running(u)' PROVE lease'[account'[u]] = AgentOf[u]
    <3>1. u # t /\ Running(u)
      BY <2>5, <2>6 DEF LeaseInv, RotationTypeOK
    <3>2. account[u] # account[t] /\ lease[account[u]] = AgentOf[u]
      BY <1>3, <2>5, <3>1 DEF Backed
    <3> QED
      BY <1>0, <2>3, <2>4, <2>5, <3>2
  <2> QED
    BY <2>6 DEF Backed
<1>6. ASSUME NEW a \in Accounts, CooldownEnds(a) PROVE Backed'
  BY <1>6 DEF CooldownEnds, Backed
<1>7. CASE UNCHANGED rotationVars
  BY <1>7 DEF rotationVars, Backed
<1> QED
  BY <1>1, <1>2, <1>4, <1>5, <1>6, <1>7 DEF RotationNext

-----------------------------------------------------------------------------
\* The table of leases and the status of the accounts always agree, whoever
\* rotates and whatever was leased before (pool.py:92-121).
THEOREM LeasesMatch == RotationAssumption /\ RotationSpec => []LeaseMatchesStatus
<1> SUFFICES ASSUME RotationAssumption PROVE RotationSpec => []LeaseMatchesStatus
  OBVIOUS
<1>1. LeaseInv => LeaseMatchesStatus
  BY DEF LeaseInv
<1> QED
  BY InitLease, NextLease, <1>1, PTL DEF RotationSpec

\* Every variable of the rotation keeps its type.
THEOREM RotationTypes == RotationAssumption /\ RotationSpec => []RotationTypeOK
<1> SUFFICES ASSUME RotationAssumption PROVE RotationSpec => []RotationTypeOK
  OBVIOUS
<1>1. LeaseInv => RotationTypeOK
  BY DEF LeaseInv
<1> QED
  BY InitLease, NextLease, <1>1, PTL DEF RotationSpec

\* If callers lease the account they start on, as pool.py:92-95 allows, and no
\* agent has two tasks, two agents never run on one account.
THEOREM AccountsAreExclusive ==
    RotationAssumption /\ OneTaskPerAgent /\ RotationSpec => []OneAgentPerAccount
<1> SUFFICES ASSUME RotationAssumption, OneTaskPerAgent
             PROVE  RotationSpec => []OneAgentPerAccount
  OBVIOUS
<1>1. RotationInit => Fresh /\ Backed
  BY DEF RotationInit, Fresh, Backed, Running
<1>2. LeaseInv /\ Fresh /\ Backed /\ [RotationNext]_rotationVars => Backed'
  BY NextBacked
<1>3. Backed => OneAgentPerAccount
  BY DEF Backed, OneAgentPerAccount
<1> QED
  BY InitLease, NextLease, NextFresh, <1>1, <1>2, <1>3, PTL DEF RotationSpec

-----------------------------------------------------------------------------
(* The choice of an account.                                               *)

\* One step moves a task to an account of the vendor its signal names, past a
\* better one only if that one was not selectable or its login has just failed.
Chosen ==
    \A t \in Requests : account'[t] # account[t] =>
        /\ account'[t] \in OfVendor(signal[t])
        /\ \A a \in OfVendor(signal[t]) \ {account[t]} : Rank[a] < Rank[account'[t]] =>
              status'[a] # "available" /\ (status'[a] = "exhausted" => a \notin cooled)

\* One step leases an exhausted account only after its cooldown.
Cooled == \A a \in Accounts : status[a] = "exhausted" /\ status'[a] = "leased" => a \in cooled

\* What a rotation chooses: with n the new account, every better candidate is in
\* D, the accounts it degrades, and nothing else becomes leased or available.
LEMMA RotateChooses ==
    ASSUME RotationAssumption, LeaseInv, NEW t \in Requests, Rotate(t)
    PROVE  Chosen /\ Cooled
<1> DEFINE S == Candidates(account[t], signal[t])
<1>1. PICK n \in S :
         /\ status' = [AfterFailures(account[t], Ahead(S, n)) EXCEPT ![n] = "leased"]
         /\ account' = [account EXCEPT ![t] = n]
  BY DEF Rotate
<1> DEFINE D == Ahead(S, n)
<1>2. S \in SUBSET OfVendor(signal[t]) /\ S \in SUBSET Accounts /\ D \in SUBSET S /\ account[t] \in Accounts
  BY DEF Ahead, Candidates, OfVendor, LeaseInv, RotationTypeOK
<1>3. \A a \in Accounts : status'[a] = IF a = n THEN "leased" ELSE IF a \in D THEN "degraded"
                                        ELSE IF a = account[t] THEN "exhausted" ELSE status[a]
  BY <1>1, <1>2 DEF AfterFailures
<1>4. \A a \in S : IsSelectable(a)
  BY DEF Candidates
<1>5. ASSUME NEW a \in OfVendor(signal[t]) \ {account[t]}, Rank[a] < Rank[n]
      PROVE  status'[a] # "available" /\ (status'[a] = "exhausted" => a \notin cooled)
  <2>1. CASE IsSelectable(a)
    <3>1. a \in D
      BY <1>5, <2>1 DEF Ahead, Better, Candidates
    <3> QED
      BY <1>2, <1>3, <3>1, <1>5 DEF RotationAssumption
  <2>2. CASE ~ IsSelectable(a)
    <3>1. a \notin S
      BY <1>4, <2>2
    <3>2. status'[a] = status[a]
      BY <1>2, <1>3, <1>5, <3>1 DEF OfVendor
    <3> QED
      BY <2>2, <3>2 DEF IsSelectable
  <2> QED
    BY <2>1, <2>2
<1>6. \A u \in Requests : account'[u] # account[u] => u = t /\ account'[u] = n
  BY <1>1 DEF LeaseInv, RotationTypeOK
<1>7. Chosen
  BY <1>2, <1>5, <1>6 DEF Chosen
<1>8. \A a \in Accounts : status[a] = "exhausted" /\ status'[a] = "leased" => a = n
  BY <1>3
<1>9. Cooled
  BY <1>2, <1>4, <1>8 DEF Cooled, IsSelectable
<1> QED
  BY <1>7, <1>9

\* Every step chooses so; only rotations move tasks, and apart from them only
\* the first lease of a task makes an account leased.
LEMMA NextChooses == RotationAssumption /\ LeaseInv /\ [RotationNext]_rotationVars => [Chosen]_rotationVars /\ [Cooled]_rotationVars
<1> SUFFICES ASSUME RotationAssumption, LeaseInv, RotationNext PROVE Chosen /\ Cooled
  OBVIOUS
<1>1. ASSUME NEW t \in Requests, StartTask(t) PROVE Chosen /\ Cooled
  <2>1. account' = account
    BY <1>1 DEF StartTask
  <2>2. \A a \in Accounts : status[a] = "exhausted" /\ status'[a] = "leased" => IsSelectable(a)
    BY <1>1 DEF StartTask, LeaseInv, RotationTypeOK
  <2> QED
    BY <2>1, <2>2 DEF Chosen, Cooled, IsSelectable
<1>2. ASSUME NEW t \in Requests, SignalSeen(t) \/ TaskEnds(t) \/ ParkThrashing(t) PROVE Chosen /\ Cooled
  BY <1>2 DEF SignalSeen, TaskEnds, ParkThrashing, Chosen, Cooled
<1>3. ASSUME NEW t \in Requests, ParkExhausted(t) PROVE Chosen /\ Cooled
  <2>1. status' = AfterFailures(account[t], FirstOf(Candidates(account[t], signal[t]), MaxLogins))
    BY <1>3 DEF ParkExhausted
  <2>2. \A a \in Accounts : status'[a] = "leased" => status[a] = "leased"
    BY <2>1 DEF AfterFailures
  <2>3. account' = account
    BY <1>3 DEF ParkExhausted
  <2> QED
    BY <2>2, <2>3 DEF Chosen, Cooled
<1>4. ASSUME NEW a \in Accounts, CooldownEnds(a) PROVE Chosen /\ Cooled
  BY <1>4 DEF CooldownEnds, Chosen, Cooled
<1> QED
  BY <1>1, <1>2, <1>3, <1>4, RotateChooses DEF RotationNext

\* A task is moved only to the best account that could be used of the vendor its
\* signal names, whatever vendor it was on, and never to one whose window is not
\* over (dependencies.py:832, service.py:97-109, pool.py:61-80).
THEOREM BestAccountFirst == RotationAssumption /\ RotationSpec => AccountChoice
<1> SUFFICES ASSUME RotationAssumption PROVE RotationSpec => AccountChoice
  OBVIOUS
<1>1. (RotationInit => LeaseInv) /\ (LeaseInv /\ [RotationNext]_rotationVars => LeaseInv' /\ [Chosen]_rotationVars /\ [Cooled]_rotationVars)
  BY InitLease, NextLease, NextChooses
<1>2. [][Chosen]_rotationVars /\ [][Cooled]_rotationVars => AccountChoice
  BY PTL DEF AccountChoice, Chosen, Cooled
<1> QED
  BY <1>1, <1>2, PTL DEF RotationSpec
-----------------------------------------------------------------------------
(* Quotas: the caps, the burn that is saved, the counter of running tasks. *)

\* The snapshot in memory never runs behind the one in Redis, and a task in
\* flight is not a queued or new one, so the counter can be a cardinality.
Inv ==
    /\ TypeOK
    /\ CapsRespected
    /\ BurnSurvives
    /\ saved.five <= used.five /\ saved.week <= used.week
    /\ IsFiniteSet(InFlight)
    /\ RunningExact

-----------------------------------------------------------------------------
\* A task that enters the flight makes the counter's set larger by one.
LEMMA Enters ==
    ASSUME Inv, NEW t \in Tasks, t \notin InFlight, InFlight' = InFlight \cup {t},
           running' = running + 1
    PROVE  IsFiniteSet(InFlight)' /\ RunningExact'
<1>1. Cardinality(InFlight \cup {t}) = Cardinality(InFlight) + 1 /\ IsFiniteSet(InFlight \cup {t})
  BY FS_AddElement DEF Inv
<1> QED
  BY <1>1 DEF Inv, RunningExact

\* A task that leaves makes it smaller by one; the counter was positive.
LEMMA Leaves ==
    ASSUME Inv, NEW t \in Tasks, t \in InFlight, InFlight' = InFlight \ {t},
           running' = running - 1
    PROVE  running' \in Nat /\ IsFiniteSet(InFlight)' /\ RunningExact'
<1>1. Cardinality(InFlight \ {t}) = Cardinality(InFlight) - 1 /\ IsFiniteSet(InFlight \ {t})
  BY FS_RemoveElement DEF Inv
<1>2. Cardinality(InFlight \ {t}) \in Nat
  BY <1>1, FS_CardinalityType
<1> QED
  BY <1>1, <1>2 DEF Inv, RunningExact

\* The initial states satisfy the invariant.
LEMMA InitInv == QuotaAssumption /\ Init => Inv
<1> SUFFICES ASSUME QuotaAssumption, Init PROVE Inv
  OBVIOUS
<1>1. InFlight = {}
  BY DEF Init, InFlight
<1>2. IsFiniteSet(InFlight) /\ RunningExact
  BY <1>1, FS_EmptySet DEF RunningExact, Init
<1>3. TypeOK
  BY DEF QuotaAssumption, Init, TypeOK, Snapshot, Stages
<1>4. CapsRespected /\ BurnSurvives /\ saved.five <= used.five /\ saved.week <= used.week
  BY DEF QuotaAssumption, Init, CapsRespected, BurnSurvives
<1> QED
  BY <1>2, <1>3, <1>4 DEF Inv

\* Admission: the only step that charges the ledger.
LEMMA AdmitStep ==
    ASSUME QuotaAssumption, Inv, NEW t \in Tasks, Admit(t)
    PROVE  Inv'
<1>1. /\ Burn[t] \in Nat /\ used.five \in Nat /\ used.week \in Nat /\ admitted \in Nat
      /\ saved.five \in Nat /\ saved.week \in Nat /\ FiveHourCap \in Nat /\ WeeklyCap \in Nat
  BY DEF QuotaAssumption, Inv, TypeOK, Snapshot
<1>2. InFlight' = InFlight /\ running' = running
  BY DEF Admit, InFlight, Inv, TypeOK
<1>3. IsFiniteSet(InFlight)' /\ RunningExact'
  BY <1>2 DEF Inv, RunningExact
<1>4. at' \in [Tasks -> Stages] /\ queue' \in Seq(Tasks) /\ tries' = tries /\ crashes' = crashes
  <2>1. PICK s \in {"admitted", "raised", "queued"} : at' = [at EXCEPT ![t] = s]
    BY DEF Admit
  <2>2. queue' = queue \/ queue' = Append(queue, t)
    BY DEF Admit, Enqueue
  <2>3. queue' \in Seq(Tasks)
    <3>1. queue \in Seq(Tasks)
      BY DEF Inv, TypeOK
    <3>2. Append(queue, t) \in Seq(Tasks)
      BY <3>1
    <3> QED
      BY <2>2, <3>1, <3>2
  <2>4. at' \in [Tasks -> Stages]
    BY <2>1 DEF Inv, TypeOK, Stages
  <2> QED
    BY <2>3, <2>4 DEF Admit
<1>5. CASE HasHeadroom(Burn[t]) /\ Charge(Burn[t]) /\ Persist /\ admitted' = admitted + Burn[t]
  <2>1. /\ used' = [five |-> used.five + Burn[t], week |-> used.week + Burn[t]]
        /\ saved' = used'
    BY <1>5 DEF Charge, Persist
  <2>2. TypeOK'
    BY <2>1, <1>1, <1>2, <1>4, <1>5 DEF Inv, TypeOK, Snapshot
  <2>3. CapsRespected'
    BY <2>1, <1>1, <1>5 DEF HasHeadroom, Remaining, Inv, CapsRespected
  <2>4. BurnSurvives'
    BY <2>1, <1>1, <1>5 DEF Inv, BurnSurvives
  <2> QED
    BY <2>1, <2>2, <2>3, <2>4, <1>1, <1>3 DEF Inv
<1>6. CASE HasHeadroom(Burn[t]) /\ Charge(Burn[t]) /\ UNCHANGED <<saved, admitted>>
  <2>1. used' = [five |-> used.five + Burn[t], week |-> used.week + Burn[t]]
    BY <1>6 DEF Charge
  <2>2. TypeOK'
    BY <2>1, <1>1, <1>2, <1>4, <1>6 DEF Inv, TypeOK, Snapshot
  <2>3. CapsRespected'
    BY <2>1, <1>1, <1>6 DEF HasHeadroom, Remaining, Inv, CapsRespected
  <2>4. BurnSurvives'
    BY <1>6 DEF Inv, BurnSurvives
  <2> QED
    BY <2>1, <2>2, <2>3, <2>4, <1>1, <1>3, <1>6 DEF Inv
<1>7. CASE UNCHANGED <<used, saved, admitted>>
  BY <1>7, <1>2, <1>3, <1>4 DEF Inv, TypeOK, CapsRespected, BurnSurvives
<1> QED
  BY <1>5, <1>6, <1>7 DEF Admit

\* The steps that leave the ledger and the history alone.
LEMMA LedgerKept ==
    ASSUME Inv, UNCHANGED <<used, saved, admitted>>, TypeOK', IsFiniteSet(InFlight)', RunningExact'
    PROVE  Inv'
BY DEF Inv, CapsRespected, BurnSurvives

\* Every step preserves the invariant.
LEMMA NextInv == QuotaAssumption /\ Inv /\ [Next]_vars => Inv'
<1> SUFFICES ASSUME QuotaAssumption, Inv, [Next]_vars PROVE Inv'
  OBVIOUS
<1>1. ASSUME NEW t \in Tasks, Admit(t) PROVE Inv'
  BY <1>1, AdmitStep
<1>2. ASSUME NEW t \in Tasks, StartDispatch(t) PROVE Inv'
  <2>1. t \notin InFlight /\ InFlight' = InFlight \cup {t}
    BY <1>2 DEF StartDispatch, InFlight, Inv, TypeOK
  <2>2. IsFiniteSet(InFlight)' /\ RunningExact'
    BY <1>2, <2>1, Enters DEF StartDispatch
  <2>3. TypeOK'
    BY <1>2 DEF StartDispatch, Inv, TypeOK, Stages
  <2> QED
    BY <1>2, <2>2, <2>3, LedgerKept DEF StartDispatch
<1>3. ASSUME NEW t \in Tasks, NEW s \in {"done", "raised", "queued"}, at[t] = "calling", Leave(t, s),
             UNCHANGED <<used, saved, tries, admitted, crashes>>, queue' \in Seq(Tasks)
      PROVE  Inv'
  <2>1. t \in InFlight /\ InFlight' = InFlight \ {t}
    BY <1>3 DEF Leave, InFlight, Inv, TypeOK
  <2>2. running' \in Nat /\ IsFiniteSet(InFlight)' /\ RunningExact'
    BY <1>3, <2>1, Leaves DEF Leave
  <2>3. TypeOK'
    BY <1>3, <2>2 DEF Leave, Inv, TypeOK, Stages
  <2> QED
    BY <1>3, <2>2, <2>3, LedgerKept
<1>4. ASSUME NEW t \in Tasks, Returns(t) PROVE Inv'
  BY <1>3, <1>4 DEF Returns, Inv, TypeOK
<1>5. ASSUME NEW t \in Tasks, Raises(t) PROVE Inv'
  BY <1>3, <1>5 DEF Raises, Inv, TypeOK
<1>6. ASSUME NEW t \in Tasks, at[t] \in {"calling", "sleeping"}, UNCHANGED <<used, saved, running, queue, admitted, crashes>>,
             NEW s \in {"calling", "sleeping"}, at' = [at EXCEPT ![t] = s],
             tries' \in [Tasks -> Nat]
      PROVE  Inv'
  <2>1. InFlight' = InFlight
    BY <1>6 DEF InFlight, Inv, TypeOK
  <2>2. IsFiniteSet(InFlight)' /\ RunningExact'
    BY <1>6, <2>1 DEF Inv, RunningExact
  <2>3. TypeOK'
    BY <1>6 DEF Inv, TypeOK, Stages
  <2> QED
    BY <1>6, <2>2, <2>3, LedgerKept
<1>7. ASSUME NEW t \in Tasks, RateLimited(t) PROVE Inv'
  <2>1. CASE tries[t] < Attempts
    BY <1>6, <1>7, <2>1 DEF RateLimited, Inv, TypeOK
  <2>2. CASE ~ (tries[t] < Attempts)
    <3>1. Leave(t, "queued") /\ queue' = Append(queue, t) /\ at[t] = "calling"
      BY <1>7, <2>2 DEF RateLimited, Enqueue
    <3>2. queue' \in Seq(Tasks)
      BY <3>1 DEF Inv, TypeOK
    <3> QED
      BY <1>3, <1>7, <3>1, <3>2 DEF RateLimited
  <2> QED
    BY <2>1, <2>2
<1>8. ASSUME NEW t \in Tasks, Retry(t) PROVE Inv'
  <2>1. tries' \in [Tasks -> Nat]
    BY <1>8 DEF Retry, Inv, TypeOK
  <2> QED
    BY <1>6, <1>8, <2>1 DEF Retry
<1>9. ASSUME Restart PROVE Inv'
  <2>1. InFlight' = {}
    BY <1>9 DEF Restart, InFlight
  <2>2. IsFiniteSet(InFlight)' /\ RunningExact'
    BY <1>9, <2>1, FS_EmptySet DEF RunningExact, Restart
  <2>3. TypeOK'
    BY <1>9 DEF Restart, Inv, TypeOK, Stages
  <2>4. used.five \in Nat /\ used.week \in Nat /\ saved.five \in Nat /\ saved.week \in Nat
    BY DEF Inv, TypeOK, Snapshot
  <2>5. used' = saved /\ saved' = saved /\ admitted' = admitted
    BY <1>9 DEF Restart
  <2>6. CapsRespected'
    BY <2>4, <2>5 DEF QuotaAssumption, Inv, CapsRespected
  <2> QED
    BY <2>2, <2>3, <2>4, <2>5, <2>6 DEF Inv, BurnSurvives
<1>10. CASE UNCHANGED vars
  BY <1>10 DEF vars, Inv, TypeOK, CapsRespected, BurnSurvives, RunningExact, InFlight
<1> QED
  BY <1>1, <1>2, <1>4, <1>5, <1>7, <1>8, <1>9, <1>10 DEF Next

\* No admission takes a quota window over its cap.
THEOREM QuotaCapsHold == QuotaAssumption /\ Spec => []CapsRespected
<1> SUFFICES ASSUME QuotaAssumption PROVE Spec => []CapsRespected
  OBVIOUS
<1>1. Inv => CapsRespected
  BY DEF Inv
<1> QED
  BY <1>1, InitInv, NextInv, QuotaAssumption, PTL DEF Spec

\* The burn of admitted tasks is in Redis, through restarts and failing writes.
THEOREM QuotaBurnSurvives == QuotaAssumption /\ Spec => []BurnSurvives
<1> SUFFICES ASSUME QuotaAssumption PROVE Spec => []BurnSurvives
  OBVIOUS
<1>1. Inv => BurnSurvives
  BY DEF Inv
<1> QED
  BY <1>1, InitInv, NextInv, QuotaAssumption, PTL DEF Spec

\* running_count equals the number of dispatches under way.
THEOREM SlotsAreExact == QuotaAssumption /\ Spec => []RunningExact
<1> SUFFICES ASSUME QuotaAssumption PROVE Spec => []RunningExact
  OBVIOUS
<1>1. Inv => RunningExact
  BY DEF Inv
<1> QED
  BY <1>1, InitInv, NextInv, QuotaAssumption, PTL DEF Spec
=============================================================================
