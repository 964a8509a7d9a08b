--------------------------- MODULE SeatPoolProofs ---------------------------
(***************************************************************************)
(* Exclusive leases of SeatPool, for all users, seats and token providers. *)
(*                                                                         *)
(* A seat is handed out when it is in the queue, so the argument is about  *)
(* what is in the queue: no seat twice, and none that has references       *)
(* (QueueIsFree).  A release puts a seat back when its counter reaches     *)
(* zero, which is safe because the counter never falls below the number of *)
(* users of the seat (Counted); it may exceed it, when a refresh failed.   *)
(***************************************************************************)
EXTENDS SeatPool, TLAPS

QueueIsFree ==
    /\ \A i, j \in DOMAIN queue : queue[i] = queue[j] => i = j
    /\ \A i \in DOMAIN queue : ref[queue[i]] = 0 /\ queue[i] \in registered
    /\ \A s \in Seats \ registered : ref[s] = 0

Counted ==
    \A s \in Seats : ref[s] >= subs[s] /\ (Held(s) => ref[s] >= subs[s] + 1)

Leased ==
    /\ \A u \in Users : user[u] = "holding" => lease[u] \in Seats
    /\ \A u, v \in Users : user[u] = "holding" /\ user[v] = "holding" /\ lease[u] = lease[v] => u = v

Inv == TypeOK /\ QueueIsFree /\ Counted /\ Leased

-----------------------------------------------------------------------------
\* The queue operations keep their variables' types.
LEMMA PutType ==
    ASSUME TypeOK, NEW s \in Seats, Put(s)
    PROVE  queue' \in Seq(Seats) /\ getters' \in Seq(Users) /\ woken' \subseteq Users
<1>1. CASE getters = <<>>
  BY <1>1 DEF TypeOK, Put
<1>2. CASE getters # <<>>
  <2>1. Head(getters) \in Users /\ Tail(getters) \in Seq(Users)
    BY <1>2 DEF TypeOK
  <2>2. queue' = Append(queue, s) /\ getters' = Tail(getters) /\ woken' = woken \cup {Head(getters)}
    BY <1>2 DEF Put
  <2>3. queue' \in Seq(Seats)
    BY <2>2 DEF TypeOK
  <2>4. woken' \subseteq Users
    BY <2>1, <2>2 DEF TypeOK
  <2> QED
    BY <2>1, <2>2, <2>3, <2>4
<1> QED
  BY <1>1, <1>2

\* Putting back a seat without references that is not queued keeps the queue free.
LEMMA PutFree ==
    ASSUME TypeOK, QueueIsFree, NEW s \in Seats, ~ Queued(s), Put(s),
           ref' \in [Seats -> Nat], ref'[s] = 0, s \in registered',
           registered \subseteq registered',
           \A r \in Seats : r # s => ref'[r] = ref[r]
    PROVE  QueueIsFree'
<1>1. queue' = Append(queue, s) /\ queue \in Seq(Seats)
  BY DEF Put, TypeOK
<1>2. /\ DOMAIN queue' = 1..(Len(queue) + 1)
      /\ \A i \in DOMAIN queue : i \in 1..Len(queue) /\ queue'[i] = queue[i]
      /\ queue'[Len(queue) + 1] = s
      /\ DOMAIN queue = 1..Len(queue)
  BY <1>1
<1>3. \A i \in DOMAIN queue : queue[i] \in Seats /\ queue[i] # s
  BY <1>1 DEF Queued
<1>4. \A i, j \in DOMAIN queue' : queue'[i] = queue'[j] => i = j
  BY <1>2, <1>3 DEF QueueIsFree
<1>5. \A i \in DOMAIN queue' : ref'[queue'[i]] = 0 /\ queue'[i] \in registered'
  BY <1>2, <1>3 DEF QueueIsFree
<1>6. \A r \in Seats \ registered' : ref'[r] = 0
  BY DEF QueueIsFree
<1> QED
  BY <1>4, <1>5, <1>6 DEF QueueIsFree

\* Taking the head: the new queue is free and the seat had no user.
LEMMA TakeStep ==
    ASSUME Inv, NEW u \in Users, queue # <<>>, Take(u), UNCHANGED <<registered, subs>>,
           woken' \subseteq Users
    PROVE  Inv'
<1> DEFINE s == Head(queue)
<1>1. /\ s \in Seats /\ s = queue[1] /\ 1 \in DOMAIN queue
      /\ Tail(queue) \in Seq(Seats)
      /\ DOMAIN Tail(queue) = 1..(Len(queue) - 1)
      /\ \A i \in DOMAIN Tail(queue) : Tail(queue)[i] = queue[i + 1] /\ i + 1 \in DOMAIN queue
  BY DEF Inv, TypeOK
<1>2. ref[s] = 0 /\ s \in registered
  BY <1>1 DEF Inv, QueueIsFree
<1>3. \A i \in DOMAIN Tail(queue) : Tail(queue)[i] # s
  BY <1>1 DEF Inv, QueueIsFree
<1>4. ~ Held(s) /\ subs[s] = 0
  BY <1>1, <1>2 DEF Inv, Counted, TypeOK
<1>5. queue' = Tail(queue) /\ ref' = [ref EXCEPT ![s] = 1] /\ getters' = getters
  BY <1>1, <1>2 DEF Take, Inv, TypeOK
<1>6. \/ expired' \subseteq expired /\ user' = [user EXCEPT ![u] = "holding"] /\ lease' = [lease EXCEPT ![u] = s]
      \/ expired' = expired /\ user' = [user EXCEPT ![u] = "failed"] /\ lease' = lease
  BY DEF Take
<1>7. TypeOK'
  BY <1>1, <1>5, <1>6 DEF Inv, TypeOK, Phases
<1>8. QueueIsFree'
  <2>1. \A i, j \in DOMAIN queue' : queue'[i] = queue'[j] => i = j
    BY <1>1, <1>5 DEF Inv, QueueIsFree
  <2>2. \A i \in DOMAIN queue' : ref'[queue'[i]] = 0 /\ queue'[i] \in registered'
    BY <1>1, <1>3, <1>5 DEF Inv, QueueIsFree, TypeOK
  <2>3. \A r \in Seats \ registered' : ref'[r] = 0
    BY <1>2, <1>5 DEF Inv, QueueIsFree, TypeOK
  <2> QED
    BY <2>1, <2>2, <2>3 DEF QueueIsFree
<1>9. Leased'
  <2>1. CASE user' = [user EXCEPT ![u] = "holding"] /\ lease' = [lease EXCEPT ![u] = s]
    <3>1. \A v \in Users : v # u => user'[v] = user[v] /\ lease'[v] = lease[v]
      BY <2>1 DEF Inv, TypeOK
    <3>2. lease'[u] = s
      BY <2>1 DEF Inv, TypeOK
    <3>3. \A v \in Users : user[v] = "holding" => lease[v] # s
      BY <1>4 DEF Held, Holding
    <3> HIDE DEF s
    <3> QED
      BY <1>1, <3>1, <3>2, <3>3 DEF Inv, Leased
  <2>2. CASE user' = [user EXCEPT ![u] = "failed"] /\ lease' = lease
    <3>1. \A v \in Users : user'[v] = "holding" => user[v] = "holding"
      BY <2>2 DEF Inv, TypeOK
    <3> QED
      BY <2>2, <3>1 DEF Inv, Leased
  <2> QED
    BY <1>6, <2>1, <2>2
<1>10. Counted'
  <2> SUFFICES ASSUME NEW r \in Seats
               PROVE  ref'[r] >= subs'[r] /\ (Held(r)' => ref'[r] >= subs'[r] + 1)
    BY DEF Counted
  <2>1. CASE r = s
    BY <2>1, <1>1, <1>4, <1>5 DEF Inv, TypeOK
  <2>2. CASE r # s
    <3>1. Held(r)' => Held(r)
      BY <2>2, <1>6 DEF Held, Holding, Inv, TypeOK
    <3> QED
      BY <2>2, <3>1, <1>5 DEF Inv, Counted, TypeOK
  <2> QED
    BY <2>1, <2>2
<1> QED
  BY <1>7, <1>8, <1>9, <1>10 DEF Inv

\* A release by a user of the seat, who then is one no longer.
LEMMA ReleaseStep ==
    ASSUME Inv, NEW s \in Seats, Release(s), UNCHANGED <<registered, expired, lease>>,
           subs' \in [Seats -> Nat], user' \in [Users -> Phases],
           ref[s] >= subs'[s] + 1,
           \A r \in Seats : r # s => subs'[r] = subs[r],
           \A u \in Users : user'[u] = "holding" => user[u] = "holding",
           Held(s)' => ref[s] >= subs'[s] + 2
    PROVE  Inv'
<1>1. ref' = [ref EXCEPT ![s] = @ - 1] /\ ref[s] > 0 /\ ref[s] \in Nat /\ ref'[s] = ref[s] - 1
  <2>1. ref[s] \in Nat /\ subs'[s] \in Nat /\ DOMAIN ref = Seats
    BY DEF Inv, TypeOK
  <2>2. ref[s] > 0
    BY <2>1
  <2>3. ref' = [ref EXCEPT ![s] = ref[s] - 1]
    BY <2>2 DEF Release
  <2> QED
    BY <2>1, <2>2, <2>3
<1>2. ref' \in [Seats -> Nat]
  BY <1>1 DEF Inv, TypeOK
<1>3. ~ Queued(s)
  BY <1>1 DEF Queued, Inv, QueueIsFree
<1>4. s \in registered
  BY <1>1 DEF Inv, QueueIsFree
<1>5. TypeOK' /\ QueueIsFree'
  <2>1. CASE ref'[s] = 0
    <3>1. Put(s)
      BY <2>1 DEF Release
    <3>2. QueueIsFree'
      BY <3>1, <2>1, <1>1, <1>2, <1>3, <1>4, PutFree DEF Inv, TypeOK
    <3> QED
      BY <3>1, <3>2, <1>2, PutType DEF Inv, TypeOK
  <2>2. CASE ref'[s] # 0
    <3>1. UNCHANGED <<queue, getters, woken>>
      BY <2>2 DEF Release
    <3>2. QueueIsFree'
      BY <3>1, <1>1, <1>3, <1>4 DEF Inv, QueueIsFree, Queued, TypeOK
    <3> QED
      BY <3>1, <3>2, <1>2 DEF Inv, TypeOK
  <2> QED
    BY <2>1, <2>2
<1>6. Leased'
  BY DEF Inv, Leased
<1>7. Counted'
  <2> SUFFICES ASSUME NEW r \in Seats
               PROVE  ref'[r] >= subs'[r] /\ (Held(r)' => ref'[r] >= subs'[r] + 1)
    BY DEF Counted
  <2>1. CASE r = s
    BY <2>1, <1>1
  <2>2. CASE r # s
    <3>1. Held(r)' => Held(r)
      BY DEF Held, Holding
    <3> QED
      BY <2>2, <3>1, <1>1 DEF Inv, Counted, TypeOK
  <2> QED
    BY <2>1, <2>2
<1> QED
  BY <1>5, <1>6, <1>7 DEF Inv

\* The initial states satisfy the invariant.
LEMMA InitInv == SeatAssumption /\ Init => Inv
BY DEF SeatAssumption, Init, Inv, TypeOK, Phases, QueueIsFree, Counted, Leased, Held, Holding

\* Joining the waiters does not touch a lease.
LEMMA SuspendStep ==
    ASSUME Inv, NEW u \in Users, Suspend(u), UNCHANGED <<registered, subs>>,
           woken' \subseteq Users
    PROVE  Inv'
<1>1. TypeOK'
  BY DEF Suspend, Inv, TypeOK, Phases
<1>2. \A v \in Users : user'[v] = "holding" => user[v] = "holding"
  BY DEF Suspend, Inv, TypeOK
<1>3. QueueIsFree' /\ Leased'
  BY <1>2 DEF Suspend, Inv, QueueIsFree, Leased
<1>4. Counted'
  BY <1>2 DEF Suspend, Inv, Counted, Held, Holding
<1> QED
  BY <1>1, <1>3, <1>4 DEF Inv

\* Every step preserves it.
LEMMA NextInv == Inv /\ [Next]_vars => Inv'
<1> SUFFICES ASSUME Inv, [Next]_vars PROVE Inv'
  OBVIOUS
<1>1. ASSUME NEW s \in Seats, RegisterSeat(s) PROVE Inv'
  <2>1. ~ Queued(s) /\ ref[s] = 0
    BY <1>1 DEF RegisterSeat, Inv, QueueIsFree, Queued
  <2>2. QueueIsFree'
    BY <1>1, <2>1, PutFree DEF RegisterSeat, Inv, TypeOK
  <2>3. TypeOK'
    BY <1>1, PutType DEF RegisterSeat, Inv, TypeOK
  <2>4. Counted' /\ Leased'
    BY <1>1 DEF RegisterSeat, Inv, Counted, Leased, Held, Holding
  <2> QED
    BY <2>2, <2>3, <2>4 DEF Inv
<1>2. ASSUME NEW u \in Users, Acquire(u) PROVE Inv'
  <2>1. woken' \subseteq Users /\ UNCHANGED <<registered, subs>>
    BY <1>2 DEF Acquire, Inv, TypeOK
  <2>2. CASE queue # <<>>
    BY <1>2, <2>1, <2>2, TakeStep DEF Acquire, GetOrWait
  <2>3. CASE queue = <<>>
    BY <1>2, <2>1, <2>3, SuspendStep DEF Acquire, GetOrWait
  <2> QED
    BY <2>2, <2>3
<1>3. ASSUME NEW u \in Users, Wake(u) PROVE Inv'
  <2>1. woken' \subseteq Users /\ UNCHANGED <<registered, subs>>
    BY <1>3 DEF Wake, Inv, TypeOK
  <2>2. CASE queue # <<>>
    BY <1>3, <2>1, <2>2, TakeStep DEF Wake, GetOrWait
  <2>3. CASE queue = <<>>
    BY <1>3, <2>1, <2>3, SuspendStep DEF Wake, GetOrWait
  <2> QED
    BY <2>2, <2>3
<1>4. ASSUME NEW u \in Users, AcquireSubagent(u) PROVE Inv'
  <2>1. lease[u] \in Seats
    BY <1>4 DEF AcquireSubagent, Inv, Leased
  <2>2. ref[lease[u]] \in Nat /\ subs[lease[u]] \in Nat /\ ref[lease[u]] > 0
    BY <1>4, <2>1 DEF AcquireSubagent, Inv, TypeOK
  <2>3. TypeOK'
    BY <1>4, <2>1, <2>2 DEF AcquireSubagent, Inv, TypeOK
  <2>4. QueueIsFree'
    BY <1>4, <2>1, <2>2 DEF AcquireSubagent, Inv, QueueIsFree, TypeOK
  <2>5. Leased'
    BY <1>4 DEF AcquireSubagent, Inv, Leased
  <2>6. \A r \in Seats : Held(r)' = Held(r)
    BY <1>4 DEF AcquireSubagent, Held, Holding
  <2>7. Counted'
    BY <1>4, <2>1, <2>2, <2>6 DEF AcquireSubagent, Inv, Counted, TypeOK
  <2> QED
    BY <2>3, <2>4, <2>5, <2>7 DEF Inv
<1>5. ASSUME NEW u \in Users, ReleaseParent(u) PROVE Inv'
  <2>1. PICK s \in Seats : s = lease[u]
    BY <1>5 DEF ReleaseParent, Inv, Leased
  <2>2. Held(s)
    BY <1>5, <2>1 DEF ReleaseParent, Held, Holding
  <2>3. user' = [user EXCEPT ![u] = "done"] /\ user' \in [Users -> Phases]
    BY <1>5 DEF ReleaseParent, Inv, TypeOK, Phases
  <2>4. ~ Held(s)'
    BY <1>5, <2>1, <2>3 DEF ReleaseParent, Held, Holding, Inv, Leased, TypeOK
  <2>5. \A v \in Users : user'[v] = "holding" => user[v] = "holding"
    BY <2>3 DEF Inv, TypeOK
  <2>6. Release(s) /\ UNCHANGED <<registered, expired, lease, subs>>
    BY <1>5, <2>1 DEF ReleaseParent
  <2>7. subs' \in [Seats -> Nat] /\ \A r \in Seats : r # s => subs'[r] = subs[r]
    BY <2>6 DEF Inv, TypeOK
  <2>8. ref[s] >= subs'[s] + 1
    BY <2>2, <2>6 DEF Inv, Counted
  <2> QED
    BY <2>3, <2>4, <2>5, <2>6, <2>7, <2>8, ReleaseStep
<1>6. ASSUME NEW s \in Seats, ReleaseSubagent(s) PROVE Inv'
  <2>1. subs' = [subs EXCEPT ![s] = @ - 1] /\ subs[s] \in Nat /\ subs[s] > 0
    BY <1>6 DEF ReleaseSubagent, Inv, TypeOK
  <2>2. subs' \in [Seats -> Nat] /\ subs'[s] = subs[s] - 1 /\ \A r \in Seats : r # s => subs'[r] = subs[r]
    BY <2>1 DEF Inv, TypeOK
  <2>3. Held(s)' => Held(s)
    BY <1>6 DEF ReleaseSubagent, Held, Holding
  <2>4. ref[s] \in Nat /\ ref[s] >= subs'[s] + 1 /\ (Held(s)' => ref[s] >= subs'[s] + 2)
    BY <2>1, <2>2, <2>3 DEF Inv, Counted, TypeOK
  <2>5. user' = user /\ user' \in [Users -> Phases]
    BY <1>6 DEF ReleaseSubagent, Inv, TypeOK
  <2> QED
    BY <1>6, <2>2, <2>4, <2>5, ReleaseStep DEF ReleaseSubagent
<1>7. ASSUME NEW s \in Seats, TokenExpires(s) PROVE Inv'
  BY <1>7 DEF TokenExpires, Inv, TypeOK, QueueIsFree, Counted, Leased, Held, Holding
<1>8. CASE UNCHANGED vars
  BY <1>8 DEF vars, Inv, TypeOK, QueueIsFree, Counted, Leased, Held, Holding
<1> QED
  BY <1>1, <1>2, <1>3, <1>4, <1>5, <1>6, <1>7, <1>8 DEF Next

\* The seat that a caller gets had no users; nobody else's lease changes.
LEMMA AcquiredIsFree ==
    ASSUME Inv, NEW u \in Users, Acquire(u) \/ Wake(u)
    PROVE  /\ subs' = subs
           /\ \A v \in Users : v # u => user'[v] = user[v] /\ lease'[v] = lease[v]
           /\ user'[u] = "holding" => lease'[u] \in Seats /\ subs[lease'[u]] = 0
<1>1. GetOrWait(u) /\ subs' = subs
  BY DEF Acquire, Wake
<1>2. CASE queue = <<>>
  BY <1>1, <1>2 DEF GetOrWait, Suspend, Inv, TypeOK
<1>3. CASE queue # <<>>
  <2>1. /\ Head(queue) \in Seats
        /\ 1 \in DOMAIN queue /\ Head(queue) = queue[1]
    BY <1>3 DEF Inv, TypeOK
  <2>2. subs[Head(queue)] = 0
    BY <2>1 DEF Inv, QueueIsFree, Counted, TypeOK
  <2>3. \/ user' = [user EXCEPT ![u] = "holding"] /\ lease' = [lease EXCEPT ![u] = Head(queue)]
        \/ user' = [user EXCEPT ![u] = "failed"] /\ lease' = lease
    BY <1>1, <1>3 DEF GetOrWait, Take
  <2> QED
    BY <1>1, <2>1, <2>2, <2>3 DEF Inv, TypeOK
<1> QED
  BY <1>2, <1>3

\* It implies exclusive leases.
LEMMA InvExclusive == Inv => ExclusiveLease
BY DEF Inv, TypeOK, QueueIsFree, Counted, Leased, ExclusiveLease, Queued

\* A seat is never leased to two parent agents, and a seat in use is never in
\* the queue, whatever token providers do.
THEOREM SeatsAreExclusive == SeatAssumption /\ Spec => []ExclusiveLease
BY InitInv, NextInv, InvExclusive, PTL DEF Spec

\* Type correctness of the seat pool.
THEOREM SeatTypes == SeatAssumption /\ Spec => []TypeOK
<1>1. Inv => TypeOK
  BY DEF Inv
<1> QED
  BY <1>1, InitInv, NextInv, PTL DEF Spec

-----------------------------------------------------------------------------
(* No refreshable seat is lost.                                            *)

\* A caller that waits is suspended in one place: in the list of getters, once,
\* or woken.
WaitersWait ==
    /\ \A u \in woken : user[u] = "waiting" /\ \A i \in DOMAIN getters : getters[i] # u
    /\ \A i \in DOMAIN getters : user[getters[i]] = "waiting"
    /\ \A i, j \in DOMAIN getters : getters[i] = getters[j] => i = j

\* The counter of a seat whose refreshes succeed is the number of its users.
CountExact ==
    \A s \in Refreshable \cap Seats : (Held(s) => ref[s] = subs[s] + 1) /\ (~ Held(s) => ref[s] = subs[s])

\* A registered seat without references is in the queue.
FreeIsQueued == \A s \in registered : ref[s] = 0 => Queued(s)

ReturnInv == Inv /\ WaitersWait /\ CountExact /\ FreeIsQueued

\* Putting a seat back moves the first getter to the woken.
LEMMA PutWakes ==
    ASSUME TypeOK, WaitersWait, NEW s \in Seats, Put(s),
           \A u \in Users : user[u] = "waiting" => user'[u] = "waiting"
    PROVE  WaitersWait'
<1>1. CASE getters = <<>>
  BY <1>1 DEF Put, WaitersWait, TypeOK
<1>2. CASE getters # <<>>
  <2>1. /\ Head(getters) = getters[1] /\ 1 \in DOMAIN getters /\ Head(getters) \in Users
        /\ DOMAIN Tail(getters) = 1 .. (Len(getters) - 1)
        /\ \A i \in DOMAIN Tail(getters) :
             Tail(getters)[i] = getters[i + 1] /\ i + 1 \in DOMAIN getters /\ i + 1 # 1
    BY <1>2 DEF TypeOK
  <2>2. getters' = Tail(getters) /\ woken' = woken \cup {Head(getters)}
    BY <1>2 DEF Put
  <2>3. \A i \in DOMAIN getters : getters[i] \in Users
    BY DEF TypeOK
  <2>4. \A i \in DOMAIN getters' : user'[getters'[i]] = "waiting" /\ getters'[i] # getters[1]
    BY <2>1, <2>2, <2>3 DEF WaitersWait
  <2>5. \A u \in woken' : user'[u] = "waiting" /\ \A i \in DOMAIN getters' : getters'[i] # u
    BY <2>1, <2>2, <2>3, <2>4 DEF WaitersWait, TypeOK
  <2>6. \A i, j \in DOMAIN getters' : getters'[i] = getters'[j] => i = j
    BY <2>1, <2>2 DEF WaitersWait
  <2> QED
    BY <2>4, <2>5, <2>6 DEF WaitersWait
<1> QED
  BY <1>1, <1>2

\* And leaves that seat in the queue, with those that were there.
LEMMA PutQueues ==
    ASSUME TypeOK, NEW s \in Seats, Put(s)
    PROVE  Queued(s)' /\ \A r \in Seats : Queued(r) => Queued(r)'
<1>1. queue' = Append(queue, s) /\ queue \in Seq(Seats)
  BY DEF Put, TypeOK
<1>2. /\ \A i \in DOMAIN queue : i \in DOMAIN queue' /\ queue'[i] = queue[i]
      /\ Len(queue) + 1 \in DOMAIN queue' /\ queue'[Len(queue) + 1] = s
  BY <1>1
<1> QED
  BY <1>2 DEF Queued

\* Taking the head, by a caller that is waiting nowhere.
LEMMA TakeReturns ==
    ASSUME SeatAssumption, ~ ProviderFails, ReturnInv, Inv', NEW u \in Users, queue # <<>>, Take(u),
           UNCHANGED <<registered, subs>>,
           user[u] # "holding", woken' \subseteq woken, u \notin woken',
           \A i \in DOMAIN getters : getters[i] # u
    PROVE  ReturnInv'
<1>1. PICK s \in Seats : s = Head(queue) /\ s = queue[1]
  BY DEF ReturnInv, Inv, TypeOK
<1>2. /\ queue' = Tail(queue) /\ getters' = getters
      /\ 1 \in DOMAIN queue /\ \A i \in DOMAIN queue : i # 1 => i - 1 \in DOMAIN queue' /\ queue'[i - 1] = queue[i]
  <2>1. queue' = Tail(queue) /\ getters' = getters /\ queue \in Seq(Seats)
    BY DEF Take, ReturnInv, Inv, TypeOK
  <2> QED
    BY <2>1
<1>3. ref[s] = 0 /\ ~ Held(s) /\ subs[s] = 0
  BY <1>1, <1>2 DEF ReturnInv, Inv, QueueIsFree, Counted, TypeOK
<1>4. ref' = [ref EXCEPT ![s] = 1]
  <2>1. ref' = [ref EXCEPT ![s] = @ + 1]
    BY <1>1 DEF Take
  <2> QED
    BY <1>3, <2>1
<1>5. \/ user' = [user EXCEPT ![u] = "holding"] /\ lease' = [lease EXCEPT ![u] = s]
      \/ s \notin Refreshable /\ user' = [user EXCEPT ![u] = "failed"] /\ lease' = lease
  BY <1>1 DEF Take
<1>6. \A v \in Users : v # u => user'[v] = user[v] /\ lease'[v] = lease[v]
  BY <1>5 DEF ReturnInv, Inv, TypeOK
<1>7. WaitersWait'
  BY <1>2, <1>6 DEF ReturnInv, WaitersWait, Inv, TypeOK
<1>8. CountExact'
  <2> SUFFICES ASSUME NEW r \in Refreshable \cap Seats
               PROVE  (Held(r)' => ref'[r] = subs'[r] + 1) /\ (~ Held(r)' => ref'[r] = subs'[r])
    BY DEF CountExact
  <2>1. CASE r = s
    <3>1. Held(r)' /\ ref'[r] = 1 /\ subs'[r] = 0
      BY <1>3, <1>4, <1>5, <2>1 DEF Held, Holding, ReturnInv, Inv, TypeOK
    <3> QED
      BY <3>1
  <2>2. CASE r # s
    <3>1. Held(r)' <=> Held(r)
      BY <1>5, <1>6, <2>2 DEF Held, Holding, ReturnInv, Inv, TypeOK
    <3> QED
      BY <1>4, <2>2, <3>1 DEF ReturnInv, CountExact, Inv, TypeOK
  <2> QED
    BY <2>1, <2>2
<1>9. FreeIsQueued'
  <2> SUFFICES ASSUME NEW r \in registered, ref'[r] = 0
               PROVE  Queued(r)'
    BY DEF FreeIsQueued
  <2>1. r # s /\ ref[r] = 0
    BY <1>1, <1>3, <1>4 DEF ReturnInv, Inv, TypeOK
  <2>2. PICK i \in DOMAIN queue : queue[i] = r
    BY <2>1 DEF ReturnInv, FreeIsQueued, Queued
  <2> QED
    BY <1>1, <1>2, <2>1, <2>2 DEF Queued
<1> QED
  BY <1>7, <1>8, <1>9 DEF ReturnInv

\* A caller that is waiting nowhere joins the getters.
LEMMA SuspendReturns ==
    ASSUME ReturnInv, Inv', NEW u \in Users, Suspend(u), UNCHANGED <<registered, subs>>,
           user[u] # "holding", woken' \subseteq woken, u \notin woken',
           \A i \in DOMAIN getters : getters[i] # u
    PROVE  ReturnInv'
<1>1. getters' = Append(getters, u) /\ getters \in Seq(Users) /\ user' = [user EXCEPT ![u] = "waiting"]
  BY DEF Suspend, ReturnInv, Inv, TypeOK
<1>2. /\ DOMAIN getters' = 1 .. (Len(getters) + 1) /\ DOMAIN getters = 1 .. Len(getters)
      /\ \A i \in DOMAIN getters : getters'[i] = getters[i] /\ getters[i] \in Users
      /\ getters'[Len(getters) + 1] = u
  BY <1>1
<1>3. user'[u] = "waiting" /\ \A v \in Users : v # u => user'[v] = user[v]
  BY <1>1 DEF ReturnInv, Inv, TypeOK
<1>4. \A i \in DOMAIN getters' : user'[getters'[i]] = "waiting"
  BY <1>2, <1>3 DEF ReturnInv, WaitersWait
<1>5. \A i, j \in DOMAIN getters' : getters'[i] = getters'[j] => i = j
  BY <1>2 DEF ReturnInv, WaitersWait
<1>6. \A v \in woken' : user'[v] = "waiting" /\ \A i \in DOMAIN getters' : getters'[i] # v
  <2> SUFFICES ASSUME NEW v \in woken'
               PROVE  user'[v] = "waiting" /\ \A i \in DOMAIN getters' : getters'[i] # v
    OBVIOUS
  <2>1. v \in woken /\ v \in Users /\ v # u
    BY DEF ReturnInv, Inv, TypeOK
  <2>2. user[v] = "waiting" /\ \A i \in DOMAIN getters : getters[i] # v
    BY <2>1 DEF ReturnInv, WaitersWait
  <2> QED
    BY <1>2, <1>3, <2>1, <2>2
<1>7. WaitersWait'
  BY <1>4, <1>5, <1>6 DEF WaitersWait
<1>8. \A r \in Seats : Held(r)' <=> Held(r)
  BY <1>3 DEF Suspend, Held, Holding
<1>9. CountExact' /\ FreeIsQueued'
  BY <1>8 DEF Suspend, ReturnInv, CountExact, FreeIsQueued, Queued
<1> QED
  BY <1>7, <1>9 DEF ReturnInv

\* A release by a user of the seat: the counter stays exact, and when it reaches
\* zero the seat goes back.
LEMMA ReleaseReturns ==
    ASSUME ReturnInv, Inv', NEW s \in Seats, Release(s), UNCHANGED registered,
           ref[s] > 0,
           \A u \in Users : user[u] = "waiting" => user'[u] = "waiting",
           \A r \in Seats : r # s => (Held(r)' <=> Held(r)) /\ subs'[r] = subs[r],
           s \in Refreshable => /\ Held(s)' => ref[s] = subs'[s] + 2
                                /\ ~ Held(s)' => ref[s] = subs'[s] + 1
    PROVE  ReturnInv'
<1>1. TypeOK /\ ref[s] \in Nat /\ ref' = [ref EXCEPT ![s] = ref[s] - 1] /\ ref'[s] = ref[s] - 1
  BY DEF Release, ReturnInv, Inv, TypeOK
<1>2. \A r \in Seats : r # s => ref'[r] = ref[r]
  BY <1>1 DEF TypeOK
<1>3. subs'[s] \in Nat /\ \A r \in Seats : ref[r] \in Nat
  BY DEF Inv, TypeOK, ReturnInv
<1>4. CountExact'
  BY <1>1, <1>2, <1>3 DEF ReturnInv, CountExact
<1>5. WaitersWait' /\ FreeIsQueued'
  <2>1. CASE ref'[s] = 0
    <3>1. Put(s)
      BY <2>1 DEF Release
    <3>2. WaitersWait'
      BY <1>1, <3>1, PutWakes DEF ReturnInv
    <3>3. Queued(s)' /\ \A r \in Seats : Queued(r) => Queued(r)'
      BY <1>1, <3>1, PutQueues
    <3> QED
      BY <1>2, <3>2, <3>3 DEF ReturnInv, FreeIsQueued, Inv, TypeOK
  <2>2. CASE ref'[s] # 0
    <3>1. UNCHANGED <<queue, getters, woken>>
      BY <2>2 DEF Release
    <3>2. WaitersWait'
      BY <1>1, <3>1 DEF ReturnInv, WaitersWait, TypeOK
    <3>3. \A r \in Seats : Queued(r)' <=> Queued(r)
      BY <3>1 DEF Queued
    <3> QED
      BY <1>2, <2>2, <3>2, <3>3 DEF ReturnInv, FreeIsQueued, Inv, TypeOK
  <2> QED
    BY <2>1, <2>2
<1> QED
  BY <1>4, <1>5 DEF ReturnInv

\* Every step keeps all that, when the token providers answer.
LEMMA ReturnStep ==
    ASSUME SeatAssumption, ~ ProviderFails, ReturnInv, [Next]_vars
    PROVE  ReturnInv'
<1>1. Inv /\ Inv' /\ TypeOK
  BY NextInv DEF ReturnInv, Inv
<1>2. ASSUME NEW s \in Seats, RegisterSeat(s)
      PROVE  ReturnInv'
  <2>1. Put(s) /\ UNCHANGED <<ref, user, lease, subs>> /\ registered' = registered \cup {s}
    BY <1>2 DEF RegisterSeat
  <2>2. Queued(s)' /\ \A r \in Seats : Queued(r) => Queued(r)'
    BY <1>1, <2>1, PutQueues
  <2>3. FreeIsQueued'
    BY <1>1, <2>1, <2>2 DEF ReturnInv, FreeIsQueued, TypeOK
  <2>4. WaitersWait'
    BY <1>1, <2>1, PutWakes DEF ReturnInv
  <2>5. CountExact'
    BY <2>1 DEF ReturnInv, CountExact, Held, Holding
  <2> QED
    BY <1>1, <2>3, <2>4, <2>5 DEF ReturnInv
<1>3. ASSUME NEW u \in Users, Acquire(u) \/ Wake(u)
      PROVE  ReturnInv'
  <2>1. user[u] # "holding" /\ \A i \in DOMAIN getters : getters[i] # u
    BY <1>3 DEF Acquire, Wake, ReturnInv, WaitersWait
  <2>2. woken' \subseteq woken /\ u \notin woken' /\ GetOrWait(u) /\ UNCHANGED <<registered, subs>>
    BY <1>3 DEF Acquire, Wake, ReturnInv, WaitersWait
  <2>3. CASE queue # <<>>
    BY <1>1, <2>1, <2>2, <2>3, TakeReturns DEF GetOrWait
  <2>4. CASE queue = <<>>
    BY <1>1, <2>1, <2>2, <2>4, SuspendReturns DEF GetOrWait
  <2> QED
    BY <2>3, <2>4
<1>4. ASSUME NEW u \in Users, AcquireSubagent(u)
      PROVE  ReturnInv'
  <2>1. PICK s \in Seats : s = lease[u]
    BY <1>1, <1>4 DEF AcquireSubagent, Inv, Leased
  <2>2. /\ ref' = [ref EXCEPT ![s] = @ + 1] /\ subs' = [subs EXCEPT ![s] = @ + 1] /\ ref[s] > 0
        /\ UNCHANGED <<registered, queue, getters, woken, user, lease>>
    BY <1>4, <2>1 DEF AcquireSubagent
  <2>3. /\ ref[s] \in Nat /\ ref'[s] = ref[s] + 1 /\ subs'[s] = subs[s] + 1
        /\ \A r \in Seats : r # s => ref'[r] = ref[r] /\ subs'[r] = subs[r]
    BY <1>1, <2>2 DEF TypeOK
  <2>4. \A r \in Seats : ref[r] \in Nat /\ subs[r] \in Nat
    BY <1>1 DEF TypeOK
  <2>5. CountExact'
    BY <2>2, <2>3, <2>4 DEF ReturnInv, CountExact, Held, Holding
  <2>6. FreeIsQueued'
    BY <1>1, <2>2, <2>3 DEF ReturnInv, FreeIsQueued, Queued, TypeOK
  <2>7. WaitersWait'
    BY <2>2 DEF ReturnInv, WaitersWait
  <2> QED
    BY <1>1, <2>5, <2>6, <2>7 DEF ReturnInv
<1>5. ASSUME NEW u \in Users, ReleaseParent(u)
      PROVE  ReturnInv'
  <2>1. PICK s \in Seats : s = lease[u]
    BY <1>1, <1>5 DEF ReleaseParent, Inv, Leased
  <2>2. user[u] = "holding" /\ user' = [user EXCEPT ![u] = "done"] /\ Release(s) /\ UNCHANGED <<registered, lease, subs>>
    BY <1>5, <2>1 DEF ReleaseParent
  <2>3. user'[u] = "done" /\ \A v \in Users : v # u => user'[v] = user[v]
    BY <1>1, <2>2 DEF TypeOK
  <2>4. Held(s) /\ ~ Held(s)'
    BY <1>1, <2>1, <2>2, <2>3 DEF Held, Holding, Inv, Leased
  <2>5. \A r \in Seats : r # s => (Held(r)' <=> Held(r))
    BY <2>1, <2>2, <2>3 DEF Held, Holding
  <2>6. ref[s] \in Nat /\ subs[s] \in Nat /\ ref[s] >= subs[s] + 1 /\ (s \in Refreshable => ref[s] = subs[s] + 1)
    BY <1>1, <2>4 DEF ReturnInv, CountExact, Inv, Counted, TypeOK
  <2> QED
    BY <1>1, <2>2, <2>3, <2>4, <2>5, <2>6, ReleaseReturns
<1>6. ASSUME NEW s \in Seats, ReleaseSubagent(s)
      PROVE  ReturnInv'
  <2>1. subs[s] \in Nat /\ ref[s] \in Nat /\ ref[s] >= subs[s] /\ subs[s] > 0 /\ subs' = [subs EXCEPT ![s] = subs[s] - 1]
    BY <1>1, <1>6 DEF ReleaseSubagent, Inv, Counted, TypeOK
  <2>2. subs'[s] = subs[s] - 1 /\ \A r \in Seats : r # s => subs'[r] = subs[r]
    BY <1>1, <2>1 DEF TypeOK
  <2>3. \A r \in Seats : Held(r)' <=> Held(r)
    BY <1>6 DEF ReleaseSubagent, Held, Holding
  <2>4. s \in Refreshable => (Held(s) => ref[s] = subs[s] + 1) /\ (~ Held(s) => ref[s] = subs[s])
    BY DEF ReturnInv, CountExact
  <2> QED
    BY <1>1, <1>6, <2>1, <2>2, <2>3, <2>4, ReleaseReturns DEF ReleaseSubagent
<1>7. ASSUME NEW s \in Seats, TokenExpires(s)
      PROVE  ReturnInv'
  BY <1>1, <1>7 DEF TokenExpires, ReturnInv, WaitersWait, CountExact, FreeIsQueued, Held, Holding, Queued
<1>8. CASE UNCHANGED vars
  BY <1>1, <1>8 DEF vars, ReturnInv, WaitersWait, CountExact, FreeIsQueued, Held, Holding, Queued
<1> QED
  BY <1>2, <1>3, <1>4, <1>5, <1>6, <1>7, <1>8 DEF Next

\* A seat whose token can be refreshed comes back to the queue, once, when its
\* parent agent and its subagents have released it, in whichever order they do
\* and though seats without a provider are lost meanwhile.
THEOREM RefreshedSeatsReturn == SeatAssumption /\ ~ ProviderFails => (Spec => []RefreshedSeatNotLost)
<1> SUFFICES ASSUME SeatAssumption, ~ ProviderFails PROVE Spec => []RefreshedSeatNotLost
  OBVIOUS
<1>1. Init => ReturnInv
  BY InitInv DEF Init, ReturnInv, WaitersWait, CountExact, FreeIsQueued, Held, Holding
<1>2. ReturnInv /\ [Next]_vars => ReturnInv'
  BY ReturnStep
<1>3. ReturnInv => RefreshedSeatNotLost
  <2> SUFFICES ASSUME ReturnInv, NEW s \in registered \cap Refreshable, ~ Held(s), subs[s] = 0
               PROVE  Queued(s) /\ \A i, j \in DOMAIN queue : queue[i] = queue[j] => i = j
    BY DEF RefreshedSeatNotLost, Returned, Queued
  <2>1. ref[s] = 0
    BY DEF ReturnInv, Inv, TypeOK, CountExact
  <2> QED
    BY <2>1 DEF ReturnInv, FreeIsQueued, Inv, QueueIsFree
<1> QED
  BY <1>1, <1>2, <1>3, PTL DEF Spec
=============================================================================
