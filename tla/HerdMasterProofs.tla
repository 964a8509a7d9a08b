------------------------- MODULE HerdMasterProofs --------------------------
(***************************************************************************)
(* What the message bus of HerdMaster promises, for all agents, connections,*)
(* messages and lengths of a queue, and its watchdog, for all agents,      *)
(* timeouts, allow-lists and lengths of a poll.                            *)
(*                                                                         *)
(* A queue may have several readers and an agent several queues, one after *)
(* the other.  The order of a connection's messages follows from that of   *)
(* its queue, whose messages are all younger than what was written from    *)
(* it, by whichever reader (InOrder); that no message comes twice, from    *)
(* the readers of a queue having different ones (OneReader) and from the   *)
(* queues of an agent having different ones (OneQueue).                    *)
(*                                                                         *)
(* Every step of the watchdog changes monitors with the engine's operators *)
(* (Sync, ObserveState, Evaluate, Ended, ...), so the argument is one      *)
(* predicate about a monitor, Sound, and a lemma per operator that keeps   *)
(* it.  Sound takes what has happened so far as parameters: told, that the *)
(* API has not written the row, and fresh, that nor has the process        *)
(* restarted.                                                              *)
(***************************************************************************)
EXTENDS MessageBus, Watchdog, FiniteSetTheorems, SequenceTheorems, TLAPS

(* The message bus.                                                        *)

Has(s, m) == \E i \in 1 .. Len(s) : s[i] = m
Increasing(s) == \A i, j \in 1 .. Len(s) : i < j => s[i] < s[j]

QueuesOwned == \A a \in Agents : queues[a] # None => Owner[queues[a]] = a

Reading ==
    \A c \in Conns :
        /\ source[c] # None => Owner[source[c]] = Owner[c]
        /\ pump[c] \in {"waiting", "draining"} => source[c] # None
        /\ pump[c] \in {"none", "starting"} => source[c] = None
        /\ source[c] = None => Len(written[c]) = 0
        /\ conn[c] = "new" => pump[c] = "none"

InOrder ==
    \A c \in Conns :
        /\ Increasing(queue[c]) /\ Increasing(written[c])
        /\ routed[c] \subseteq 1 .. sent
        /\ \A i \in 1 .. Len(queue[c]) : queue[c][i] \in routed[c]
        /\ source[c] # None => \A i \in 1 .. Len(written[c]) :
             /\ written[c][i] \in routed[source[c]]
             /\ \A j \in 1 .. Len(queue[source[c]]) : written[c][i] < queue[source[c]][j]

OneReader ==
    \A c, d \in Conns : c # d /\ source[c] = source[d] /\ source[c] # None =>
        \A i \in 1 .. Len(written[c]), j \in 1 .. Len(written[d]) : written[c][i] # written[d][j]

OneQueue == \A c, d \in Conns : c # d /\ Owner[c] = Owner[d] => routed[c] \cap routed[d] = {}

Inv == TypeOK /\ QueuesOwned /\ Reading /\ InOrder /\ OneReader /\ OneQueue

-----------------------------------------------------------------------------
(* Sequences.                                                              *)

\* ToSet and Has say the same of a sequence.
LEMMA HasIsMember ==
    ASSUME NEW S, NEW s \in Seq(S), NEW m
    PROVE  m \in ToSet(s) <=> Has(s, m)
BY DEF ToSet, Has

\* A message later than all those of a queue is offered to it: the queue keeps
\* its order and its bound and loses at most its first message.
LEMMA OfferKeeps ==
    ASSUME BusAssumption, NEW q \in Seq(Messages), Increasing(q), Len(q) <= MaxQueue,
           NEW m \in Messages, \A i \in 1 .. Len(q) : q[i] < m
    PROVE  /\ Offer(q, m) \in Seq(Messages) /\ Len(Offer(q, m)) <= MaxQueue
           /\ Increasing(Offer(q, m))
           /\ \A i \in 1 .. Len(Offer(q, m)) : Offer(q, m)[i] = m \/ Has(q, Offer(q, m)[i])
           /\ Has(Offer(q, m), m)
           /\ \A i \in 1 .. Len(q) : (Len(q) >= MaxQueue /\ i = 1) \/ Has(Offer(q, m), q[i])
<1>1. Messages \subseteq Nat /\ MaxQueue \in Nat \ {0} /\ Len(q) \in Nat
  BY DEF BusAssumption, Messages
<1>2. CASE Len(q) >= MaxQueue
  <2>1. q # <<>>
    BY <1>1, <1>2
  <2>2. PICK t : t = Tail(q)
    OBVIOUS
  <2>3. t \in Seq(Messages) /\ Len(t) = Len(q) - 1 /\ \A i \in 1 .. Len(t) : t[i] = q[i + 1]
    BY <2>1, <2>2, HeadTailProperties
  <2>4. Offer(q, m) = Append(t, m)
    BY <1>2, <2>2 DEF Offer
  <2>5. PICK o : o = Append(t, m)
    OBVIOUS
  <2>6. /\ o \in Seq(Messages) /\ Len(o) = Len(q)
        /\ \A i \in 1 .. Len(q) - 1 : o[i] = q[i + 1]
        /\ o[Len(q)] = m
    BY <1>1, <2>3, <2>5
  <2>7. Increasing(o)
    <3> SUFFICES ASSUME NEW i \in 1 .. Len(o), NEW j \in 1 .. Len(o), i < j PROVE o[i] < o[j]
      BY DEF Increasing
    <3>1. i \in 1 .. Len(q) - 1 /\ o[i] = q[i + 1] /\ i + 1 \in 1 .. Len(q)
      BY <1>1, <2>6
    <3>2. CASE j = Len(q)
      BY <3>1, <3>2, <2>6
    <3>3. CASE j # Len(q)
      <4>1. j \in 1 .. Len(q) - 1 /\ o[j] = q[j + 1] /\ j + 1 \in 1 .. Len(q) /\ i + 1 < j + 1
        BY <1>1, <2>6, <3>3
      <4> QED
        BY <3>1, <4>1 DEF Increasing
    <3> QED
      BY <3>2, <3>3
  <2>8. \A i \in 1 .. Len(o) : o[i] = m \/ Has(q, o[i])
    <3> SUFFICES ASSUME NEW i \in 1 .. Len(o), i # Len(q) PROVE Has(q, o[i])
      BY <2>6
    <3>1. i + 1 \in 1 .. Len(q) /\ o[i] = q[i + 1]
      BY <1>1, <2>6
    <3> QED
      BY <3>1 DEF Has
  <2>9. Has(o, m)
    <3>1. Len(q) \in 1 .. Len(o)
      BY <1>1, <1>2, <2>6
    <3> QED
      BY <3>1, <2>6 DEF Has
  <2>10. \A i \in 1 .. Len(q) : i = 1 \/ Has(o, q[i])
    <3> SUFFICES ASSUME NEW i \in 1 .. Len(q), i # 1 PROVE Has(o, q[i])
      OBVIOUS
    <3>1. i - 1 \in 1 .. Len(q) - 1 /\ i - 1 \in 1 .. Len(o) /\ (i - 1) + 1 = i
      BY <1>1, <2>6
    <3>2. o[i - 1] = q[i]
      BY <2>6, <3>1
    <3> QED
      BY <3>1, <3>2 DEF Has
  <2> QED
    BY <1>2, <2>4, <2>5, <2>6, <2>7, <2>8, <2>9, <2>10
<1>3. CASE Len(q) < MaxQueue
  <2>1. Offer(q, m) = Append(q, m)
    BY <1>1, <1>3 DEF Offer
  <2>2. PICK o : o = Append(q, m)
    OBVIOUS
  <2>3. /\ o \in Seq(Messages) /\ Len(o) = Len(q) + 1
        /\ \A i \in 1 .. Len(q) : o[i] = q[i]
        /\ o[Len(q) + 1] = m
    BY <2>2
  <2>4. Increasing(o)
    <3> SUFFICES ASSUME NEW i \in 1 .. Len(o), NEW j \in 1 .. Len(o), i < j PROVE o[i] < o[j]
      BY DEF Increasing
    <3>1. i \in 1 .. Len(q) /\ o[i] = q[i]
      BY <1>1, <2>3
    <3>2. CASE j = Len(q) + 1
      BY <3>1, <3>2, <2>3
    <3>3. CASE j # Len(q) + 1
      <4>1. j \in 1 .. Len(q) /\ o[j] = q[j]
        BY <1>1, <2>3, <3>3
      <4> QED
        BY <3>1, <4>1 DEF Increasing
    <3> QED
      BY <3>2, <3>3
  <2>5. /\ \A i \in 1 .. Len(o) : o[i] = m \/ Has(q, o[i])
        /\ Has(o, m)
        /\ \A i \in 1 .. Len(q) : Has(o, q[i])
    <3>1. /\ \A i \in 1 .. Len(o) : i \in 1 .. Len(q) \/ i = Len(q) + 1
          /\ Len(q) + 1 \in 1 .. Len(o)
          /\ \A i \in 1 .. Len(q) : i \in 1 .. Len(o)
      BY <1>1, <2>3
    <3> QED
      BY <2>3, <3>1 DEF Has
  <2> QED
    BY <1>1, <1>3, <2>1, <2>2, <2>3, <2>4, <2>5
<1> QED
  BY <1>1, <1>2, <1>3

\* What is left of a queue without its first message.
LEMMA TailKeeps ==
    ASSUME BusAssumption, NEW q \in Seq(Messages), Increasing(q), q # <<>>
    PROVE  /\ Tail(q) \in Seq(Messages) /\ Len(Tail(q)) <= Len(q) /\ Increasing(Tail(q))
           /\ Head(q) \in Messages /\ Head(q) = q[1] /\ 1 \in 1 .. Len(q)
           /\ \A i \in 1 .. Len(Tail(q)) : Head(q) < Tail(q)[i] /\ Has(q, Tail(q)[i])
           /\ \A i \in 1 .. Len(q) : q[i] = Head(q) \/ Has(Tail(q), q[i])
<1>1. Len(q) \in Nat \ {0} /\ Head(q) = q[1] /\ Head(q) \in Messages
  BY HeadTailProperties, EmptySeq
<1>2. PICK t : t = Tail(q)
  OBVIOUS
<1>3. t \in Seq(Messages) /\ Len(t) = Len(q) - 1 /\ \A i \in 1 .. Len(t) : t[i] = q[i + 1]
  BY <1>2, HeadTailProperties
<1>4. \A i \in 1 .. Len(t) : i + 1 \in 1 .. Len(q) /\ 1 \in 1 .. Len(q) /\ 1 < i + 1
  BY <1>1, <1>3
<1>5. Increasing(t)
  <2> SUFFICES ASSUME NEW i \in 1 .. Len(t), NEW j \in 1 .. Len(t), i < j PROVE t[i] < t[j]
    BY DEF Increasing
  <2>1. i + 1 < j + 1 /\ i + 1 \in 1 .. Len(q) /\ j + 1 \in 1 .. Len(q)
    BY <1>4
  <2> QED
    BY <2>1, <1>3 DEF Increasing
<1>6. \A i \in 1 .. Len(t) : Head(q) < t[i] /\ Has(q, t[i])
  BY <1>1, <1>3, <1>4 DEF Increasing, Has
<1>7. \A i \in 1 .. Len(q) : q[i] = Head(q) \/ Has(t, q[i])
  <2> SUFFICES ASSUME NEW i \in 1 .. Len(q), i # 1 PROVE Has(t, q[i])
    BY <1>1
  <2>1. i - 1 \in 1 .. Len(t) /\ (i - 1) + 1 = i
    BY <1>1, <1>3
  <2> QED
    BY <2>1, <1>3 DEF Has
<1> QED
  BY <1>1, <1>2, <1>3, <1>5, <1>6, <1>7

-----------------------------------------------------------------------------
(* The invariant.                                                          *)

\* Messages are numbers, sequences have lengths.
LEMMA Numbers ==
    ASSUME BusAssumption, TypeOK
    PROVE  /\ Messages \subseteq Nat /\ NumMessages \in Nat /\ sent \in Nat
           /\ \A c \in Conns : queue[c] \in Seq(Messages) /\ written[c] \in Seq(Messages)
           /\ \A c \in Conns : \A i \in 1 .. Len(written[c]) : written[c][i] \in Nat
           /\ \A c \in Conns : Len(queue[c]) \in Nat /\ Len(written[c]) \in Nat
BY DEF BusAssumption, TypeOK, Messages

\* Queues that receive a message are the current ones of their owners.
LEMMA ReceiversOwn ==
    ASSUME BusAssumption, TypeOK, QueuesOwned, NEW m \in Messages
    PROVE  /\ Receivers(m) \subseteq Conns
           /\ \A c \in Receivers(m) : queues[Owner[c]] = c /\ Owner[c] \in Addressees(m)
<1>1. Addressees(m) \subseteq Agents
  <2>1. Target[m] \in Agents \cup {"broadcast", "group"}
    BY DEF BusAssumption, Targets
  <2>2. CASE Target[m] = "broadcast"
    BY <2>2 DEF Addressees
  <2>3. CASE Target[m] = "group"
    BY <2>3 DEF Addressees, TypeOK
  <2>4. CASE Target[m] # "broadcast" /\ Target[m] # "group"
    BY <2>1, <2>4 DEF Addressees
  <2> QED
    BY <2>2, <2>3, <2>4
<1> QED
  BY <1>1 DEF Receivers, QueuesOwned, TypeOK

\* A message is sent.
LEMMA SendKeeps ==
    ASSUME BusAssumption, Inv, Send
    PROVE  Inv'
<1> USE DEF Inv
<1>1. PICK n : n = sent + 1
  OBVIOUS
<1>2. /\ sent' = n /\ n \in Messages /\ n \in Nat /\ sent < n /\ sent' \in 0 .. NumMessages
      /\ UNCHANGED <<conn, queues, members, pump, source, held, written>>
  BY <1>1 DEF Send, TypeOK, BusAssumption, Messages
<1>3. PICK persisted \in BOOLEAN, stale \in BOOLEAN :
        /\ row' = IF persisted THEN [row EXCEPT ![n] = "undelivered"] ELSE row
        /\ expired' = IF stale THEN expired \cup {n} ELSE expired
        /\ LET to == IF stale THEN {} ELSE Receivers(n) IN
           /\ queue' = [c \in Conns |-> IF c \in to THEN Offer(queue[c], n) ELSE queue[c]]
           /\ routed' = [c \in Conns |-> IF c \in to THEN routed[c] \cup {n} ELSE routed[c]]
  BY <1>2 DEF Send
<1>4. PICK to : to = IF stale THEN {} ELSE Receivers(n)
  OBVIOUS
<1>5. /\ to \subseteq Conns /\ \A c \in to : queues[Owner[c]] = c
      /\ queue' = [c \in Conns |-> IF c \in to THEN Offer(queue[c], n) ELSE queue[c]]
      /\ routed' = [c \in Conns |-> IF c \in to THEN routed[c] \cup {n} ELSE routed[c]]
  BY <1>2, <1>3, <1>4, ReceiversOwn
<1>6. \A c \in Conns : \A i \in 1 .. Len(queue[c]) : queue[c][i] \in 1 .. sent /\ queue[c][i] < n
  BY <1>2, Numbers DEF InOrder
<1>7. \A c \in Conns : \A i \in 1 .. Len(written[c]) : source[c] # None => written[c][i] < n
  <2> SUFFICES ASSUME NEW c \in Conns, NEW i \in 1 .. Len(written[c]), source[c] # None PROVE written[c][i] < n
    OBVIOUS
  <2>1. written[c][i] \in routed[source[c]] /\ source[c] \in Conns
    BY DEF InOrder, TypeOK
  <2>2. written[c][i] \in 1 .. sent
    BY <2>1 DEF InOrder
  <2> QED
    BY <1>2, <2>2, Numbers
<1>8. \A c \in Conns :
        /\ queue'[c] \in Seq(Messages) /\ Len(queue'[c]) <= MaxQueue /\ Increasing(queue'[c])
        /\ \A i \in 1 .. Len(queue'[c]) : (queue'[c][i] = n /\ c \in to) \/ Has(queue[c], queue'[c][i])
  <2> SUFFICES ASSUME NEW c \in Conns
               PROVE  /\ queue'[c] \in Seq(Messages) /\ Len(queue'[c]) <= MaxQueue /\ Increasing(queue'[c])
                      /\ \A i \in 1 .. Len(queue'[c]) : (queue'[c][i] = n /\ c \in to) \/ Has(queue[c], queue'[c][i])
    OBVIOUS
  <2>1. queue[c] \in Seq(Messages) /\ Len(queue[c]) <= MaxQueue /\ Increasing(queue[c])
    BY DEF TypeOK, InOrder
  <2>2. CASE c \in to
    <3>1. queue'[c] = Offer(queue[c], n)
      BY <1>5, <2>2
    <3> QED
      BY <1>2, <1>6, <2>1, <2>2, <3>1, OfferKeeps
  <2>3. CASE c \notin to
    <3>1. queue'[c] = queue[c]
      BY <1>5, <2>3
    <3> QED
      BY <2>1, <3>1 DEF Has
  <2> QED
    BY <2>2, <2>3
<1>9. \A c \in Conns : routed[c] \subseteq routed'[c] /\ routed'[c] \subseteq routed[c] \cup {n} /\ (c \in to => n \in routed'[c])
  BY <1>5
<1>10. TypeOK'
  <2>1. row' \in [Messages -> Rows]
    BY <1>2, <1>3 DEF TypeOK, Rows
  <2>2. expired' \subseteq Messages
    BY <1>2, <1>3 DEF TypeOK
  <2>3. routed' \in [Conns -> SUBSET Messages]
    BY <1>2, <1>5 DEF TypeOK
  <2>4. queue' \in [Conns -> Seq(Messages)]
    BY <1>5, <1>8
  <2> QED
    BY <1>2, <1>8, <2>1, <2>2, <2>3, <2>4 DEF TypeOK
<1>11. QueuesOwned' /\ Reading'
  BY <1>2 DEF QueuesOwned, Reading
<1>12. InOrder'
  <2> SUFFICES ASSUME NEW c \in Conns
               PROVE  /\ Increasing(queue[c])' /\ Increasing(written[c])'
                      /\ routed'[c] \subseteq 1 .. sent'
                      /\ \A i \in 1 .. Len(queue'[c]) : queue'[c][i] \in routed'[c]
                      /\ source'[c] # None => \A i \in 1 .. Len(written'[c]) :
                           /\ written'[c][i] \in routed'[source'[c]]
                           /\ \A j \in 1 .. Len(queue'[source'[c]]) : written'[c][i] < queue'[source'[c]][j]
    BY DEF InOrder
  <2>1. Increasing(queue[c])' /\ Increasing(written[c])'
    BY <1>2, <1>8 DEF InOrder, Increasing
  <2>2. routed'[c] \subseteq 1 .. sent'
    BY <1>2, <1>9, Numbers DEF InOrder
  <2>3. ASSUME NEW i \in 1 .. Len(queue'[c]) PROVE queue'[c][i] \in routed'[c]
    BY <1>8, <1>9 DEF InOrder, Has
  <2>4. ASSUME source[c] # None, NEW i \in 1 .. Len(written[c])
        PROVE  /\ written[c][i] \in routed'[source[c]]
               /\ \A j \in 1 .. Len(queue'[source[c]]) : written[c][i] < queue'[source[c]][j]
    <3>1. PICK q \in Conns : q = source[c]
      BY <2>4 DEF TypeOK
    <3>2. written[c][i] \in routed'[q]
      BY <1>9, <2>4, <3>1 DEF InOrder
    <3>3. written[c][i] < n
      BY <1>7, <2>4
    <3>4. ASSUME NEW j \in 1 .. Len(queue'[q]) PROVE written[c][i] < queue'[q][j]
      <4>1. queue'[q][j] = n \/ Has(queue[q], queue'[q][j])
        BY <1>8
      <4>2. \A k \in 1 .. Len(queue[q]) : written[c][i] < queue[q][k]
        BY <2>4, <3>1 DEF InOrder
      <4> QED
        BY <3>3, <4>1, <4>2 DEF Has
    <3> QED
      BY <3>1, <3>2, <3>4
  <2> QED
    BY <1>2, <2>1, <2>2, <2>3, <2>4
<1>13. OneReader'
  BY <1>2 DEF OneReader
<1>14. OneQueue'
  <2> SUFFICES ASSUME NEW c \in Conns, NEW d \in Conns, c # d, Owner[c] = Owner[d]
               PROVE  routed'[c] \cap routed'[d] = {}
    BY DEF OneQueue
  <2>1. ~ (c \in to /\ d \in to)
    BY <1>5
  <2>2. n \notin routed[c] /\ n \notin routed[d]
    <3>1. routed[c] \subseteq 1 .. sent /\ routed[d] \subseteq 1 .. sent
      BY DEF InOrder
    <3> QED
      BY <1>2, <3>1, Numbers
  <2>3. routed[c] \cap routed[d] = {}
    BY DEF OneQueue
  <2> QED
    BY <1>5, <2>1, <2>2, <2>3
<1> QED
  BY <1>10, <1>11, <1>12, <1>13, <1>14

\* A pump takes the first message of its queue.
LEMMA WriteKeeps ==
    ASSUME BusAssumption, Inv, NEW c \in Conns, PumpWrites(c)
    PROVE  Inv'
<1> USE DEF Inv
<1>1. PICK q \in Conns : q = source[c] /\ Owner[q] = Owner[c]
  BY DEF PumpWrites, Reading, TypeOK
<1>2. PICK m : m = Head(queue[q])
  OBVIOUS
<1>3. /\ queue[q] # <<>> /\ pump[c] = "waiting"
      /\ queue' = [queue EXCEPT ![q] = Tail(queue[q])]
      /\ UNCHANGED <<conn, queues, members, source, sent, row, expired, routed>>
      /\ \/ pump' = [pump EXCEPT ![c] = "over"] /\ UNCHANGED <<held, written>>
         \/ /\ pump' = [pump EXCEPT ![c] = "draining"]
            /\ held' = [held EXCEPT ![c] = m]
            /\ written' = [written EXCEPT ![c] = Append(written[c], m)]
  BY <1>1, <1>2 DEF PumpWrites
<1>4. /\ queue[q] \in Seq(Messages) /\ Increasing(queue[q]) /\ Len(queue[q]) <= MaxQueue
      /\ DOMAIN queue = Conns
  BY DEF TypeOK, InOrder
<1>5. /\ m \in Messages /\ 1 \in 1 .. Len(queue[q]) /\ m = queue[q][1]
      /\ queue'[q] \in Seq(Messages) /\ Len(queue'[q]) <= Len(queue[q]) /\ Increasing(queue'[q])
      /\ \A i \in 1 .. Len(queue'[q]) : m < queue'[q][i] /\ Has(queue[q], queue'[q][i])
      /\ \A d \in Conns : d # q => queue'[d] = queue[d]
  BY <1>2, <1>3, <1>4, TailKeeps
<1>6. \A d \in Conns : source[d] = q => \A i \in 1 .. Len(written[d]) : written[d][i] < m
  <2> SUFFICES ASSUME NEW d \in Conns, source[d] = q, NEW i \in 1 .. Len(written[d]) PROVE written[d][i] < m
    OBVIOUS
  <2>1. q # None
    BY DEF BusAssumption
  <2> QED
    BY <2>1, <1>5 DEF InOrder
<1>7. \A d \in Conns : d # c => written'[d] = written[d]
  BY <1>3 DEF TypeOK
<1>8. \/ written'[c] = written[c]
      \/ /\ Len(written'[c]) = Len(written[c]) + 1 /\ written'[c] \in Seq(Messages)
         /\ \A i \in 1 .. Len(written[c]) : written'[c][i] = written[c][i]
         /\ written'[c][Len(written[c]) + 1] = m
  <2>1. written[c] \in Seq(Messages) /\ c \in DOMAIN written
    BY DEF TypeOK
  <2>2. PICK w : w = Append(written[c], m)
    OBVIOUS
  <2>3. /\ w \in Seq(Messages)
        /\ Len(w) = Len(written[c]) + 1
        /\ \A i \in 1 .. Len(written[c]) : w[i] = written[c][i]
        /\ w[Len(written[c]) + 1] = m
    BY <1>5, <2>1, <2>2
  <2>4. written'[c] = written[c] \/ written'[c] = w
    BY <1>3, <2>1, <2>2
  <2> QED
    BY <2>3, <2>4
<1>9. \A i \in 1 .. Len(written'[c]) :
        \/ i \in 1 .. Len(written[c]) /\ written'[c][i] = written[c][i] /\ written'[c][i] < m
        \/ i = Len(written[c]) + 1 /\ written'[c][i] = m
  <2>1. Len(written[c]) \in Nat
    BY Numbers
  <2>2. \A i \in 1 .. Len(written[c]) : written[c][i] < m
    BY <1>1, <1>6
  <2> QED
    BY <1>8, <2>1, <2>2
<1>10. TypeOK'
  <2>1. \A d \in Conns : queue'[d] \in Seq(Messages) /\ Len(queue'[d]) <= MaxQueue
    <3> SUFFICES ASSUME NEW d \in Conns PROVE queue'[d] \in Seq(Messages) /\ Len(queue'[d]) <= MaxQueue
      OBVIOUS
    <3>1. CASE d = q
      <4>1. Len(queue'[q]) \in Nat /\ Len(queue[q]) \in Nat /\ MaxQueue \in Nat
        BY <1>5, <1>4 DEF BusAssumption
      <4> QED
        BY <1>4, <1>5, <3>1, <4>1
    <3>2. CASE d # q
      BY <1>5, <3>2 DEF TypeOK
    <3> QED
      BY <3>1, <3>2
  <2>2. \A d \in Conns : written'[d] \in Seq(Messages)
    BY <1>7, <1>8 DEF TypeOK
  <2>3. pump' \in [Conns -> PumpStates] /\ held' \in [Conns -> Messages \cup {None}]
    BY <1>3, <1>5 DEF TypeOK, PumpStates
  <2> QED
    BY <1>3, <2>1, <2>2, <2>3 DEF TypeOK
<1>11. QueuesOwned' /\ Reading'
  <2>1. QueuesOwned'
    BY <1>3 DEF QueuesOwned
  <2>2. source[c] # None
    BY <1>1 DEF BusAssumption
  <2>3. \A d \in Conns : d # c => pump'[d] = pump[d] /\ written'[d] = written[d]
    BY <1>3, <1>7 DEF TypeOK
  <2>4. pump'[c] \in {"over", "draining"} /\ conn[c] # "new"
    BY <1>3 DEF TypeOK, Reading
  <2> QED
    BY <1>3, <2>1, <2>2, <2>3, <2>4 DEF Reading
<1>12. InOrder'
  <2> SUFFICES ASSUME NEW d \in Conns
               PROVE  /\ Increasing(queue[d])' /\ Increasing(written[d])'
                      /\ routed'[d] \subseteq 1 .. sent'
                      /\ \A i \in 1 .. Len(queue'[d]) : queue'[d][i] \in routed'[d]
                      /\ source'[d] # None => \A i \in 1 .. Len(written'[d]) :
                           /\ written'[d][i] \in routed'[source'[d]]
                           /\ \A j \in 1 .. Len(queue'[source'[d]]) : written'[d][i] < queue'[source'[d]][j]
    BY DEF InOrder
  <2>1. Increasing(queue[d])'
    BY <1>5 DEF InOrder, Increasing
  <2>2. Increasing(written[d])'
    <3>1. CASE d # c
      BY <1>7, <3>1 DEF InOrder, Increasing
    <3>2. CASE d = c
      <4> SUFFICES ASSUME NEW i \in 1 .. Len(written'[c]), NEW j \in 1 .. Len(written'[c]), i < j
                   PROVE  written'[c][i] < written'[c][j]
        BY <3>2 DEF Increasing
      <4>1. i \in 1 .. Len(written[c]) /\ written'[c][i] = written[c][i] /\ written'[c][i] < m
        <5>1. Len(written[c]) \in Nat
          BY Numbers
        <5>2. j <= Len(written[c]) + 1
          BY <1>9, <5>1
        <5>3. i # Len(written[c]) + 1
          BY <5>1, <5>2
        <5> QED
          BY <1>9, <5>3
      <4>2. Increasing(written[c])
        BY DEF InOrder
      <4> QED
        BY <1>9, <4>1, <4>2 DEF Increasing
    <3> QED
      BY <3>1, <3>2
  <2>3. routed'[d] \subseteq 1 .. sent'
    BY <1>3 DEF InOrder
  <2>4. ASSUME NEW i \in 1 .. Len(queue'[d]) PROVE queue'[d][i] \in routed'[d]
    <3>1. Has(queue[d], queue'[d][i])
      BY <1>5, <2>4 DEF Has
    <3> QED
      BY <1>3, <3>1 DEF InOrder, Has
  <2>5. ASSUME source[d] # None, NEW i \in 1 .. Len(written'[d])
        PROVE  /\ written'[d][i] \in routed[source[d]]
               /\ \A j \in 1 .. Len(queue'[source[d]]) : written'[d][i] < queue'[source[d]][j]
    <3>1. PICK r \in Conns : r = source[d]
      BY <2>5 DEF TypeOK
    <3>2. (written'[d][i] = m /\ r = q) \/ \E k \in 1 .. Len(written[d]) : written'[d][i] = written[d][k]
      BY <1>1, <1>7, <1>9, <2>5, <3>1
    <3>3. written'[d][i] \in routed[r]
      <4>1. m \in routed[q]
        BY <1>5 DEF InOrder
      <4> QED
        BY <2>5, <3>1, <3>2, <4>1 DEF InOrder
    <3>4. ASSUME NEW j \in 1 .. Len(queue'[r]) PROVE written'[d][i] < queue'[r][j]
      <4>1. CASE written'[d][i] = m /\ r = q
        BY <1>5, <3>4, <4>1
      <4>2. CASE \E k \in 1 .. Len(written[d]) : written'[d][i] = written[d][k]
        <5>1. Has(queue[r], queue'[r][j])
          BY <1>5, <3>4 DEF Has
        <5> QED
          BY <2>5, <3>1, <4>2, <5>1 DEF InOrder, Has
      <4> QED
        BY <3>2, <4>1, <4>2
    <3> QED
      BY <3>1, <3>3, <3>4
  <2> QED
    BY <1>3, <2>1, <2>2, <2>3, <2>4, <2>5
<1>13. OneReader'
  <2> SUFFICES ASSUME NEW d \in Conns, NEW e \in Conns, d # e, source[d] = source[e], source[d] # None,
                      NEW i \in 1 .. Len(written'[d]), NEW j \in 1 .. Len(written'[e])
               PROVE  written'[d][i] # written'[e][j]
    BY <1>3 DEF OneReader
  <2>0. Messages \subseteq Nat /\ m \in Nat
    BY <1>5, Numbers
  <2>1. CASE d = c
    <3>1. written'[e] = written[e] /\ written[e][j] < m
      BY <1>1, <1>6, <1>7, <2>1
    <3>2. written[e][j] \in Nat
      BY <3>1, Numbers
    <3>3. written'[d][i] = m \/ (i \in 1 .. Len(written[c]) /\ written'[d][i] = written[c][i])
      BY <1>9, <2>1
    <3>4. CASE written'[d][i] = m
      BY <3>1, <3>2, <3>4, <2>0
    <3>5. CASE i \in 1 .. Len(written[c]) /\ written'[d][i] = written[c][i]
      BY <2>1, <3>1, <3>5 DEF OneReader
    <3> QED
      BY <3>3, <3>4, <3>5
  <2>2. CASE e = c
    <3>1. written'[d] = written[d] /\ written[d][i] < m
      BY <1>1, <1>6, <1>7, <2>2
    <3>2. written[d][i] \in Nat
      BY <3>1, Numbers
    <3>3. written'[e][j] = m \/ (j \in 1 .. Len(written[c]) /\ written'[e][j] = written[c][j])
      BY <1>9, <2>2
    <3>4. CASE written'[e][j] = m
      BY <3>1, <3>2, <3>4, <2>0
    <3>5. CASE j \in 1 .. Len(written[c]) /\ written'[e][j] = written[c][j]
      BY <2>2, <3>1, <3>5 DEF OneReader
    <3> QED
      BY <3>3, <3>4, <3>5
  <2>3. CASE d # c /\ e # c
    BY <1>7, <2>3 DEF OneReader
  <2> QED
    BY <2>1, <2>2, <2>3
<1>14. OneQueue'
  BY <1>3 DEF OneQueue
<1> QED
  BY <1>10, <1>11, <1>12, <1>13, <1>14

\* The initial states satisfy the invariant.
LEMMA InitInv == BusAssumption /\ Init => Inv
<1> SUFFICES ASSUME BusAssumption, Init PROVE Inv
  OBVIOUS
<1>1. TypeOK
  <2>1. <<>> \in Seq(Messages) /\ Len(<<>>) <= MaxQueue
    BY DEF BusAssumption
  <2> QED
    BY <2>1 DEF Init, TypeOK, BusAssumption, ConnStates, PumpStates, Rows
<1>2. \A c \in Conns : /\ queue[c] = <<>> /\ written[c] = <<>> /\ source[c] = None /\ routed[c] = {}
                       /\ pump[c] = "none"
  BY DEF Init
<1>3. QueuesOwned /\ Reading
  BY <1>2 DEF Init, QueuesOwned, Reading
<1>4. InOrder /\ OneReader /\ OneQueue
  BY <1>2 DEF InOrder, OneReader, OneQueue, Increasing
<1> QED
  BY <1>1, <1>3, <1>4 DEF Inv

\* Every step preserves it.
LEMMA NextInv == BusAssumption /\ Inv /\ [Next]_vars => Inv'
<1> SUFFICES ASSUME BusAssumption, Inv, [Next]_vars PROVE Inv'
  OBVIOUS
<1> USE DEF Inv
<1>1. \* the queues and what was written from them stay
      ASSUME UNCHANGED <<queue, source, sent, routed, written>>
      PROVE  InOrder' /\ OneReader' /\ OneQueue'
  BY <1>1 DEF InOrder, OneReader, OneQueue, Increasing
<1>2. ASSUME NEW c \in Conns, Register(c) PROVE Inv'
  <2>1. TypeOK'
    BY <1>2 DEF Register, TypeOK, ConnStates, PumpStates, BusAssumption
  <2>2. \A a \in Agents : queues'[a] = queues[a] \/ (a = Owner[c] /\ queues'[a] = c)
    BY <1>2 DEF Register, TypeOK
  <2>3. QueuesOwned'
    BY <2>2 DEF QueuesOwned
  <2>4. /\ pump' = [pump EXCEPT ![c] = "starting"] /\ conn' = [conn EXCEPT ![c] = "open"]
        /\ UNCHANGED <<source, written, queue, sent, routed>>
        /\ pump[c] = "none"
    BY <1>2 DEF Register, Reading
  <2>5. Reading'
    BY <2>4 DEF Reading, TypeOK
  <2> QED
    BY <1>1, <2>1, <2>3, <2>4, <2>5
<1>3. ASSUME NEW c \in Conns, ClientLeaves(c) \/ HandlerEnds(c) PROVE Inv'
  <2>1. TypeOK'
    BY <1>3 DEF ClientLeaves, HandlerEnds, TypeOK, ConnStates
  <2>2. \A a \in Agents : queues'[a] \in {queues[a], None}
    BY <1>3 DEF ClientLeaves, HandlerEnds, TypeOK
  <2>3. QueuesOwned'
    BY <2>2 DEF QueuesOwned
  <2>4. \A d \in Conns : conn'[d] = "new" => conn[d] = "new"
    BY <1>3 DEF ClientLeaves, HandlerEnds, TypeOK
  <2> QED
    BY <1>1, <1>3, <2>1, <2>3, <2>4 DEF ClientLeaves, HandlerEnds, Reading
<1>4. ASSUME NEW a \in Agents, SubscribeToGroup(a) \/ UnsubscribeFromGroup(a) PROVE Inv'
  <2>1. TypeOK'
    BY <1>4 DEF SubscribeToGroup, UnsubscribeFromGroup, TypeOK
  <2> QED
    BY <1>1, <1>4, <2>1 DEF SubscribeToGroup, UnsubscribeFromGroup, QueuesOwned, Reading
<1>5. ASSUME NEW c \in Conns, PumpStarts(c) PROVE Inv'
  <2>1. PICK q \in Conns \cup {None} : q = queues[Owner[c]] /\ (q # None => Owner[q] = Owner[c])
    BY DEF BusAssumption, TypeOK, QueuesOwned
  <2>2. /\ source' = [source EXCEPT ![c] = q]
        /\ UNCHANGED <<conn, queues, queue, members, held, sent, row, expired, routed, written>>
        /\ source[c] = None /\ Len(written[c]) = 0
    BY <1>5, <2>1 DEF PumpStarts, Reading
  <2>3. pump' = [pump EXCEPT ![c] = IF q = None \/ conn[c] = "closed" THEN "over" ELSE "waiting"]
    BY <1>5, <2>1 DEF PumpStarts
  <2>4. TypeOK'
    BY <2>2, <2>3 DEF TypeOK, PumpStates
  <2>5. \A d \in Conns : d # c => source'[d] = source[d] /\ pump'[d] = pump[d]
    BY <2>2, <2>3
  <2>6. source'[c] = q /\ pump'[c] \in {"over", "waiting"} /\ (pump'[c] = "waiting" => q # None)
    BY <2>2, <2>3 DEF TypeOK
  <2>7. Reading'
    <3> SUFFICES ASSUME NEW d \in Conns
                 PROVE  /\ source'[d] # None => Owner[source'[d]] = Owner[d]
                        /\ pump'[d] \in {"waiting", "draining"} => source'[d] # None
                        /\ pump'[d] \in {"none", "starting"} => source'[d] = None
                        /\ source'[d] = None => Len(written[d]) = 0
                        /\ conn[d] = "new" => pump'[d] = "none"
      BY <2>2 DEF Reading
    <3>1. CASE d = c
      BY <1>5, <2>1, <2>2, <2>6, <3>1 DEF PumpStarts, Reading
    <3>2. CASE d # c
      BY <2>5, <3>2 DEF Reading
    <3> QED
      BY <3>1, <3>2
  <2>8. \A d \in Conns : Len(written[d]) = 0 \/ source'[d] = source[d]
    BY <2>2, <2>5
  <2>9. InOrder'
    BY <2>2, <2>8 DEF InOrder, Increasing
  <2>10. OneReader'
    BY <2>2, <2>8 DEF OneReader
  <2> QED
    BY <2>2, <2>4, <2>7, <2>9, <2>10 DEF QueuesOwned, OneQueue
<1>6. ASSUME NEW c \in Conns, PumpDrained(c) \/ PumpEnds(c) PROVE Inv'
  <2>1. /\ pump' \in [Conns -> PumpStates] /\ \A d \in Conns : d # c => pump'[d] = pump[d]
        /\ pump[c] \in {"waiting", "draining"} /\ pump'[c] \in {"waiting", "over"}
    BY <1>6 DEF PumpDrained, PumpEnds, AfterDrain, TypeOK, PumpStates
  <2>2. row' \in [Messages -> Rows]
    BY <1>6 DEF PumpDrained, PumpEnds, MarkDelivered, TypeOK, Rows
  <2>3. held' \in [Conns -> Messages \cup {None}]
    BY <1>6 DEF PumpDrained, PumpEnds, TypeOK
  <2>4. UNCHANGED <<conn, queues, queue, members, source, sent, expired, routed, written>>
    BY <1>6 DEF PumpDrained, PumpEnds
  <2>5. TypeOK'
    BY <2>1, <2>2, <2>3, <2>4 DEF TypeOK
  <2>6. QueuesOwned' /\ Reading'
    BY <2>1, <2>4 DEF QueuesOwned, Reading
  <2> QED
    BY <1>1, <2>4, <2>5, <2>6
<1>7. ASSUME (\E m \in Messages : TtlPasses(m)) \/ Sweep PROVE Inv'
  <2>1. UNCHANGED <<conn, queues, queue, members, pump, source, held, sent, routed, written>>
    BY <1>7 DEF TtlPasses, Sweep
  <2>2. row' \in [Messages -> Rows] /\ expired' \subseteq Messages
    BY <1>7 DEF TtlPasses, Sweep, TypeOK, Rows
  <2>3. TypeOK'
    BY <2>1, <2>2 DEF TypeOK
  <2> QED
    BY <1>1, <2>1, <2>3 DEF QueuesOwned, Reading
<1>8. CASE UNCHANGED vars
  <2>1. TypeOK' /\ QueuesOwned' /\ Reading'
    BY <1>8 DEF vars, TypeOK, QueuesOwned, Reading
  <2> QED
    BY <1>1, <1>8, <2>1 DEF vars
<1> QED
  BY <1>2, <1>3, <1>4, <1>5, <1>6, <1>7, <1>8, SendKeeps, WriteKeeps DEF Next, PumpSteps

-----------------------------------------------------------------------------
(* What follows from it.                                                   *)

\* Types, and no queue exceeds max_queue_size.
THEOREM BusTypes == BusAssumption /\ Spec => []TypeOK
<1> SUFFICES ASSUME BusAssumption PROVE Spec => []TypeOK
  OBVIOUS
<1>1. (Init => Inv) /\ (Inv /\ [Next]_vars => Inv') /\ (Inv => TypeOK)
  BY InitInv, NextInv DEF Inv
<1> QED
  BY <1>1, PTL DEF Spec

\* Whatever connections come and go, a connection gets its messages in the
\* order they were sent, and no agent gets one twice.
THEOREM MessagesInOrderOnce == BusAssumption /\ Spec => []InOrderOnce
<1> SUFFICES ASSUME BusAssumption PROVE Spec => []InOrderOnce
  OBVIOUS
<1>1. Inv => InOrderOnce
  <2> SUFFICES ASSUME Inv, NEW c \in Conns, NEW d \in Conns,
                      NEW i \in 1 .. Len(written[c]), NEW j \in 1 .. Len(written[d])
               PROVE  /\ c = d /\ i < j => written[c][i] < written[c][j]
                      /\ Owner[c] = Owner[d] /\ written[c][i] = written[d][j] => c = d /\ i = j
    BY DEF InOrderOnce
  <2>1. Increasing(written[c]) /\ Increasing(written[d])
    BY DEF Inv, InOrder
  <2>2. Len(written[c]) \in Nat /\ Len(written[d]) \in Nat /\ written[c] \in Seq(Messages) /\ Messages \subseteq Nat
    BY Numbers DEF Inv
  <2>3. source[c] # None /\ source[d] # None
    BY <2>2 DEF Inv, Reading
  <2>4. ASSUME Owner[c] = Owner[d], written[c][i] = written[d][j] PROVE c = d
    <3>1. /\ source[c] \in Conns /\ source[d] \in Conns
          /\ Owner[source[c]] = Owner[c] /\ Owner[source[d]] = Owner[d]
      BY <2>3 DEF Inv, Reading, TypeOK
    <3>2. written[c][i] \in routed[source[c]] /\ written[c][i] \in routed[source[d]]
      BY <2>3, <2>4 DEF Inv, InOrder
    <3>3. source[c] = source[d]
      BY <2>4, <3>1, <3>2 DEF Inv, OneQueue
    <3> QED
      BY <2>3, <2>4, <3>3 DEF Inv, OneReader
  <2>5. ASSUME c = d, written[c][i] = written[d][j] PROVE i = j
    <3>1. written[c][i] \in Nat /\ i \in Nat /\ j \in Nat
      BY <2>2, Numbers DEF Inv
    <3>2. ~ (i < j) /\ ~ (j < i)
      BY <2>1, <2>5, <3>1 DEF Increasing
    <3> QED
      BY <3>1, <3>2
  <2> QED
    BY <2>1, <2>4, <2>5 DEF Increasing
<1>2. (Init => Inv) /\ (Inv /\ [Next]_vars => Inv')
  BY InitInv, NextInv
<1> QED
  BY <1>1, <1>2, PTL DEF Spec

-----------------------------------------------------------------------------
(* What a row says.                                                        *)

\* "broadcast" and "group" are addresses of their own (bus/messages.py:146).
NamesApart == {"broadcast", "group"} \cap Agents = {}

\* A message for one agent is put into that agent's queues only; a pump holds
\* what it has written; a row says delivered of what was written to an addressee.
Delivers ==
    /\ \A c \in Conns : \A m \in routed[c] : Target[m] \in Agents => Owner[c] = Target[m]
    /\ \A c \in Conns : pump[c] = "draining" => held[c] \in Messages /\ Has(written[c], held[c])
    /\ \A m \in Messages : row[m] = "delivered" =>
         \E c \in Conns : Has(written[c], m) /\ (Target[m] \in Agents => Owner[c] = Target[m])

\* What was written to a connection stays written.
LEMMA WrittenStays ==
    ASSUME BusAssumption, Inv, [Next]_vars
    PROVE  \A c \in Conns : \A m : Has(written[c], m) => Has(written[c], m)'
<1>1. CASE UNCHANGED written
  BY <1>1 DEF Has
<1>2. ASSUME NEW c \in Conns, PumpWrites(c)
      PROVE  \A d \in Conns : \A m : Has(written[d], m) => Has(written[d], m)'
  <2>1. PICK m \in Messages : UNCHANGED written \/ written' = [written EXCEPT ![c] = Append(written[c], m)]
    <3>1. source[c] \in Conns
      BY <1>2 DEF PumpWrites, Inv, Reading, TypeOK
    <3>2. Head(queue[source[c]]) \in Messages
      BY <1>2, <3>1, HeadTailProperties DEF PumpWrites, Inv, TypeOK
    <3> QED
      BY <1>2, <3>2 DEF PumpWrites
  <2>2. CASE written' = [written EXCEPT ![c] = Append(written[c], m)]
    <3>1. PICK w : w = Append(written[c], m)
      OBVIOUS
    <3>2. written[c] \in Seq(Messages) /\ Len(written[c]) \in Nat
      BY Numbers DEF Inv
    <3>3. Len(w) = Len(written[c]) + 1 /\ \A i \in 1 .. Len(written[c]) : w[i] = written[c][i] /\ i \in 1 .. Len(w)
      BY <3>1, <3>2
    <3>4. written'[c] = w /\ \A d \in Conns : d # c => written'[d] = written[d]
      BY <2>2, <3>1 DEF Inv, TypeOK
    <3> QED
      BY <3>3, <3>4 DEF Has
  <2> QED
    BY <1>1, <2>1, <2>2
<1>3. ASSUME NEW c \in Conns, Register(c) \/ ClientLeaves(c) \/ HandlerEnds(c) \/ PumpStarts(c) \/ PumpDrained(c) \/ PumpEnds(c)
      PROVE  UNCHANGED written
  BY <1>3 DEF Register, ClientLeaves, HandlerEnds, PumpStarts, PumpDrained, PumpEnds
<1>4. ASSUME NEW a \in Agents, SubscribeToGroup(a) \/ UnsubscribeFromGroup(a) PROVE UNCHANGED written
  BY <1>4 DEF SubscribeToGroup, UnsubscribeFromGroup
<1>5. ASSUME Send \/ Sweep \/ \E m \in Messages : TtlPasses(m) PROVE UNCHANGED written
  BY <1>5 DEF Send, Sweep, TtlPasses
<1>6. CASE UNCHANGED vars
  BY <1>1, <1>6 DEF vars
<1> QED
  BY <1>1, <1>2, <1>3, <1>4, <1>5, <1>6 DEF Next, PumpSteps

\* Every step keeps what rows say true.
LEMMA DeliversStep ==
    ASSUME BusAssumption, NamesApart, Inv, Delivers, [Next]_vars
    PROVE  Delivers'
<1>1. \A c \in Conns : \A m : Has(written[c], m) => Has(written[c], m)'
  BY WrittenStays
<1>2. ASSUME routed' = routed, \A c \in Conns : pump'[c] = "draining" => pump[c] = "draining" /\ held'[c] = held[c],
             \A m \in Messages : row'[m] = "delivered" => row[m] = "delivered"
      PROVE  Delivers'
  <2>1. \A c \in Conns : pump'[c] = "draining" => held'[c] \in Messages /\ Has(written[c], held[c])'
    BY <1>1, <1>2 DEF Delivers
  <2>2. \A m \in Messages : row'[m] = "delivered" =>
           \E c \in Conns : Has(written[c], m)' /\ (Target[m] \in Agents => Owner[c] = Target[m])
    BY <1>1, <1>2 DEF Delivers
  <2> QED
    BY <1>2, <2>1, <2>2 DEF Delivers
<1>3. ASSUME NEW c \in Conns, Register(c) \/ ClientLeaves(c) \/ HandlerEnds(c) \/ PumpStarts(c) \/ PumpEnds(c)
      PROVE  Delivers'
  <2>1. UNCHANGED <<routed, row, held>>
    BY <1>3 DEF Register, ClientLeaves, HandlerEnds, PumpStarts, PumpEnds
  <2>2. \A d \in Conns : pump'[d] = "draining" => pump[d] = "draining"
    BY <1>3 DEF Register, ClientLeaves, HandlerEnds, PumpStarts, PumpEnds, Inv, TypeOK
  <2> QED
    BY <1>2, <2>1, <2>2
<1>4. ASSUME NEW a \in Agents, SubscribeToGroup(a) \/ UnsubscribeFromGroup(a) PROVE Delivers'
  BY <1>2, <1>4 DEF SubscribeToGroup, UnsubscribeFromGroup
<1>5. ASSUME Sweep \/ \E m \in Messages : TtlPasses(m) PROVE Delivers'
  <2>1. UNCHANGED <<routed, pump, held>> /\ \A m \in Messages : row'[m] = "delivered" => row[m] = "delivered"
    BY <1>5 DEF Sweep, TtlPasses
  <2> QED
    BY <1>2, <2>1
<1>6. ASSUME Send PROVE Delivers'
  <2>1. PICK n : n = sent + 1
    OBVIOUS
  <2>2. n \in Messages /\ sent' = n /\ UNCHANGED <<pump, held, written>>
    BY <1>6, <2>1 DEF Send, Inv, TypeOK, BusAssumption, Messages
  <2>3. \A m \in Messages : row'[m] = "delivered" => row[m] = "delivered"
    BY <1>6, <2>2 DEF Send, Inv, TypeOK
  <2>4. \A c \in Conns : routed'[c] = routed[c] \/ (routed'[c] = routed[c] \cup {n} /\ c \in Receivers(n))
    BY <1>6, <2>2 DEF Send
  <2>5. \A c \in Receivers(n) : Target[n] \in Agents => Owner[c] = Target[n]
    <3>1. Target[n] \in Agents => Addressees(n) = {Target[n]}
      BY DEF Addressees, NamesApart
    <3> QED
      BY <2>2, <3>1, ReceiversOwn DEF Inv
  <2>6. \A c \in Conns : \A m \in routed'[c] : Target[m] \in Agents => Owner[c] = Target[m]
    BY <2>4, <2>5 DEF Delivers
  <2> QED
    BY <2>2, <2>3, <2>6 DEF Delivers, Has
<1>7. ASSUME NEW c \in Conns, PumpWrites(c) PROVE Delivers'
  <2>1. PICK m : m = Head(queue[source[c]])
    OBVIOUS
  <2>2. m \in Messages
    <3>1. source[c] \in Conns
      BY <1>7 DEF PumpWrites, Inv, Reading, TypeOK
    <3> QED
      BY <1>7, <2>1, <3>1, HeadTailProperties DEF PumpWrites, Inv, TypeOK
  <2>3. UNCHANGED <<routed, row>>
    BY <1>7 DEF PumpWrites
  <2>4. CASE pump' = [pump EXCEPT ![c] = "over"] /\ UNCHANGED <<held, written>>
    BY <1>2, <2>3, <2>4 DEF Inv, TypeOK
  <2>5. CASE /\ pump' = [pump EXCEPT ![c] = "draining"]
             /\ held' = [held EXCEPT ![c] = m]
             /\ written' = [written EXCEPT ![c] = Append(written[c], m)]
    <3>1. written[c] \in Seq(Messages) /\ Len(written[c]) \in Nat
      BY Numbers DEF Inv
    <3>2. PICK w : w = Append(written[c], m)
      OBVIOUS
    <3>3. w[Len(written[c]) + 1] = m /\ Len(written[c]) + 1 \in 1 .. Len(w)
      BY <2>2, <3>1, <3>2
    <3>4. written'[c] = w /\ held'[c] = m
      BY <2>5, <3>2 DEF Inv, TypeOK
    <3>5. Has(written[c], held[c])'
      BY <3>3, <3>4 DEF Has
    <3>6. \A d \in Conns : d # c => pump'[d] = pump[d] /\ held'[d] = held[d]
      BY <2>5 DEF Inv, TypeOK
    <3>7. \A d \in Conns : pump'[d] = "draining" => held'[d] \in Messages /\ Has(written[d], held[d])'
      <4> SUFFICES ASSUME NEW d \in Conns, pump'[d] = "draining"
                   PROVE  held'[d] \in Messages /\ Has(written[d], held[d])'
        OBVIOUS
      <4>1. CASE d = c
        BY <2>2, <3>4, <3>5, <4>1
      <4>2. CASE d # c
        <5>1. held[d] \in Messages /\ Has(written[d], held[d])
          BY <3>6, <4>2 DEF Delivers
        <5>2. held'[d] = held[d]
          BY <3>6, <4>2
        <5> QED
          BY <1>1, <5>1, <5>2 DEF Has
      <4> QED
        BY <4>1, <4>2
    <3>8. \A k \in Messages : row'[k] = "delivered" =>
             \E d \in Conns : Has(written[d], k)' /\ (Target[k] \in Agents => Owner[d] = Target[k])
      BY <1>1, <2>3 DEF Delivers
    <3> QED
      BY <2>3, <3>7, <3>8 DEF Delivers
  <2> QED
    BY <1>7, <2>1, <2>4, <2>5 DEF PumpWrites
<1>8. ASSUME NEW c \in Conns, PumpDrained(c) PROVE Delivers'
  <2>1. UNCHANGED <<routed, written>> /\ pump[c] = "draining"
    BY <1>8 DEF PumpDrained
  <2>2. held[c] \in Messages /\ Has(written[c], held[c]) /\ (Target[held[c]] \in Agents => Owner[c] = Target[held[c]])
    <3>1. held[c] \in Messages /\ Has(written[c], held[c])
      BY <2>1 DEF Delivers
    <3>2. source[c] \in Conns /\ source[c] # None /\ Owner[source[c]] = Owner[c]
      BY <2>1 DEF Inv, Reading, TypeOK
    <3>3. held[c] \in routed[source[c]]
      BY <3>1, <3>2 DEF Inv, InOrder, Has
    <3> QED
      BY <3>1, <3>2, <3>3 DEF Delivers
  <2>3. \A d \in Conns : pump'[d] = "draining" => d # c /\ pump[d] = "draining" /\ held'[d] = held[d]
    BY <1>8 DEF PumpDrained, AfterDrain, Inv, TypeOK
  <2>4. \A m \in Messages : row'[m] = "delivered" => row[m] = "delivered" \/ m = held[c]
    BY <1>8 DEF PumpDrained, MarkDelivered
  <2>5. \A d \in Conns : pump'[d] = "draining" => held'[d] \in Messages /\ Has(written[d], held[d])'
    BY <2>1, <2>3 DEF Delivers, Has
  <2>6. \A m \in Messages : row'[m] = "delivered" =>
           \E d \in Conns : Has(written[d], m)' /\ (Target[m] \in Agents => Owner[d] = Target[m])
    BY <1>1, <2>2, <2>4 DEF Delivers
  <2> QED
    BY <2>1, <2>5, <2>6 DEF Delivers
<1>9. CASE UNCHANGED vars
  BY <1>2, <1>9 DEF vars
<1> QED
  BY <1>3, <1>4, <1>5, <1>6, <1>7, <1>8, <1>9 DEF Next, PumpSteps

\* A row says delivered only of a message that was written to a client it is
\* addressed to.
THEOREM RowsTellTheTruth == BusAssumption /\ NamesApart => (Spec => []DeliveredWasWritten)
<1> SUFFICES ASSUME BusAssumption, NamesApart PROVE Spec => []DeliveredWasWritten
  OBVIOUS
<1>1. Init => Delivers
  BY DEF Init, Delivers
<1>2. Inv /\ Delivers => DeliveredWasWritten
  <2> SUFFICES ASSUME Inv, Delivers, NEW m \in Messages, row[m] = "delivered"
               PROVE  \E a \in Agents : m \in WrittenTo(a) /\ (Target[m] \in Agents => a = Target[m])
    BY DEF DeliveredWasWritten
  <2>1. PICK c \in Conns : Has(written[c], m) /\ (Target[m] \in Agents => Owner[c] = Target[m])
    BY DEF Delivers
  <2>2. m \in ToSet(written[c])
    BY <2>1, HasIsMember DEF Inv, TypeOK
  <2>3. Owner[c] \in Agents /\ m \in WrittenTo(Owner[c])
    BY <2>2 DEF WrittenTo, BusAssumption
  <2> QED
    BY <2>1, <2>3
<1>3. (Init => Inv) /\ (Inv /\ [Next]_vars => Inv') /\ (Inv /\ Delivers /\ [Next]_vars => Delivers')
  BY InitInv, NextInv, DeliversStep
<1> QED
  BY <1>1, <1>2, <1>3, PTL DEF Spec

-----------------------------------------------------------------------------
(* Backpressure.                                                           *)

Above(S, m) == {k \in S : k > m}
Later(c, m) == Above(routed[c], m)

\* All clients of the owner stay, so far.
Stay(c) == \A d \in Conns : Owner[d] = Owner[c] => conn[d] \in {"new", "open"}

\* A message of the queue is in it, was written to its owner, or was pushed out.
Accounted ==
    \A c \in Conns : Stay(c) => \A m \in routed[c] :
        \/ Has(queue[c], m)
        \/ \E d \in Conns : Owner[d] = Owner[c] /\ Has(written[d], m)
        \/ Cardinality(Later(c, m)) >= MaxQueue

\* Later messages are finitely many, and more of them do not make a smaller set.
LEMMA AboveGrows ==
    ASSUME BusAssumption, NEW R \in SUBSET Messages, NEW S \in SUBSET Messages, R \subseteq S, NEW m
    PROVE  /\ Cardinality(Above(R, m)) \in Nat /\ Cardinality(Above(S, m)) \in Nat
           /\ Cardinality(Above(R, m)) <= Cardinality(Above(S, m))
           /\ IsFiniteSet(Above(S, m))
<1>1. IsFiniteSet(Messages)
  BY FS_Interval DEF BusAssumption, Messages
<1>2. Above(R, m) \in SUBSET Messages /\ Above(S, m) \in SUBSET Messages /\ Above(R, m) \in SUBSET Above(S, m)
  BY DEF Above
<1>3. IsFiniteSet(Above(R, m)) /\ IsFiniteSet(Above(S, m))
  BY <1>1, <1>2, FS_Subset
<1>4. Cardinality(Above(R, m)) <= Cardinality(Above(S, m))
  BY <1>2, <1>3, FS_Subset
<1> QED
  BY <1>3, <1>4, FS_CardinalityType

\* The message that a full queue loses has max_queue_size later ones: what is
\* left of the queue and the new message.
LEMMA PushedOut ==
    ASSUME BusAssumption, NEW q \in Seq(Messages), Increasing(q), Len(q) = MaxQueue,
           NEW n \in Messages, \A i \in 1 .. Len(q) : q[i] < n,
           NEW R \in SUBSET Messages, n \in R, \A i \in 1 .. Len(q) : q[i] \in R
    PROVE  Cardinality(Above(R, q[1])) >= MaxQueue
<1>1. MaxQueue \in Nat \ {0} /\ Messages \subseteq Nat
  BY DEF BusAssumption, Messages
<1>2. PICK T : T = {k \in R : k > q[1]} /\ T = Above(R, q[1])
  BY DEF Above
<1>3. PICK f : f = [i \in 1 .. MaxQueue |-> IF i = MaxQueue THEN n ELSE q[i + 1]]
  OBVIOUS
<1>4. \A i \in 1 .. MaxQueue : i # MaxQueue => i + 1 \in 1 .. Len(q) /\ 1 \in 1 .. Len(q) /\ 1 < i + 1
  BY <1>1
<1>5. 1 \in 1 .. Len(q) /\ \A i \in 1 .. Len(q) : q[i] \in Nat
  BY <1>1
<1>6. ASSUME NEW i \in 1 .. MaxQueue PROVE f[i] \in T
  <2>1. CASE i = MaxQueue
    BY <1>1, <1>2, <1>3, <1>5, <2>1
  <2>2. CASE i # MaxQueue
    <3>1. f[i] = q[i + 1] /\ i + 1 \in 1 .. Len(q) /\ 1 < i + 1
      BY <1>3, <1>4, <2>2
    <3>2. q[1] < q[i + 1]
      BY <1>5, <3>1 DEF Increasing
    <3> QED
      BY <1>2, <1>5, <3>1, <3>2
  <2> QED
    BY <2>1, <2>2
<1>7. \A i, j \in 1 .. MaxQueue : i < j => f[i] < f[j]
  <2> SUFFICES ASSUME NEW i \in 1 .. MaxQueue, NEW j \in 1 .. MaxQueue, i < j PROVE f[i] < f[j]
    OBVIOUS
  <2>1. f[i] = q[i + 1] /\ i + 1 \in 1 .. Len(q)
    BY <1>1, <1>3, <1>4
  <2>2. CASE j = MaxQueue
    BY <1>3, <2>1, <2>2
  <2>3. CASE j # MaxQueue
    <3>1. f[j] = q[j + 1] /\ j + 1 \in 1 .. Len(q) /\ i + 1 < j + 1
      BY <1>1, <1>3, <1>4, <2>3
    <3> QED
      BY <2>1, <3>1 DEF Increasing
  <2> QED
    BY <2>2, <2>3
<1>8. f \in Injection(1 .. MaxQueue, T)
  <2>1. f \in [1 .. MaxQueue -> T]
    BY <1>3, <1>6
  <2>2. \A i, j \in 1 .. MaxQueue : f[i] = f[j] => i = j
    <3> SUFFICES ASSUME NEW i \in 1 .. MaxQueue, NEW j \in 1 .. MaxQueue, f[i] = f[j] PROVE i = j
      OBVIOUS
    <3>1. f[i] \in Nat
      BY <1>1, <1>2, <1>6
    <3>2. ~ (i < j) /\ ~ (j < i)
      BY <1>7, <3>1
    <3> QED
      BY <3>2
  <2> QED
    BY <2>1, <2>2 DEF Injection, IsInjective
<1>9. IsFiniteSet(T) /\ Cardinality(T) \in Nat
  <2>1. R \subseteq R
    OBVIOUS
  <2>2. IsFiniteSet(Above(R, q[1])) /\ Cardinality(Above(R, q[1])) \in Nat
    BY <2>1, AboveGrows
  <2> QED
    BY <1>2, <2>2
<1>10. Cardinality(1 .. MaxQueue) = MaxQueue
  BY <1>1, FS_Interval
<1>11. Cardinality(1 .. MaxQueue) <= Cardinality(T)
  BY <1>8, <1>9, FS_Injection
<1> QED
  BY <1>1, <1>2, <1>9, <1>10, <1>11

\* Who has left does not come back.
LEMMA LeftIsLeft ==
    ASSUME Inv, [Next]_vars, NEW c \in Conns, Stay(c)'
    PROVE  Stay(c)
<1>1. \A d \in Conns : conn'[d] \in {"new", "open"} => conn[d] \in {"new", "open"}
  <2>1. CASE UNCHANGED conn
    BY <2>1
  <2>2. ASSUME NEW d \in Conns, Register(d) \/ ClientLeaves(d) \/ HandlerEnds(d)
        PROVE  \A e \in Conns : conn'[e] \in {"new", "open"} => conn[e] \in {"new", "open"}
    BY <2>2 DEF Register, ClientLeaves, HandlerEnds, Inv, TypeOK
  <2>3. ASSUME NEW d \in Conns, PumpStarts(d) \/ PumpWrites(d) \/ PumpDrained(d) \/ PumpEnds(d)
        PROVE  UNCHANGED conn
    BY <2>3 DEF PumpStarts, PumpWrites, PumpDrained, PumpEnds
  <2>4. ASSUME NEW a \in Agents, SubscribeToGroup(a) \/ UnsubscribeFromGroup(a) PROVE UNCHANGED conn
    BY <2>4 DEF SubscribeToGroup, UnsubscribeFromGroup
  <2>5. ASSUME Send \/ Sweep \/ \E m \in Messages : TtlPasses(m) PROVE UNCHANGED conn
    BY <2>5 DEF Send, Sweep, TtlPasses
  <2>6. CASE UNCHANGED vars
    BY <2>1, <2>6 DEF vars
  <2> QED
    BY <2>1, <2>2, <2>3, <2>4, <2>5, <2>6 DEF Next, PumpSteps
<1> QED
  BY <1>1 DEF Stay

\* Every step leaves each message accounted for.
LEMMA AccountedStep ==
    ASSUME BusAssumption, Inv, Accounted, [Next]_vars
    PROVE  Accounted'
<1>1. \A c \in Conns : \A m : Has(written[c], m) => Has(written[c], m)'
  BY WrittenStays
<1>2. \A c \in Conns : Stay(c)' => Stay(c)
  BY LeftIsLeft
<1>3. ASSUME UNCHANGED <<queue, routed>> PROVE Accounted'
  <2>1. \A c \in Conns : \A m : Has(queue[c], m) => Has(queue[c], m)'
    BY <1>3 DEF Has
  <2>2. \A c \in Conns : \A m : Later(c, m)' = Later(c, m)
    BY <1>3 DEF Later
  <2> QED
    BY <1>1, <1>2, <1>3, <2>1, <2>2 DEF Accounted
<1>4. ASSUME NEW c \in Conns, PumpWrites(c) PROVE Accounted'
  <2>1. PICK q \in Conns : q = source[c] /\ Owner[q] = Owner[c]
    BY <1>4 DEF PumpWrites, Inv, Reading, TypeOK
  <2>2. PICK h : h = Head(queue[q])
    OBVIOUS
  <2>3. /\ queue[q] # <<>> /\ queue[q] \in Seq(Messages) /\ Increasing(queue[q])
        /\ queue'[q] = Tail(queue[q]) /\ (\A d \in Conns : d # q => queue'[d] = queue[d])
        /\ UNCHANGED <<conn, routed>>
    BY <1>4, <2>1 DEF PumpWrites, Inv, TypeOK, InOrder
  <2>4. /\ h \in Messages
        /\ \A i \in 1 .. Len(queue[q]) : queue[q][i] = h \/ Has(queue'[q], queue[q][i])
    BY <2>2, <2>3, TailKeeps
  <2>5. \A d \in Conns : \A m : Has(queue[d], m) => Has(queue[d], m)' \/ (d = q /\ m = h)
    BY <2>3, <2>4 DEF Has
  <2>6. conn[c] # "closed" => Has(written[c], h)'
    <3> SUFFICES ASSUME conn[c] # "closed" PROVE Has(written[c], h)'
      OBVIOUS
    <3>1. written' = [written EXCEPT ![c] = Append(written[c], h)]
      BY <1>4, <2>1, <2>2 DEF PumpWrites
    <3>2. PICK w : w = Append(written[c], h)
      OBVIOUS
    <3>3. written[c] \in Seq(Messages) /\ Len(written[c]) \in Nat
      BY Numbers DEF Inv
    <3>4. w[Len(written[c]) + 1] = h /\ Len(written[c]) + 1 \in 1 .. Len(w)
      BY <2>4, <3>2, <3>3
    <3>5. written'[c] = w
      BY <3>1, <3>2 DEF Inv, TypeOK
    <3> QED
      BY <3>4, <3>5 DEF Has
  <2>7. Stay(q) => conn[c] # "closed"
    BY <2>1 DEF Stay
  <2>8. \A d \in Conns : \A m : Later(d, m)' = Later(d, m)
    BY <2>3 DEF Later
  <2> SUFFICES ASSUME NEW d \in Conns, Stay(d)', NEW m \in routed[d]
               PROVE  \/ Has(queue[d], m)'
                      \/ \E e \in Conns : Owner[e] = Owner[d] /\ Has(written[e], m)'
                      \/ Cardinality(Later(d, m)') >= MaxQueue
    BY <2>3 DEF Accounted
  <2>9. Stay(d)
    BY <1>2
  <2>10. \/ Has(queue[d], m)
         \/ \E e \in Conns : Owner[e] = Owner[d] /\ Has(written[e], m)
         \/ Cardinality(Later(d, m)) >= MaxQueue
    BY <2>9 DEF Accounted
  <2>11. CASE Has(queue[d], m)
    BY <2>1, <2>5, <2>6, <2>7, <2>9, <2>11
  <2>12. CASE \E e \in Conns : Owner[e] = Owner[d] /\ Has(written[e], m)
    BY <1>1, <2>12
  <2>13. CASE Cardinality(Later(d, m)) >= MaxQueue
    BY <2>8, <2>13
  <2> QED
    BY <2>10, <2>11, <2>12, <2>13
<1>5. ASSUME Send PROVE Accounted'
  <2>1. PICK n : n = sent + 1
    OBVIOUS
  <2>2. n \in Messages /\ n \in Nat /\ sent \in Nat /\ sent < n /\ sent' = n /\ UNCHANGED <<conn, written>>
    BY <1>5, <2>1 DEF Send, Inv, TypeOK, BusAssumption, Messages
  <2>3. PICK to : /\ queue' = [c \in Conns |-> IF c \in to THEN Offer(queue[c], n) ELSE queue[c]]
                  /\ routed' = [c \in Conns |-> IF c \in to THEN routed[c] \cup {n} ELSE routed[c]]
    <3>1. PICK stale \in BOOLEAN :
            LET to == IF stale THEN {} ELSE Receivers(n) IN
            /\ queue' = [c \in Conns |-> IF c \in to THEN Offer(queue[c], n) ELSE queue[c]]
            /\ routed' = [c \in Conns |-> IF c \in to THEN routed[c] \cup {n} ELSE routed[c]]
      BY <1>5, <2>2 DEF Send
    <3>2. PICK to : to = IF stale THEN {} ELSE Receivers(n)
      OBVIOUS
    <3> QED
      BY <3>1, <3>2
  <2>4. Inv'
    BY <1>5, SendKeeps
  <2> SUFFICES ASSUME NEW c \in Conns, Stay(c)', NEW m \in routed'[c]
               PROVE  \/ Has(queue[c], m)'
                      \/ \E d \in Conns : Owner[d] = Owner[c] /\ Has(written[d], m)'
                      \/ Cardinality(Later(c, m)') >= MaxQueue
    BY DEF Accounted
  <2>5. routed[c] \subseteq routed'[c] /\ routed[c] \in SUBSET Messages /\ routed'[c] \in SUBSET Messages
    BY <2>2, <2>3 DEF Inv, TypeOK
  <2>6. \A k : Cardinality(Later(c, k)) >= MaxQueue => Cardinality(Later(c, k)') >= MaxQueue
    <3>1. \A k : /\ Cardinality(Later(c, k)) \in Nat /\ Cardinality(Later(c, k)') \in Nat
                 /\ Cardinality(Later(c, k)) <= Cardinality(Later(c, k)')
      BY <2>5, AboveGrows DEF Later
    <3> QED
      BY <3>1 DEF BusAssumption
  <2>7. \/ Has(queue[c], m)
        \/ \E d \in Conns : Owner[d] = Owner[c] /\ Has(written[d], m)
        \/ Cardinality(Later(c, m)) >= MaxQueue
        \/ m = n /\ c \in to
    BY <1>2, <2>3 DEF Accounted
  <2>8. CASE c \notin to
    <3>1. queue'[c] = queue[c] /\ routed'[c] = routed[c]
      BY <2>3, <2>8
    <3> QED
      BY <1>1, <2>6, <2>7, <2>8, <3>1 DEF Has
  <2>9. CASE c \in to
    <3>1. PICK q \in Seq(Messages) : q = queue[c] /\ Increasing(q) /\ Len(q) <= MaxQueue
      BY DEF Inv, TypeOK, InOrder
    <3>2. \A i \in 1 .. Len(q) : q[i] \in routed[c] /\ q[i] < n
      <4>1. \A i \in 1 .. Len(q) : q[i] \in routed[c] /\ q[i] \in 1 .. sent
        BY <3>1 DEF Inv, InOrder
      <4> QED
        BY <2>2, <4>1
    <3>3. queue'[c] = Offer(q, n) /\ n \in routed'[c]
      BY <2>3, <2>9, <3>1
    <3>4. /\ Has(Offer(q, n), n)
          /\ \A i \in 1 .. Len(q) : (Len(q) >= MaxQueue /\ i = 1) \/ Has(Offer(q, n), q[i])
      BY <2>2, <3>1, <3>2, OfferKeeps
    <3>5. CASE m = n
      BY <3>3, <3>4, <3>5 DEF Has
    <3>6. CASE Has(queue[c], m)
      <4>1. PICK i \in 1 .. Len(q) : q[i] = m
        BY <3>1, <3>6 DEF Has
      <4>2. CASE Has(Offer(q, n), q[i])
        BY <3>3, <4>1, <4>2 DEF Has
      <4>3. CASE Len(q) >= MaxQueue /\ i = 1
        <5>1. Len(q) = MaxQueue
          BY <3>1, <4>3 DEF BusAssumption
        <5>2. \A j \in 1 .. Len(q) : q[j] \in routed'[c]
          BY <2>5, <3>2
        <5>3. Cardinality(Above(routed'[c], q[1])) >= MaxQueue
          BY <2>2, <2>5, <3>1, <3>2, <3>3, <5>1, <5>2, PushedOut
        <5> QED
          BY <4>1, <4>3, <5>3 DEF Later
      <4> QED
        BY <3>4, <4>2, <4>3
    <3> QED
      BY <1>1, <2>6, <2>7, <3>5, <3>6
  <2> QED
    BY <2>8, <2>9
<1>6. ASSUME NEW c \in Conns, Register(c) \/ ClientLeaves(c) \/ HandlerEnds(c) \/ PumpStarts(c) \/ PumpDrained(c) \/ PumpEnds(c)
      PROVE  UNCHANGED <<queue, routed>>
  BY <1>6 DEF Register, ClientLeaves, HandlerEnds, PumpStarts, PumpDrained, PumpEnds
<1>7. ASSUME NEW a \in Agents, SubscribeToGroup(a) \/ UnsubscribeFromGroup(a) PROVE UNCHANGED <<queue, routed>>
  BY <1>7 DEF SubscribeToGroup, UnsubscribeFromGroup
<1>8. ASSUME Sweep \/ \E m \in Messages : TtlPasses(m) PROVE UNCHANGED <<queue, routed>>
  BY <1>8 DEF Sweep, TtlPasses
<1>9. CASE UNCHANGED vars
  BY <1>3, <1>9 DEF vars
<1> QED
  BY <1>3, <1>4, <1>5, <1>6, <1>7, <1>8, <1>9 DEF Next, PumpSteps

\* An agent whose clients all stay misses a message of its queue only if
\* max_queue_size later ones have pushed it out, and no queue is longer than that.
THEOREM OldestGoFirst == BusAssumption /\ Spec => []OnlyOldestDropped
<1> SUFFICES ASSUME BusAssumption PROVE Spec => []OnlyOldestDropped
  OBVIOUS
<1>1. Init => Accounted
  BY DEF Init, Accounted
<1>2. Inv /\ Accounted => OnlyOldestDropped
  <2> SUFFICES ASSUME Inv, Accounted PROVE OnlyOldestDropped
    OBVIOUS
  <2>1. \A c \in Conns : \A m : (m \in ToSet(queue[c]) <=> Has(queue[c], m)) /\ (m \in ToSet(written[c]) <=> Has(written[c], m))
    BY HasIsMember DEF Inv, TypeOK
  <2>2. \A c, d \in Conns : \A m : Owner[d] = Owner[c] /\ Has(written[d], m) => m \in WrittenTo(Owner[c])
    BY <2>1 DEF WrittenTo
  <2>3. \A c \in Conns : Len(queue[c]) <= MaxQueue
    BY DEF Inv, TypeOK
  <2> QED
    BY <2>1, <2>2, <2>3 DEF OnlyOldestDropped, Accounted, Stay, Later, Above
<1>3. (Init => Inv) /\ (Inv /\ [Next]_vars => Inv') /\ (Inv /\ Accounted /\ [Next]_vars => Accounted')
  BY InitInv, NextInv, AccountedStep
<1> QED
  BY <1>1, <1>2, <1>3, PTL DEF Spec
-----------------------------------------------------------------------------
(* The watchdog.                                                           *)

Monitors ==
    [known : BOOLEAN, state : HerdrStates \cup {"unknown"}, health : Healths, hashed : BOOLEAN,
     age : 0 .. MaxAge, rec : Seq(Recoveries), row : Healths \cup {Nothing}, rowHashed : BOOLEAN]

\* A monitor that does not exist has nothing in it; rows are those of the list;
\* a monitor of an agent of the list came with a row; the row says what the
\* monitor says; who recovers has a recovery.
Sound(a, m, told, fresh) ==
    /\ m \in Monitors /\ Len(m.rec) <= 1
    /\ ~ m.known => m.health = "healthy" /\ m.rec = <<>>
    /\ m.row # Nothing => a \in Allowed
    /\ m.known /\ m.row = Nothing => a \notin Allowed
    /\ told /\ m.known /\ m.row # Nothing => m.row = m.health
    /\ fresh /\ ~ m.known => m.row \in {Nothing, "healthy"}
    /\ fresh /\ m.health = "recovering" => m.rec # <<>>

\* The row that Sync leaves.
Synced(a, m) == a \in Allowed => m.row # Nothing

Told == requests = 0
Fresh == crashes + requests = 0

AllSound(ms) == DOMAIN ms = Monitored /\ \A a \in Monitored : Sound(a, ms[a], Told, Fresh)

WatchInv ==
    /\ AllSound(mon)
    /\ herdr \in [Monitored -> HerdrStates] /\ listed \in [Monitored -> HerdrStates]
    /\ unread \in [Monitored -> BOOLEAN] /\ hung \in [Monitored -> BOOLEAN]
    /\ poll \in {"idle", "listing", "agents", "reading"} /\ pollAge \in 0 .. MaxPoll
    /\ todo \subseteq Monitored /\ (poll = "reading" => reader \in Monitored)
    /\ events \in Seq([agent : Monitored, state : HerdrStates])
    /\ failures \in [Monitored -> 0 .. MaxRetries] /\ streak \in [Monitored -> 0 .. MaxRetries]
    /\ alerted \in [Monitored -> BOOLEAN]
    /\ requests \in Nat /\ crashes \in Nat

-----------------------------------------------------------------------------
(* The operators on a monitor.                                             *)

\* A health that is not "recovering" may always be set.
LEMMA TransitionSound ==
    ASSUME WatchdogAssumption, NEW a \in Monitored, NEW told \in BOOLEAN, NEW fresh \in BOOLEAN,
           NEW m, Sound(a, m, told, fresh), m.known, NEW h \in Healths \ {"recovering"}
    PROVE  /\ Sound(a, Transition(m, h), told, fresh)
           /\ Transition(m, h).known /\ Transition(m, h).rec = m.rec /\ Transition(m, h).health = h
           /\ Transition(m, h).row = Nothing <=> m.row = Nothing
<1>1. CASE m.health = h
  BY <1>1 DEF Transition
<1>2. CASE m.health # h
  <2>1. Transition(m, h) = [m EXCEPT !.health = h, !.row = IF m.row = Nothing THEN Nothing ELSE h]
    BY <1>2 DEF Transition, Sound, Monitors
  <2>2. m.row = Nothing \/ m.row \in Healths
    BY DEF Sound, Monitors
  <2> QED
    BY <2>1, <2>2 DEF WatchdogAssumption, Sound, Monitors, Healths
<1> QED
  BY <1>1, <1>2

\* A row is made only for an agent of the list, and a monitor without one is of
\* an agent that is not on it.
LEMMA SyncSound ==
    ASSUME WatchdogAssumption, NEW a \in Monitored, NEW told \in BOOLEAN, NEW fresh \in BOOLEAN,
           NEW m, Sound(a, m, told, fresh)
    PROVE  Sound(a, Sync(a, m), told, fresh) /\ Synced(a, Sync(a, m))
BY DEF WatchdogAssumption, Sync, Synced, Sound, Monitors, Healths

\* A new monitor takes over what the row says.
LEMMA KnownSound ==
    ASSUME WatchdogAssumption, NEW a \in Monitored, NEW told \in BOOLEAN, NEW fresh \in BOOLEAN,
           NEW m, Sound(a, m, told, fresh), Synced(a, m),
           NEW st \in HerdrStates, NEW lag \in 0 .. MaxAge
    PROVE  Sound(a, Known(m, st, lag), told, fresh) /\ Known(m, st, lag).known
BY DEF WatchdogAssumption, Known, Synced, Sound, Monitors, Healths

\* Progress makes an agent healthy.
LEMMA ProgressSound ==
    ASSUME WatchdogAssumption, NEW a \in Monitored, NEW told \in BOOLEAN, NEW fresh \in BOOLEAN,
           NEW m, Sound(a, m, told, fresh), NEW lag \in 0 .. MaxAge
    PROVE  Sound(a, Progress(m, lag), told, fresh)
<1>1. PICK b \in BOOLEAN : b = ((m.rowHashed \/ m.hashed) /\ m.row # Nothing)
  OBVIOUS
<1>2. PICK n : n = [m EXCEPT !.age = lag, !.rowHashed = b]
  OBVIOUS
<1>3. Sound(a, n, told, fresh) /\ n.known = m.known /\ n.health = m.health
  BY <1>2 DEF Sound, Monitors
<1>4. Progress(m, lag) = Transition(n, "healthy")
  BY <1>1, <1>2 DEF Progress
<1>5. "healthy" \in Healths \ {"recovering"}
  BY DEF Healths
<1>6. CASE m.known
  <2>1. n.known
    BY <1>3, <1>6
  <2> QED
    BY <1>3, <1>4, <1>5, <2>1, TransitionSound
<1>7. CASE ~ m.known
  <2>1. Transition(n, "healthy") = n
    BY <1>3, <1>7 DEF Sound, Transition
  <2> QED
    BY <1>3, <1>4, <2>1
<1> QED
  BY <1>6, <1>7

\* What is observed, state or output, keeps a monitor sound.
LEMMA ObserveSound ==
    ASSUME WatchdogAssumption, NEW a \in Monitored, NEW told \in BOOLEAN, NEW fresh \in BOOLEAN,
           NEW m, Sound(a, m, told, fresh), NEW lag \in 0 .. MaxAge
    PROVE  /\ \A st \in HerdrStates : Synced(a, m) => Sound(a, ObserveState(m, st, lag), told, fresh)
           /\ \A new \in BOOLEAN : Sound(a, ObserveOutput(m, new, lag), told, fresh)
<1>1. ASSUME NEW st \in HerdrStates, Synced(a, m)
      PROVE  Sound(a, ObserveState(m, st, lag), told, fresh)
  <2> DEFINE k == Known(m, st, lag)
             n == [k EXCEPT !.state = st]
  <2>1. Sound(a, k, told, fresh) /\ k.known
    BY <1>1, KnownSound
  <2>2. Sound(a, n, told, fresh) /\ n.known
    BY <2>1 DEF Sound, Monitors
  <2>3. Sound(a, Progress(n, lag), told, fresh)
    BY <2>2, ProgressSound
  <2> QED
    BY <2>1, <2>3 DEF ObserveState
<1>2. ASSUME NEW new \in BOOLEAN
      PROVE  Sound(a, ObserveOutput(m, new, lag), told, fresh)
  <2> DEFINE n == [m EXCEPT !.hashed = TRUE]
  <2>1. Sound(a, n, told, fresh)
    BY DEF Sound, Monitors
  <2>2. Sound(a, Progress(n, lag), told, fresh)
    BY <2>1, ProgressSound
  <2> QED
    BY <2>2 DEF ObserveOutput
<1> QED
  BY <1>1, <1>2

\* A recovery starts only where none is at work.
LEMMA BeginSound ==
    ASSUME WatchdogAssumption, NEW a \in Monitored, NEW told \in BOOLEAN, NEW fresh \in BOOLEAN,
           NEW m, Sound(a, m, told, fresh), m.known
    PROVE  Sound(a, BeginRecovery(m), told, fresh)
<1>1. CASE m.rec # <<>>
  BY <1>1 DEF BeginRecovery
<1>2. CASE m.rec = <<>>
  <2>1. m.row = Nothing \/ m.row \in Healths
    BY DEF Sound, Monitors
  <2>2. <<"start">> \in Seq(Recoveries) /\ Len(<<"start">>) = 1 /\ <<"start">> # <<>>
    BY DEF Recoveries
  <2>3. PICK n : n = Transition(m, "recovering")
    OBVIOUS
  <2>4. /\ n \in Monitors /\ n.known /\ n.health = "recovering"
        /\ n.row = IF m.row = Nothing THEN Nothing ELSE IF m.health = "recovering" THEN m.row ELSE "recovering"
    BY <2>1, <2>3 DEF Transition, Sound, Monitors, Healths
  <2>5. PICK e : e = [n EXCEPT !.rec = <<"start">>]
    OBVIOUS
  <2>6. e \in Monitors /\ e.known /\ e.health = n.health /\ e.row = n.row /\ e.rec = <<"start">>
    BY <2>2, <2>4, <2>5 DEF Monitors
  <2>7. BeginRecovery(m) = e
    BY <1>2, <2>3, <2>5 DEF BeginRecovery
  <2>8. e.row = Nothing <=> m.row = Nothing
    BY <2>4, <2>6 DEF WatchdogAssumption, Healths
  <2>9. /\ e \in Monitors /\ Len(e.rec) <= 1 /\ e.rec # <<>>
        /\ e.known /\ e.health = "recovering"
    BY <2>2, <2>4, <2>6
  <2>10. /\ e.row # Nothing => a \in Allowed
         /\ e.row = Nothing => a \notin Allowed
         /\ told /\ e.row # Nothing => e.row = "recovering"
    BY <2>4, <2>6, <2>8 DEF Sound
  <2> QED
    BY <2>7, <2>9, <2>10 DEF Sound
<1> QED
  BY <1>1, <1>2

\* Looking at the clock keeps every monitor sound.
LEMMA EvaluateSound ==
    ASSUME WatchdogAssumption, NEW a \in Monitored, NEW told \in BOOLEAN, NEW fresh \in BOOLEAN,
           NEW m, Sound(a, m, told, fresh), NEW lag
    PROVE  Sound(a, Evaluate(m, lag), told, fresh)
<1>1. CASE ~ m.known \/ m.health = "recovering"
  BY <1>1 DEF Evaluate
<1>2. CASE m.known /\ m.health # "recovering"
  <2>1. {"healthy", "unhealthy", "suspect"} \subseteq Healths \ {"recovering"}
    BY DEF Healths
  <2>2. \A h \in {"healthy", "unhealthy", "suspect"} :
            Sound(a, Transition(m, h), told, fresh) /\ Transition(m, h).known
    BY <1>2, <2>1, TransitionSound
  <2>3. Sound(a, BeginRecovery(Transition(m, "unhealthy")), told, fresh)
    BY <2>2, BeginSound
  <2>4. Evaluate(m, lag) \in {m, Transition(m, "healthy"), Transition(m, "suspect"),
                              BeginRecovery(Transition(m, "unhealthy"))}
    BY <1>2 DEF Evaluate
  <2> QED
    BY <2>2, <2>3, <2>4
<1> QED
  BY <1>1, <1>2

\* The end of a recovery: its agent is no longer recovering.
LEMMA EndedSound ==
    ASSUME WatchdogAssumption, NEW a \in Monitored, NEW told \in BOOLEAN, NEW fresh \in BOOLEAN,
           NEW m, Sound(a, m, told, fresh), NEW i \in DOMAIN m.rec,
           NEW h \in {"healthy", "unhealthy"}
    PROVE  Sound(a, Ended(m, i, h), told, fresh)
<1>1. m.rec \in Seq(Recoveries) /\ Len(m.rec) = 1 /\ i = 1
  <2>1. m.rec \in Seq(Recoveries) /\ Len(m.rec) <= 1
    BY DEF Sound, Monitors
  <2>2. DOMAIN m.rec = 1 .. Len(m.rec) /\ Len(m.rec) \in Nat
    BY <2>1
  <2>3. PICK n \in Nat : n = Len(m.rec)
    BY <2>2
  <2>4. i \in 1 .. n /\ n <= 1
    BY <2>1, <2>2, <2>3
  <2>5. i = 1 /\ n = 1
    BY <2>4
  <2> QED
    BY <2>1, <2>3, <2>5
<1>2. RemoveAt(m.rec, i) = <<>>
  <2>1. SubSeq(m.rec, 1, i - 1) = <<>> /\ SubSeq(m.rec, i + 1, Len(m.rec)) = <<>>
    BY <1>1
  <2> QED
    BY <2>1 DEF RemoveAt
<1>3. PICK e : e = [m EXCEPT !.rec = <<>>, !.age = 0]
  OBVIOUS
<1>4. Ended(m, i, h) = Transition(e, h)
  BY <1>2, <1>3 DEF Ended, Sound, Monitors
<1>5. m.known /\ m \in Monitors /\ <<>> \in Seq(Recoveries) /\ 0 \in 0 .. MaxAge
  BY <1>1 DEF Sound, WatchdogAssumption, MaxAge
<1>6. /\ e \in Monitors /\ e.known /\ e.row = m.row /\ e.health = m.health /\ e.rec = <<>>
  BY <1>3, <1>5 DEF Monitors
<1>7. CASE e.health = h
  <2>1. Ended(m, i, h) = e
    BY <1>4, <1>7 DEF Transition
  <2> QED
    BY <2>1, <1>6, <1>7 DEF Sound
<1>8. CASE e.health # h
  <2>1. PICK n : n = [e EXCEPT !.health = h, !.row = IF e.row = Nothing THEN Nothing ELSE h]
    OBVIOUS
  <2>2. e.row \in Healths \cup {Nothing} /\ h \in Healths
    BY <1>6 DEF Monitors, Healths
  <2>3. n \in Monitors /\ n.known /\ n.health = h /\ n.rec = <<>> /\ n.row = IF e.row = Nothing THEN Nothing ELSE h
    BY <2>1, <2>2, <1>6 DEF Monitors
  <2>4. Ended(m, i, h) = n
    BY <2>1, <1>4, <1>6, <1>8 DEF Transition, Monitors
  <2>5. h # Nothing
    BY <2>2 DEF WatchdogAssumption
  <2> QED
    BY <2>3, <2>4, <2>5, <1>6 DEF Sound
<1> QED
  BY <1>7, <1>8

-----------------------------------------------------------------------------
(* The steps.                                                              *)

\* Looking at all the clocks.
LEMMA EvaluateAllSound ==
    ASSUME WatchdogAssumption, NEW ms, AllSound(ms), NEW lag
    PROVE  AllSound(EvaluateAll(ms, lag))
<1>1. Told \in BOOLEAN /\ Fresh \in BOOLEAN
  BY DEF Told, Fresh
<1>2. \A a \in Monitored : Sound(a, Evaluate(ms[a], lag), Told, Fresh)
  BY <1>1, EvaluateSound DEF AllSound
<1> QED
  BY <1>2 DEF AllSound, EvaluateAll

\* One monitor changes.
LEMMA OneSound ==
    ASSUME NEW ms, AllSound(ms), NEW a \in Monitored, NEW m, Sound(a, m, Told, Fresh)
    PROVE  AllSound([ms EXCEPT ![a] = m])
BY DEF AllSound

\* The end of a poll, or its next agent.
LEMMA AfterSound ==
    ASSUME WatchdogAssumption, WatchInv, NEW ms, AllSound(ms), NEW a, After(a, ms),
           UNCHANGED <<requests, crashes>>
    PROVE  /\ AllSound(mon)'
           /\ poll' \in {"idle", "agents"} /\ pollAge' \in 0 .. MaxPoll /\ todo' \subseteq Monitored
<1>1. AllSound(EvaluateAll(ms, pollAge))
  BY EvaluateAllSound
<1>2. mon' = ms \/ mon' = EvaluateAll(ms, pollAge)
  BY DEF After
<1>3. AllSound(mon)'
  BY <1>1, <1>2 DEF AllSound, Told, Fresh
<1> QED
  BY <1>3 DEF After, WatchInv, WatchdogAssumption

\* The initial states satisfy the invariant.
LEMMA WatchInitInv == WatchdogAssumption /\ WatchInit => WatchInv
<1> SUFFICES ASSUME WatchdogAssumption, WatchInit PROVE WatchInv
  OBVIOUS
<1>1. NoMonitor \in Monitors /\ Len(NoMonitor.rec) = 0
  <2>1. <<>> \in Seq(Recoveries) /\ 0 \in 0 .. MaxAge
    BY DEF WatchdogAssumption, MaxAge
  <2> QED
    BY <2>1 DEF NoMonitor, Monitors, Healths
<1>2. \A a \in Monitored : Sound(a, NoMonitor, Told, Fresh)
  BY <1>1 DEF Sound, NoMonitor
<1>3. AllSound(mon)
  BY <1>2 DEF AllSound, WatchInit
<1> QED
  BY <1>3 DEF WatchInv, WatchInit, WatchdogAssumption, HerdrStates

\* Every step of the watchdog, of Herdr and of the API preserves it.
LEMMA WatchNextInv == WatchdogAssumption /\ WatchInv /\ [WatchNext]_watchVars => WatchInv'
<1> SUFFICES ASSUME WatchdogAssumption, WatchInv, [WatchNext]_watchVars PROVE WatchInv'
  OBVIOUS
<1> USE DEF WatchInv
<1>0. /\ Told \in BOOLEAN /\ Fresh \in BOOLEAN
      /\ 0 \in 0 .. MaxPoll /\ 0 \in 0 .. MaxAge /\ pollAge \in 0 .. MaxAge
      /\ 0 \in 0 .. MaxRetries
      /\ \A a \in Monitored : Sound(a, mon[a], Told, Fresh) /\ mon[a] \in Monitors
      /\ DOMAIN mon = Monitored
  <2>1. 0 \in 0 .. MaxPoll /\ 0 \in 0 .. MaxAge /\ pollAge \in 0 .. MaxAge /\ 0 \in 0 .. MaxRetries
    BY DEF WatchdogAssumption, MaxAge
  <2> QED
    BY <2>1 DEF Told, Fresh, AllSound, Sound
<1>1. ASSUME NEW a \in Monitored, Works(a) \/ Switches(a) \/ Hangs(a) PROVE WatchInv'
  <2>1. UNCHANGED <<mon, requests, crashes>>
    BY <1>1 DEF Works, Switches, Hangs, book
  <2>2. AllSound(mon)'
    BY <2>1 DEF AllSound, Told, Fresh
  <2>3. CASE Works(a)
    BY <2>2, <2>3 DEF Works, polling, book
  <2>4. CASE Switches(a)
    <3>1. PICK s \in HerdrStates : /\ herdr' = [herdr EXCEPT ![a] = s]
                                   /\ events' = <<[agent |-> a, state |-> s]>>
      BY <2>4 DEF Switches
    <3>2. events' \in Seq([agent : Monitored, state : HerdrStates])
      BY <3>1
    <3> QED
      BY <2>2, <2>4, <3>1, <3>2 DEF Switches, polling, book
  <2>5. CASE Hangs(a)
    BY <2>2, <2>5 DEF Hangs, polling, book
  <2> QED
    BY <1>1, <2>3, <2>4, <2>5
<1>2. ASSUME EventLost PROVE WatchInv'
  <2>1. AllSound(mon)'
    BY <1>2 DEF EventLost, AllSound, Told, Fresh, book
  <2> QED
    BY <1>2, <2>1 DEF EventLost, world, polling, book
<1>3. ASSUME Tick PROVE WatchInv'
  <2>1. \A a \in Monitored : Sound(a, mon'[a], Told, Fresh)
    <3> SUFFICES ASSUME NEW a \in Monitored PROVE Sound(a, mon'[a], Told, Fresh)
      OBVIOUS
    <3>1. CASE mon[a].known /\ mon[a].age < MaxAge
      <4>1. PICK m : m = mon[a]
        OBVIOUS
      <4>2. mon'[a] = [m EXCEPT !.age = m.age + 1]
        BY <1>3, <3>1, <4>1 DEF Tick
      <4>3. m.age + 1 \in 0 .. MaxAge
        <5>1. m.age \in 0 .. MaxAge /\ m.age < MaxAge
          BY <3>1, <4>1, <1>0 DEF Monitors
        <5>2. MaxAge \in Nat
          BY DEF MaxAge, WatchdogAssumption
        <5> QED
          BY <5>1, <5>2
      <4> QED
        BY <4>1, <4>2, <4>3, <1>0 DEF Sound, Monitors
    <3>2. CASE ~ (mon[a].known /\ mon[a].age < MaxAge)
      BY <1>3, <3>2, <1>0 DEF Tick
    <3> QED
      BY <3>1, <3>2
  <2>2. UNCHANGED <<requests, crashes, world, poll, listed, todo, reader, events, book>> /\ DOMAIN mon' = Monitored
    BY <1>3 DEF Tick, book
  <2>3. AllSound(mon)'
    BY <2>1, <2>2 DEF AllSound, Told, Fresh
  <2>4. pollAge' \in 0 .. MaxPoll
    BY <1>3 DEF Tick, WatchdogAssumption
  <2> QED
    BY <2>2, <2>3, <2>4 DEF world, book
<1>4. ASSUME HandleEvent PROVE WatchInv'
  <2>1. PICK e \in [agent : Monitored, state : HerdrStates] : e = Head(events)
    <3>1. events # <<>> /\ events \in Seq([agent : Monitored, state : HerdrStates])
      BY <1>4 DEF HandleEvent
    <3>2. Head(events) \in [agent : Monitored, state : HerdrStates]
      BY <3>1, HeadTailProperties
    <3> QED
      BY <3>2
  <2>2. Sound(e.agent, ObserveState(Sync(e.agent, mon[e.agent]), e.state, 0), Told, Fresh)
    BY <2>1, <1>0, SyncSound, ObserveSound
  <2>3. AllSound([mon EXCEPT ![e.agent] = ObserveState(Sync(e.agent, mon[e.agent]), e.state, 0)])
    BY <2>2, OneSound
  <2>4. AllSound(mon')
    BY <1>4, <2>1, <2>3, EvaluateAllSound DEF HandleEvent
  <2>5. UNCHANGED <<world, polling, book, crashes>> /\ events' = Tail(events) /\ events # <<>>
    BY <1>4 DEF HandleEvent
  <2>6. AllSound(mon)'
    BY <2>4, <2>5 DEF AllSound, Told, Fresh, book
  <2>7. events' \in Seq([agent : Monitored, state : HerdrStates])
    BY <2>5
  <2> QED
    BY <2>5, <2>6, <2>7 DEF world, polling, book
<1>5. ASSUME PollStarts \/ HerdrLists PROVE WatchInv'
  <2>1. AllSound(mon)'
    BY <1>5 DEF PollStarts, HerdrLists, AllSound, Told, Fresh, book
  <2> QED
    BY <1>0, <1>5, <2>1 DEF PollStarts, HerdrLists, world, book
<1>6. ASSUME ListFails PROVE WatchInv'
  <2>1. AllSound(EvaluateAll(mon, pollAge))
    BY EvaluateAllSound
  <2>2. AllSound(mon)'
    BY <1>6, <2>1 DEF ListFails, AllSound, Told, Fresh, book
  <2> QED
    BY <1>0, <1>6, <2>2 DEF ListFails, world, book
<1>7. ASSUME NEW a \in Monitored, PollAgent(a) PROVE WatchInv'
  <2>1. PICK ms : ms = [mon EXCEPT ![a] = ObserveState(Sync(a, mon[a]), listed[a], pollAge)]
    OBVIOUS
  <2>2. Sound(a, ObserveState(Sync(a, mon[a]), listed[a], pollAge), Told, Fresh)
    <3>1. listed[a] \in HerdrStates
      OBVIOUS
    <3> QED
      BY <3>1, <1>0, SyncSound, ObserveSound
  <2>3. AllSound(ms)
    BY <2>1, <2>2, OneSound
  <2>4. \/ After(a, ms)
        \/ poll' = "reading" /\ reader' = a /\ mon' = ms /\ UNCHANGED <<todo, pollAge>>
    BY <1>7, <2>1 DEF PollAgent
  <2>5. UNCHANGED <<world, listed, events, book, crashes>>
    BY <1>7 DEF PollAgent
  <2>6. CASE After(a, ms)
    BY <2>3, <2>5, <2>6, AfterSound DEF world, book
  <2>7. CASE poll' = "reading" /\ reader' = a /\ mon' = ms /\ UNCHANGED <<todo, pollAge>>
    <3>1. AllSound(mon)'
      BY <2>3, <2>5, <2>7 DEF AllSound, Told, Fresh, book
    <3> QED
      BY <2>5, <2>7, <3>1 DEF world, book
  <2> QED
    BY <2>4, <2>6, <2>7
<1>8. ASSUME ReadReturns \/ ReadFails PROVE WatchInv'
  <2>1. reader \in Monitored /\ UNCHANGED <<herdr, hung, listed, events, book, crashes>>
    BY <1>8 DEF ReadReturns, ReadFails, world
  <2>2. unread' \in [Monitored -> BOOLEAN]
    BY <1>8 DEF ReadReturns, ReadFails, world
  <2>3. PICK ms : AllSound(ms) /\ After(reader, ms)
    <3>1. CASE ReadFails
      BY <3>1 DEF ReadFails
    <3>2. CASE ReadReturns
      <4>1. PICK m : m = ObserveOutput(mon[reader], unread[reader], pollAge)
        OBVIOUS
      <4>2. unread[reader] \in BOOLEAN
        BY <2>1
      <4>3. Sound(reader, m, Told, Fresh)
        BY <4>1, <4>2, <2>1, <1>0, ObserveSound
      <4>4. AllSound([mon EXCEPT ![reader] = m])
        BY <4>3, <2>1, OneSound
      <4> QED
        BY <4>1, <4>4, <3>2 DEF ReadReturns
    <3> QED
      BY <1>8, <3>1, <3>2
  <2>4. UNCHANGED <<requests, crashes>>
    BY <2>1 DEF book
  <2> QED
    BY <2>1, <2>2, <2>3, <2>4, AfterSound DEF book
<1>9. ASSUME NEW a \in Monitored, RecoverySteps(a) PROVE WatchInv'
  <2>1. PICK i \in DOMAIN mon[a].rec :
            Interrupt(a, i) \/ Respawn(a, i) \/ Replay(a, i) \/ RecoverySucceeds(a, i) \/ RecoveryFails(a, i)
    BY <1>9 DEF RecoverySteps
  <2>2. PICK m : m = mon[a] /\ Sound(a, m, Told, Fresh) /\ m \in Monitors
    BY <1>0
  <2>3. m.rec \in Seq(Recoveries) /\ i \in 1 .. Len(m.rec)
    BY <2>1, <2>2 DEF Monitors
  <2>4. ASSUME NEW p \in Recoveries, Move(a, i, p), UNCHANGED <<requests, crashes>>
        PROVE  AllSound(mon)'
    <3>1. PICK r : r = [m.rec EXCEPT ![i] = p]
      OBVIOUS
    <3>2. r \in Seq(Recoveries) /\ Len(r) = Len(m.rec)
      BY <2>3, <3>1, ExceptSeq
    <3>3. r # <<>> /\ m.known
      <4>1. Len(r) # 0
        BY <2>3, <3>2
      <4>2. m.rec # <<>>
        BY <2>3, <3>2, <4>1
      <4> QED
        BY <2>2, <4>1, <4>2 DEF Sound
    <3>4. PICK n : n = [m EXCEPT !.rec = r]
      OBVIOUS
    <3>5. Sound(a, n, Told, Fresh)
      BY <2>2, <3>2, <3>3, <3>4 DEF Sound, Monitors
    <3>6. mon' = [mon EXCEPT ![a] = n]
      BY <2>2, <2>4, <3>1, <3>4 DEF Move
    <3>7. AllSound([mon EXCEPT ![a] = n])
      BY <3>5, OneSound
    <3> QED
      BY <2>4, <3>6, <3>7 DEF AllSound, Told, Fresh
  <2>5. ASSUME NEW h \in {"healthy", "unhealthy"}, mon' = [mon EXCEPT ![a] = Ended(@, i, h)],
               UNCHANGED <<requests, crashes>>
        PROVE  AllSound(mon)'
    <3>1. AllSound([mon EXCEPT ![a] = Ended(mon[a], i, h)])
      <4>1. Sound(a, Ended(mon[a], i, h), Told, Fresh)
        BY <1>0, <2>1, EndedSound
      <4> QED
        BY <4>1, OneSound
    <3> QED
      BY <2>5, <3>1 DEF AllSound, Told, Fresh
  <2>6. CASE Interrupt(a, i)
    <3>1. AllSound(mon)'
      BY <2>4, <2>6 DEF Interrupt, Recoveries, book
    <3> QED
      BY <2>6, <3>1 DEF Interrupt, HerdrStates, polling, book
  <2>7. CASE Respawn(a, i)
    <3>1. AllSound(mon)'
      BY <2>4, <2>7 DEF Respawn, Recoveries, book
    <3> QED
      BY <2>7, <3>1 DEF Respawn, world, polling, book
  <2>8. CASE Replay(a, i)
    <3>1. AllSound(mon)'
      BY <2>4, <2>8 DEF Replay, Recoveries, book
    <3> QED
      BY <2>8, <3>1 DEF Replay, HerdrStates, polling, book
  <2>9. CASE RecoverySucceeds(a, i)
    <3>1. AllSound(mon)'
      BY <2>5, <2>9 DEF RecoverySucceeds
    <3> QED
      BY <1>0, <2>9, <3>1 DEF RecoverySucceeds, world, polling
  <2>10. CASE RecoveryFails(a, i)
    <3>1. AllSound(mon)'
      BY <2>5, <2>10 DEF RecoveryFails
    <3>2. Counted(a) \in Nat
      BY DEF Counted, WatchdogAssumption
    <3>3. failures' \in [Monitored -> 0 .. MaxRetries] /\ streak' \in [Monitored -> 0 .. MaxRetries]
      BY <2>10, <3>2 DEF RecoveryFails, WatchdogAssumption
    <3>4. alerted' \in [Monitored -> BOOLEAN]
      BY <2>10 DEF RecoveryFails
    <3> QED
      BY <2>10, <3>1, <3>3, <3>4 DEF RecoveryFails, world, polling
  <2> QED
    BY <2>1, <2>6, <2>7, <2>8, <2>9, <2>10
<1>10. ASSUME NEW a \in Monitored, ApiRestart(a) PROVE WatchInv'
  <2>1. requests' = requests + 1 /\ UNCHANGED crashes
    BY <1>10 DEF ApiRestart
  <2>2. Told' = FALSE /\ Fresh' = FALSE
    BY <2>1 DEF Told, Fresh
  <2>3. PICK m : m = mon[a] /\ Sound(a, m, Told, Fresh)
    BY <1>0
  <2>4. PICK n : n = [m EXCEPT !.row = "recovering"]
    OBVIOUS
  <2>5. mon' = [mon EXCEPT ![a] = n] /\ m.row # Nothing
    BY <1>10, <2>3, <2>4 DEF ApiRestart
  <2>6. Sound(a, n, FALSE, FALSE)
    BY <2>3, <2>4, <2>5 DEF Sound, Monitors, Healths, WatchdogAssumption
  <2>7. \A b \in Monitored : Sound(b, mon[b], FALSE, FALSE)
    BY <1>0 DEF Sound
  <2>8. AllSound(mon)'
    BY <1>0, <2>2, <2>5, <2>6, <2>7 DEF AllSound
  <2> QED
    BY <1>10, <2>1, <2>8 DEF ApiRestart, world, polling
<1>11. ASSUME Crash PROVE WatchInv'
  <2>1. crashes' = crashes + 1 /\ UNCHANGED requests
    BY <1>11 DEF Crash
  <2>2. Fresh' = FALSE
    BY <2>1 DEF Fresh
  <2>3. \A a \in Monitored : Sound(a, mon'[a], Told', FALSE)
    <3> SUFFICES ASSUME NEW a \in Monitored PROVE Sound(a, mon'[a], Told', FALSE)
      OBVIOUS
    <3>1. PICK m : m = mon[a] /\ Sound(a, m, Told, Fresh)
      BY <1>0
    <3>2. PICK n : n = [NoMonitor EXCEPT !.row = m.row, !.rowHashed = m.rowHashed]
      OBVIOUS
    <3>3. m.row \in Healths \cup {Nothing} /\ m.rowHashed \in BOOLEAN /\ (m.row # Nothing => a \in Allowed)
      BY <3>1 DEF Sound, Monitors
    <3>4. <<>> \in Seq(Recoveries) /\ Len(<<>>) = 0
      OBVIOUS
    <3>5. /\ n \in Monitors /\ Len(n.rec) = 0
          /\ n.known = FALSE /\ n.health = "healthy" /\ n.rec = <<>> /\ n.row = m.row
      BY <1>0, <3>2, <3>3, <3>4 DEF Monitors, NoMonitor, Healths
    <3>6. Sound(a, n, Told', FALSE)
      BY <3>3, <3>5 DEF Sound
    <3> QED
      BY <1>11, <3>1, <3>2, <3>6 DEF Crash
  <2>4. AllSound(mon)'
    BY <1>11, <2>2, <2>3 DEF AllSound, Crash
  <2>5. UNCHANGED <<herdr, listed, unread, hung>> /\ poll' = "idle" /\ pollAge' = 0 /\ todo' = {} /\ events' = <<>>
    BY <1>11 DEF Crash, world
  <2>6. /\ failures' \in [Monitored -> 0 .. MaxRetries] /\ streak' \in [Monitored -> 0 .. MaxRetries]
        /\ alerted' \in [Monitored -> BOOLEAN]
    BY <1>0, <1>11 DEF Crash
  <2> QED
    BY <1>0, <2>1, <2>4, <2>5, <2>6
<1>12. CASE UNCHANGED watchVars
  BY <1>12 DEF watchVars, AllSound, Told, Fresh
<1> QED
  BY <1>1, <1>2, <1>3, <1>4, <1>5, <1>6, <1>7, <1>8, <1>9, <1>10, <1>11, <1>12 DEF WatchNext, PollSteps

-----------------------------------------------------------------------------
(* What follows from it.                                                   *)

\* Every variable keeps its type, and only agents of the list have a row.
THEOREM WatchdogTypes == WatchdogAssumption /\ WatchSpec => []WatchTypeOK
<1> SUFFICES ASSUME WatchdogAssumption PROVE WatchSpec => []WatchTypeOK
  OBVIOUS
<1>1. WatchInv => WatchTypeOK
  BY DEF WatchInv, AllSound, Sound, Monitors, WatchTypeOK, ToSet
<1>2. (WatchInit => WatchInv) /\ (WatchInv /\ [WatchNext]_watchVars => WatchInv')
  BY WatchInitInv, WatchNextInv
<1> QED
  BY <1>1, <1>2, PTL DEF WatchSpec

\* However polls, events, recoveries and requests interleave, an agent has at
\* most one recovery at work.
THEOREM RecoversOnce == WatchdogAssumption /\ WatchSpec => []OneRecovery
<1> SUFFICES ASSUME WatchdogAssumption PROVE WatchSpec => []OneRecovery
  OBVIOUS
<1>1. WatchInv => OneRecovery
  BY DEF WatchInv, AllSound, Sound, OneRecovery
<1>2. (WatchInit => WatchInv) /\ (WatchInv /\ [WatchNext]_watchVars => WatchInv')
  BY WatchInitInv, WatchNextInv
<1> QED
  BY <1>1, <1>2, PTL DEF WatchSpec

\* The row of an agent is what its monitor says, and "recovering" means that a
\* recovery is at work, as far as no request and no restart has interfered.
THEOREM HealthIsTold == WatchdogAssumption /\ WatchSpec => []HealthIsReal
<1> SUFFICES ASSUME WatchdogAssumption PROVE WatchSpec => []HealthIsReal
  OBVIOUS
<1>1. WatchInv => HealthIsReal
  BY DEF WatchInv, AllSound, Sound, Told, Fresh, HealthIsReal
<1>2. (WatchInit => WatchInv) /\ (WatchInv /\ [WatchNext]_watchVars => WatchInv')
  BY WatchInitInv, WatchNextInv
<1> QED
  BY <1>1, <1>2, PTL DEF WatchSpec

-----------------------------------------------------------------------------
(* Alerts.                                                                 *)

\* A manager that outlives the recovery; with one try, none is needed.
CountsFailures == SharedManager \/ MaxRetries = 1

\* The count is that of the row of failures, and the last one alerted.
Escalates == \A a \in Monitored : failures[a] = streak[a] /\ (streak[a] >= MaxRetries => alerted[a])

\* As long as failures are counted from one recovery to the next, max_retries of
\* them in a row raise an alert.
THEOREM FailuresAlert == WatchdogAssumption /\ CountsFailures => (WatchSpec => []AlertAfterRetries)
<1> SUFFICES ASSUME WatchdogAssumption, CountsFailures PROVE WatchSpec => []AlertAfterRetries
  OBVIOUS
<1>1. WatchInit => Escalates
  BY DEF WatchInit, Escalates, WatchdogAssumption
<1>2. WatchInv /\ Escalates /\ [WatchNext]_watchVars => Escalates'
  <2> SUFFICES ASSUME WatchInv, Escalates, [WatchNext]_watchVars PROVE Escalates'
    OBVIOUS
  <2>1. CASE UNCHANGED <<failures, streak, alerted>>
    BY <2>1 DEF Escalates
  <2>2. ASSUME NEW a \in Monitored, NEW i, RecoverySucceeds(a, i) PROVE Escalates'
    BY <2>2 DEF RecoverySucceeds, Escalates, WatchInv, WatchdogAssumption
  <2>3. ASSUME NEW a \in Monitored, NEW i, RecoveryFails(a, i) PROVE Escalates'
    <3>1. /\ failures[a] \in 0 .. MaxRetries /\ streak[a] = failures[a]
          /\ MaxRetries \in Nat \ {0}
      BY DEF WatchInv, Escalates, WatchdogAssumption
    <3>2. Counted(a) = failures[a] + 1 \/ (MaxRetries = 1 /\ Counted(a) = 1)
      BY DEF Counted, CountsFailures
    <3>3. failures'[a] = IF failures[a] < MaxRetries THEN failures[a] + 1 ELSE failures[a]
      <4>1. failures'[a] = IF Counted(a) < MaxRetries THEN Counted(a) ELSE MaxRetries
        BY <2>3 DEF RecoveryFails, WatchInv
      <4> QED
        BY <3>1, <3>2, <4>1
    <3>4. streak'[a] = failures'[a]
      BY <2>3, <3>1, <3>3 DEF RecoveryFails, WatchInv
    <3>5. streak'[a] >= MaxRetries => alerted'[a]
      <4>1. alerted'[a] = (alerted[a] \/ Counted(a) >= MaxRetries)
        BY <2>3 DEF RecoveryFails, WatchInv
      <4>2. failures[a] + 1 >= MaxRetries => Counted(a) >= MaxRetries
        BY <3>1, <3>2
      <4>3. streak'[a] >= MaxRetries => failures[a] + 1 >= MaxRetries
        BY <3>1, <3>3, <3>4
      <4> QED
        BY <4>1, <4>2, <4>3
    <3>6. \A b \in Monitored : b # a => failures'[b] = failures[b] /\ streak'[b] = streak[b] /\ alerted'[b] = alerted[b]
      BY <2>3 DEF RecoveryFails, WatchInv
    <3> QED
      BY <3>4, <3>5, <3>6 DEF Escalates
  <2>4. CASE Crash
    <3>1. \A a \in Monitored : failures'[a] = 0 /\ streak'[a] = 0
      BY <2>4 DEF Crash
    <3>2. ~ (0 >= MaxRetries)
      BY DEF WatchdogAssumption
    <3> QED
      BY <3>1, <3>2 DEF Escalates
  <2>5. ASSUME NEW a \in Monitored, Works(a) \/ Switches(a) \/ Hangs(a) \/ ApiRestart(a)
        PROVE  UNCHANGED <<failures, streak, alerted>>
    BY <2>5 DEF Works, Switches, Hangs, ApiRestart, book
  <2>6. ASSUME EventLost \/ Tick \/ HandleEvent \/ PollStarts \/ HerdrLists \/ ListFails \/ ReadReturns \/ ReadFails
        PROVE  UNCHANGED <<failures, streak, alerted>>
    BY <2>6 DEF EventLost, Tick, HandleEvent, PollStarts, HerdrLists, ListFails, ReadReturns, ReadFails, book
  <2>7. ASSUME NEW a \in Monitored, PollAgent(a) PROVE UNCHANGED <<failures, streak, alerted>>
    BY <2>7 DEF PollAgent, book
  <2>8. ASSUME NEW a \in Monitored, RecoverySteps(a) PROVE Escalates'
    <3>1. PICK i \in DOMAIN mon[a].rec :
              Interrupt(a, i) \/ Respawn(a, i) \/ Replay(a, i) \/ RecoverySucceeds(a, i) \/ RecoveryFails(a, i)
      BY <2>8 DEF RecoverySteps
    <3>2. CASE Interrupt(a, i) \/ Respawn(a, i) \/ Replay(a, i)
      BY <2>1, <3>2 DEF Interrupt, Respawn, Replay, book
    <3> QED
      BY <2>2, <2>3, <3>1, <3>2
  <2>9. CASE UNCHANGED watchVars
    BY <2>1, <2>9 DEF watchVars
  <2> QED
    BY <2>1, <2>4, <2>5, <2>6, <2>7, <2>8, <2>9 DEF WatchNext, PollSteps
<1>3. Escalates => AlertAfterRetries
  BY DEF Escalates, AlertAfterRetries
<1>4. (WatchInit => WatchInv) /\ (WatchInv /\ [WatchNext]_watchVars => WatchInv')
  BY WatchInitInv, WatchNextInv
<1> QED
  BY <1>1, <1>2, <1>3, <1>4, PTL DEF WatchSpec
=============================================================================
