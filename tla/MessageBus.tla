----------------------------- MODULE MessageBus -----------------------------
(***************************************************************************)
(* The Unix-socket message bus of HerdMaster: MessageBusServer             *)
(* (bus/server.py) with the audit rows of MessageRepo.                     *)
(*                                                                         *)
(* One asyncio process: a handler per connection, a pump per registered    *)
(* connection, the TTL sweep.  Code between two awaits is one action; the  *)
(* server's lock is never held over an await, so it orders nothing more.   *)
(* A connection registers once.  Messages are numbered as they are sent.   *)
(***************************************************************************)
EXTENDS Naturals, FiniteSets, Sequences, SequencesExt

CONSTANTS
    Agents, Conns, None,
    Owner,       \* [Conns -> Agents], agent_id of its register frame
    NumMessages, \* bound on the messages sent
    Target,      \* [1 .. NumMessages -> Agents \cup {"broadcast", "group"}], field "to"
    MaxQueue,    \* max_queue_size
    ClientsLeave,\* whether clients may close their connection
    Unsaved,     \* messages whose insert may fail
    ShortLived   \* messages that may outlive their TTL

Messages == 1 .. NumMessages
Targets == Agents \cup {"broadcast", "group"}

ASSUME BusAssumption ==
    /\ None \notin Conns /\ None \notin Messages
    /\ Owner \in [Conns -> Agents]
    /\ NumMessages \in Nat /\ Target \in [Messages -> Targets]
    /\ MaxQueue \in Nat \ {0}
    /\ ClientsLeave \in BOOLEAN
    /\ Unsaved \subseteq Messages /\ ShortLived \subseteq Messages

VARIABLES
    conn,    \* state of each connection
    queues,  \* _queues: the connection whose register made the agent's queue
    queue,   \* contents of the queue made by each connection
    members, \* _group_members of the one group
    pump,    \* _pump_to_subscriber of each connection
    source,  \* connection whose queue the pump reads
    held,    \* message the pump has taken and not finished with
    sent,    \* number of messages sent so far
    row,     \* audit row of each message
    expired, \* messages whose TTL has passed
    routed,  \* history: messages that were put into each queue
    written  \* history: messages written to each connection
vars == <<conn, queues, queue, members, pump, source, held, sent, row, expired, routed, written>>

\* "gone": the client has left and the handler has not seen the end of file.
ConnStates == {"new", "open", "gone", "closed"}
PumpStates == {"none", "starting", "waiting", "draining", "over"}
Rows == {"absent", "undelivered", "delivered", "swept"}

Init ==
    /\ conn = [c \in Conns |-> "new"]
    /\ queues = [a \in Agents |-> None]
    /\ queue = [c \in Conns |-> <<>>]
    /\ members = {}
    /\ pump = [c \in Conns |-> "none"]
    /\ source = [c \in Conns |-> None]
    /\ held = [c \in Conns |-> None]
    /\ sent = 0
    /\ row = [m \in Messages |-> "absent"]
    /\ expired = {}
    /\ routed = [c \in Conns |-> {}]
    /\ written = [c \in Conns |-> <<>>]

-----------------------------------------------------------------------------
(* Connections.                                                            *)

\* The register frame: a new queue takes the place of the agent's old one.
Register(c) ==
    /\ conn[c] = "new"
    /\ conn' = [conn EXCEPT ![c] = "open"]
    /\ queues' = [queues EXCEPT ![Owner[c]] = c]
    /\ pump' = [pump EXCEPT ![c] = "starting"]
    /\ UNCHANGED <<queue, members, source, held, sent, row, expired, routed, written>>

ClientLeaves(c) ==
    /\ ClientsLeave /\ conn[c] = "open"
    /\ conn' = [conn EXCEPT ![c] = "gone"]
    /\ UNCHANGED <<queues, queue, members, pump, source, held, sent, row, expired, routed, written>>

\* The end of a handler removes the agent's queue, whoever registered it.
HandlerEnds(c) ==
    /\ conn[c] = "gone"
    /\ conn' = [conn EXCEPT ![c] = "closed"]
    /\ queues' = [queues EXCEPT ![Owner[c]] = None]
    /\ UNCHANGED <<queue, members, pump, source, held, sent, row, expired, routed, written>>

SubscribeToGroup(a) ==
    /\ a \notin members
    /\ members' = members \cup {a}
    /\ UNCHANGED <<conn, queues, queue, pump, source, held, sent, row, expired, routed, written>>

UnsubscribeFromGroup(a) ==
    /\ a \in members
    /\ members' = members \ {a}
    /\ UNCHANGED <<conn, queues, queue, pump, source, held, sent, row, expired, routed, written>>

-----------------------------------------------------------------------------
(* Sending.                                                                *)

\* Mutant: a full queue refuses the new message.
Offer_DropNew(q, m) == IF Len(q) >= MaxQueue THEN q ELSE Append(q, m)
\* Mutant: the newest message goes first.
Offer_Front(q, m) == <<m>> \o q
\* Mutant: the bound of the queue is not applied.
Offer_Unbounded(q, m) == Append(q, m)
\* Backpressure: a full queue loses its oldest message.
Offer(q, m) == Append(IF Len(q) >= MaxQueue THEN Tail(q) ELSE q, m)

\* The agents a message is addressed to.
Addressees(m) ==
    CASE Target[m] = "broadcast" -> Agents
      [] Target[m] = "group" -> members
      [] OTHER -> {Target[m]}

\* Mutant: every queue ever registered is a subscriber.
Receivers_All(m) == {c \in Conns : conn[c] # "new" /\ Owner[c] \in Addressees(m)}
\* The queues of _unicast, _broadcast or _multicast.
Receivers(m) == {queues[a] : a \in Addressees(m)} \ {None}

\* send(), or a frame that a handler reads: persist, then route unless expired.
Send ==
    /\ sent < NumMessages
    /\ sent' = sent + 1
    /\ \E persisted, stale \in BOOLEAN :
         /\ ~ persisted => sent' \in Unsaved
         /\ stale => sent' \in ShortLived
         /\ row' = IF persisted THEN [row EXCEPT ![sent'] = "undelivered"] ELSE row
         /\ expired' = IF stale THEN expired \cup {sent'} ELSE expired
         /\ LET to == IF stale THEN {} ELSE Receivers(sent') IN
            /\ queue' = [c \in Conns |-> IF c \in to THEN Offer(queue[c], sent') ELSE queue[c]]
            /\ routed' = [c \in Conns |-> IF c \in to THEN routed[c] \cup {sent'} ELSE routed[c]]
    /\ UNCHANGED <<conn, queues, members, pump, source, held, written>>

-----------------------------------------------------------------------------
(* Pumps.                                                                  *)

\* The first step of the task: it looks the agent's queue up by name.
PumpStarts(c) ==
    /\ pump[c] = "starting"
    /\ source' = [source EXCEPT ![c] = queues[Owner[c]]]
    /\ pump' = [pump EXCEPT ![c] =
         IF queues[Owner[c]] = None \/ conn[c] = "closed" THEN "over" ELSE "waiting"]
    /\ UNCHANGED <<conn, queues, queue, members, held, sent, row, expired, routed, written>>

\* Take a message and write it, or lose it on a closed connection.
PumpWrites(c) ==
    /\ pump[c] = "waiting" /\ queue[source[c]] # <<>>
    /\ LET m == Head(queue[source[c]]) IN
       /\ queue' = [queue EXCEPT ![source[c]] = Tail(@)]
       /\ IF conn[c] = "closed"
          THEN /\ pump' = [pump EXCEPT ![c] = "over"]
               /\ UNCHANGED <<held, written>>
          ELSE /\ pump' = [pump EXCEPT ![c] = "draining"]
               /\ held' = [held EXCEPT ![c] = m]
               /\ written' = [written EXCEPT ![c] = Append(@, m)]
    /\ UNCHANGED <<conn, queues, members, source, sent, row, expired, routed>>

\* drain() raises only if the client has left.
MayFail(c) == conn[c] # "open"

\* Mutant: a failed write ends the pump's loop.
AfterDrain_Over(c) == "over"
AfterDrain(c) == IF conn[c] = "closed" THEN "over" ELSE "waiting"

\* Mutant: rows are marked with the next message's id.
MarkDelivered_Next(m) == [k \in Messages |-> IF k = m + 1 /\ row[k] = "undelivered" THEN "delivered" ELSE row[k]]
\* mark_delivered: no row, no update.
MarkDelivered(m) == [k \in Messages |-> IF k = m /\ row[k] = "undelivered" THEN "delivered" ELSE row[k]]

\* drain() returns or raises; the loop goes on while the connection is open.
PumpDrained(c) ==
    /\ pump[c] = "draining"
    /\ \E ok \in BOOLEAN :
         /\ ~ ok => MayFail(c)
         /\ row' = IF ok THEN MarkDelivered(held[c]) ELSE row
    /\ held' = [held EXCEPT ![c] = None]
    /\ pump' = [pump EXCEPT ![c] = AfterDrain(c)]
    /\ UNCHANGED <<conn, queues, queue, members, source, sent, expired, routed, written>>

\* The wait for a message times out and the connection has closed.
PumpEnds(c) ==
    /\ pump[c] = "waiting" /\ conn[c] = "closed" /\ queue[source[c]] = <<>>
    /\ pump' = [pump EXCEPT ![c] = "over"]
    /\ UNCHANGED <<conn, queues, queue, members, source, held, sent, row, expired, routed, written>>

-----------------------------------------------------------------------------
(* TTL.                                                                    *)

TtlPasses(m) ==
    /\ m \in ShortLived /\ m <= sent /\ m \notin expired
    /\ expired' = expired \cup {m}
    /\ UNCHANGED <<conn, queues, queue, members, pump, source, held, sent, row, routed, written>>

\* expire(): the undelivered rows whose TTL has passed.
Swept == {m \in expired : row[m] = "undelivered"}

\* A round of the sweep loop that finds something.
Sweep ==
    /\ Swept # {}
    /\ row' = [m \in Messages |-> IF m \in Swept THEN "swept" ELSE row[m]]
    /\ UNCHANGED <<conn, queues, queue, members, pump, source, held, sent, expired, routed, written>>

PumpSteps(c) == PumpStarts(c) \/ PumpWrites(c) \/ PumpDrained(c) \/ PumpEnds(c)

Next ==
    \/ \E c \in Conns : Register(c) \/ ClientLeaves(c) \/ HandlerEnds(c) \/ PumpSteps(c)
    \/ \E a \in Agents : SubscribeToGroup(a) \/ UnsubscribeFromGroup(a)
    \/ Send
    \/ \E m \in Messages : TtlPasses(m)
    \/ Sweep

Spec == Init /\ [][Next]_vars

\* The event loop runs every ready pump.  The drain of a client that stays ends
\* when the client reads, which nothing makes it do: only one that may fail is fair.
PumpReady(c) == PumpStarts(c) \/ PumpWrites(c) \/ PumpEnds(c) \/ (MayFail(c) /\ PumpDrained(c))
FairSpec == Spec /\ \A c \in Conns : WF_vars(PumpReady(c))

-----------------------------------------------------------------------------
(* Properties.                                                             *)

\* Every variable has its type and no queue exceeds max_queue_size.
TypeOK ==
    /\ conn \in [Conns -> ConnStates]
    /\ queues \in [Agents -> Conns \cup {None}]
    /\ queue \in [Conns -> Seq(Messages)] /\ \A c \in Conns : Len(queue[c]) <= MaxQueue
    /\ members \subseteq Agents
    /\ pump \in [Conns -> PumpStates]
    /\ source \in [Conns -> Conns \cup {None}]
    /\ held \in [Conns -> Messages \cup {None}]
    /\ sent \in 0 .. NumMessages
    /\ row \in [Messages -> Rows]
    /\ expired \subseteq Messages
    /\ routed \in [Conns -> SUBSET Messages]
    /\ written \in [Conns -> Seq(Messages)]

WrittenTo(a) == UNION {ToSet(written[c]) : c \in {d \in Conns : Owner[d] = a}}

\* Whatever connections come and go, a connection gets its messages in the
\* order they were sent, and no agent gets a message twice, over one connection
\* or two (bus/server.py:345-370).
InOrderOnce ==
    \A c, d \in Conns : \A i \in 1 .. Len(written[c]), j \in 1 .. Len(written[d]) :
        /\ c = d /\ i < j => written[c][i] < written[c][j]
        /\ Owner[c] = Owner[d] /\ written[c][i] = written[d][j] => c = d /\ i = j

\* A row says delivered only of a message that was written to a client it is
\* addressed to (TECHNICAL_DESIGN.md:99).
DeliveredWasWritten ==
    \A m \in Messages : row[m] = "delivered" =>
        \E a \in Agents : m \in WrittenTo(a) /\ (Target[m] \in Agents => a = Target[m])

\* An agent whose clients all stay misses a message of its queue only if
\* max_queue_size later ones have pushed it out (bus/server.py:408), and no queue
\* is longer than that.
OnlyOldestDropped ==
    /\ \A c \in Conns : Len(queue[c]) <= MaxQueue
    /\ \A c \in Conns : (\A d \in Conns : Owner[d] = Owner[c] => conn[d] \in {"new", "open"}) =>
        \A m \in routed[c] :
            \/ m \in ToSet(queue[c]) \/ m \in WrittenTo(Owner[c])
            \/ Cardinality({k \in routed[c] : k > m}) >= MaxQueue

\* The agent's only connection so far.
Alone(c) == conn[c] = "open" /\ \A d \in Conns \ {c} : Owner[d] = Owner[c] => conn[d] = "new"

\* The client never reads again: the pump waits in drain() for ever.
NeverReads(c) == [](pump[c] = "draining")

\* A message in the queue of a client that stays, and that is its agent's only
\* one, does not wait for ever, unless the client stops reading: nothing but a
\* drain() that does not return keeps the pump from its queue (bus/server.py:345-370).
QueueDrains ==
    \A c \in Conns : \A m \in Messages :
        m \in ToSet(queue[c]) /\ Alone(c) ~> m \notin ToSet(queue[c]) \/ ~ Alone(c) \/ NeverReads(c)

-----------------------------------------------------------------------------
(* A small instance: all connections are of one agent, and unicast,        *)
(* broadcast and group messages take turns.                                *)
OneOwner == [c \in Conns |-> CHOOSE a \in Agents : TRUE]
MixedTargets ==
    [m \in Messages |-> CASE m = 2 -> "broadcast" [] m = 3 -> "group" [] OTHER -> CHOOSE a \in Agents : TRUE]
=============================================================================
