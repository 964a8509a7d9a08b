----------------------------- MODULE AlertFeed ------------------------------
(* The alerts that the dashboard of HerdMaster shows (tui/dashboard.py): a   *)
(* daemon thread subscribes to the bus, the render loop reads the persisted *)
(* messages, and both put what they find into one store of a fixed size.    *)
(* The thread gives its subscription up after a second without a message,   *)
(* and the server (bus/server.py) forgets the agent when it notices.        *)
EXTENDS Naturals, FiniteSets, SequencesExt

CONSTANTS
    StoreSize,      \* max_alerts
    MaxAlerts,      \* bound: alerts published
    MaxSessions     \* bound: connections

VARIABLES
    published,      \* alerts are numbered as they are published
    saved,          \* those in the table of messages
    routing,        \* the alert being routed, or 0
    session,        \* the number of the current connection
    client,         \* its end in the dashboard
    registry,       \* the connection whose queue the server uses, or 0
    closing,        \* connections that the server has not yet found closed
    wire,           \* what the current connection still has to deliver
    store,          \* the collector
    heard,          \* alerts that have come over the bus
    poll            \* the render loop: what it has listed and still to add

feedVars == <<published, saved, routing, session, client, registry, closing, wire, store, heard, poll>>

Ids(s) == {s[i].id : i \in DOMAIN s}
Init ==
    /\ published = 0 /\ saved = {} /\ routing = 0
    /\ session = 0 /\ client = "down" /\ registry = 0 /\ closing = {} /\ wire = <<>>
    /\ store = <<>> /\ heard = {}
    /\ poll = [at |-> "idle", listed |-> {}, todo |-> <<>>, disturbed |-> FALSE]

(* ---- AlertCollector --------------------------------------------------- *)
WasLive_Fresh(a) == FALSE
WasLive(a) == \E i \in DOMAIN store : store[i].id = a /\ store[i].live
Newest(s) == SubSeq(s, Len(s) - (IF Len(s) > StoreSize THEN StoreSize ELSE Len(s)) + 1, Len(s))
\* A known alert moves to the end; the first ones go when there are too many.
Stored(a, live) ==
    LET Other(e) == e.id # a IN
    Newest(Append(SelectSeq(store, Other), [id |-> a, live |-> live \/ WasLive(a)]))

(* ---- The bus ---------------------------------------------------------- *)
\* Persisted, or not when the insert fails; then routed.
Publish ==
    /\ routing = 0 /\ published < MaxAlerts
    /\ published' = published + 1 /\ routing' = published + 1
    /\ saved' \in {saved, saved \cup {published + 1}}
    /\ UNCHANGED <<session, client, registry, closing, wire, store, heard, poll>>

\* To the queue that is registered; the pump of a lost connection keeps its own.
Route ==
    /\ routing # 0 /\ routing' = 0
    /\ wire' = IF registry = session /\ client = "up" THEN Append(wire, routing) ELSE wire
    /\ UNCHANGED <<published, saved, session, client, registry, closing, store, heard, poll>>

\* expire(): what was not delivered and is too old.
Expire(a) ==
    /\ a \in saved \ heard /\ saved' = saved \ {a}
    /\ UNCHANGED <<published, routing, session, client, registry, closing, wire, store, heard, poll>>

(* ---- BusSubscriber and its connections -------------------------------- *)
Connect ==
    /\ client = "down" /\ session < MaxSessions
    /\ session' = session + 1 /\ client' = "up" /\ wire' = <<>>
    /\ UNCHANGED <<published, saved, routing, registry, closing, store, heard, poll>>

Register ==
    /\ client = "up" /\ registry # session /\ session \notin closing
    /\ registry' = session
    /\ UNCHANGED <<published, saved, routing, session, client, closing, wire, store, heard, poll>>

Receive ==
    /\ client = "up" /\ wire # <<>>
    /\ store' = Stored(Head(wire), TRUE)
    /\ heard' = heard \cup {Head(wire)} /\ wire' = Tail(wire)
    /\ poll' = [poll EXCEPT !.disturbed = TRUE]
    /\ UNCHANGED <<published, saved, routing, session, client, registry, closing>>

\* No message for a second, a broken or an unreadable one, or a server that stops.
SessionEnds ==
    /\ client = "up" /\ client' = "down"
    /\ closing' = closing \cup {session} /\ wire' = <<>>
    /\ UNCHANGED <<published, saved, routing, session, registry, store, heard, poll>>

\* The server drops the agent, even if a newer connection has registered it.
Unregister(s) ==
    /\ s \in closing /\ closing' = closing \ {s}
    /\ registry' = 0
    /\ UNCHANGED <<published, saved, routing, session, client, wire, store, heard, poll>>

(* ---- build_snapshot --------------------------------------------------- *)
\* A list that fails is an empty one.
PollBegins ==
    /\ poll.at # "adding"
    /\ \E listed \in {saved, {}} :
         poll' = [at |-> "adding", listed |-> listed, todo |-> SetToSortSeq(listed, LAMBDA a, b : a < b),
                  disturbed |-> FALSE]
    /\ UNCHANGED <<published, saved, routing, session, client, registry, closing, wire, store, heard>>

AddDbRow ==
    /\ poll.at = "adding" /\ poll.todo # <<>>
    /\ store' = Stored(Head(poll.todo), FALSE)
    /\ poll' = [poll EXCEPT !.todo = Tail(@)]
    /\ UNCHANGED <<published, saved, routing, session, client, registry, closing, wire, heard>>

PollShows ==
    /\ poll.at = "adding" /\ poll.todo = <<>>
    /\ poll' = [poll EXCEPT !.at = "shown"]
    /\ UNCHANGED <<published, saved, routing, session, client, registry, closing, wire, store, heard>>

Next ==
    \/ Publish \/ Route \/ (\E a \in 1..MaxAlerts : Expire(a))
    \/ Connect \/ Register \/ Receive \/ SessionEnds
    \/ (\E s \in 1..MaxSessions : Unregister(s))
    \/ PollBegins \/ AddDbRow \/ PollShows
Spec == Init /\ [][Next]_feedVars

(* ---- Properties ------------------------------------------------------- *)
TypeOK ==
    /\ saved \subseteq 1..published /\ routing \in 0..published
    /\ client \in {"down", "up"} /\ registry \in 0..session /\ closing \subseteq 1..session
    /\ Len(store) <= StoreSize /\ poll.at \in {"idle", "adding", "shown"}

\* dashboard.py:241-298, 495-498: no alert is shown twice; what a poll that no
\* message has disturbed has shown holds the newest that were in the table; and
\* as long as all alerts fit in the store, one is marked live exactly if it has
\* come over the bus, and none that has is lost.  (When they do not fit, each
\* poll evicts and adds all of them again, and no mark survives it.)
NewestOf(s) == {a \in s : Cardinality({b \in s : b > a}) < StoreSize}
FeedTells ==
    /\ Cardinality(Ids(store)) = Len(store)
    /\ poll.at = "shown" /\ ~poll.disturbed => NewestOf(poll.listed) \subseteq Ids(store)
    /\ published <= StoreSize =>
         /\ heard \subseteq Ids(store)
         /\ \A i \in DOMAIN store : store[i].live <=> store[i].id \in heard
=============================================================================
