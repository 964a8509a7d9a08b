-------------------------- MODULE ConnectionManager -------------------------
(* Websocket fan-out: ConnectionManager (app/websocket/manager.py).  All of *)
(* it runs on the event loop; a push awaits every send, so sockets connect, *)
(* subscribe and leave in the middle of one, and a socket whose send raised *)
(* is evicted at the end of the push, with its endpoint still reading.      *)
EXTENDS Naturals, FiniteSets

CONSTANTS
    Sockets,
    Owners,         \* each socket's user and tenant: [Sockets -> a name]
    Rooms,
    Pushes,         \* pushes that may overlap
    MaxPushes       \* bound: pushes begun

VARIABLES
    link,       \* where each socket's endpoint is
    active,     \* active_connections: the rooms of each connected socket
    tenants,    \* tenants (users is filled and emptied alike): owner -> sockets
    rooms,      \* rooms: room -> sockets
    push,       \* pushes under way: sockets still to be sent to, and dead ones
    pushes      \* pushes begun so far (bound)

wsVars == <<link, active, tenants, rooms, push, pushes>>

NoPush == [running |-> FALSE, left |-> {}, dead |-> {}]
OwnerNames == {Owners[w] : w \in Sockets}
Connected == DOMAIN active

Init == /\ link = [w \in Sockets |-> "new"]
        /\ active = [w \in {} |-> {}]
        /\ tenants = [o \in OwnerNames |-> {}]
        /\ rooms = [r \in Rooms |-> {}]
        /\ push = [p \in Pushes |-> NoPush]
        /\ pushes = 0

Connect(w) ==
    /\ link[w] = "new"
    /\ link' = [link EXCEPT ![w] = "open"]
    /\ active' = [x \in Connected \cup {w} |-> IF x = w THEN {} ELSE active[x]]
    /\ tenants' = [tenants EXCEPT ![Owners[w]] = @ \cup {w}]
    /\ UNCHANGED <<rooms, push, pushes>>

\* disconnect returns at once for a socket it does not know.
Disconnected(gone) ==
    /\ active' = [x \in Connected \ gone |-> active[x]]
    /\ tenants' = [o \in OwnerNames |-> tenants[o] \ {w \in gone \cap Connected : Owners[w] = o}]
    /\ rooms' = [r \in Rooms |-> rooms[r] \ {w \in gone \cap Connected : r \in active[w]}]

\* The client leaves: receive_text raises and the endpoint disconnects.
Leave(w) ==
    /\ link[w] = "open"
    /\ link' = [link EXCEPT ![w] = "closed"]
    /\ Disconnected({w})
    /\ UNCHANGED <<push, pushes>>

\* An evicted socket may still send a command; subscribe ignores it.
Subscriber_Any(w) == link[w] = "open"
Subscriber(w) == link[w] = "open" /\ w \in Connected

Subscribe(w, r) ==
    /\ Subscriber(w)
    /\ rooms' = [rooms EXCEPT ![r] = @ \cup {w}]
    /\ active' = [x \in Connected |-> IF x = w THEN active[x] \cup {r} ELSE active[x]]
    /\ UNCHANGED <<link, tenants, push, pushes>>

Unsubscribe(w, r) ==
    /\ link[w] = "open"
    /\ active' = [x \in Connected |-> IF x = w THEN active[x] \ {r} ELSE active[x]]
    /\ rooms' = [rooms EXCEPT ![r] = @ \ {w}]
    /\ UNCHANGED <<link, tenants, push, pushes>>

\* broadcast, send_to_tenant and send_to_user: a copy of the targets is taken.
BeginPush(p, targets) ==
    /\ ~push[p].running /\ pushes < MaxPushes
    /\ push' = [push EXCEPT ![p] = [running |-> TRUE, left |-> targets, dead |-> {}]]
    /\ pushes' = pushes + 1
    /\ UNCHANGED <<link, active, tenants, rooms>>

\* A send may raise on a closed socket and on one that merely stalls.
SendText(p, w) ==
    /\ w \in push[p].left
    /\ \/ link[w] = "open" /\ push' = [push EXCEPT ![p].left = @ \ {w}]
       \/ push' = [push EXCEPT ![p].left = @ \ {w}, ![p].dead = @ \cup {w}]
    /\ UNCHANGED <<link, active, tenants, rooms, pushes>>

EndPush(p) ==
    /\ push[p].running /\ push[p].left = {}
    /\ push' = [push EXCEPT ![p] = NoPush]
    /\ Disconnected(push[p].dead)
    /\ UNCHANGED <<link, pushes>>

Runs == \E p \in Pushes : EndPush(p) \/ \E w \in Sockets : SendText(p, w)
Next == \/ Runs
        \/ \E w \in Sockets : \/ Connect(w) \/ Leave(w)
                              \/ \E r \in Rooms : Subscribe(w, r) \/ Unsubscribe(w, r)
        \/ \E p \in Pushes : \/ BeginPush(p, Connected)
                             \/ \E r \in Rooms : BeginPush(p, rooms[r])
                             \/ \E o \in OwnerNames : tenants[o] # {} /\ BeginPush(p, tenants[o])

Fairness == WF_wsVars(Runs)
Spec == Init /\ [][Next]_wsVars /\ Fairness

TypeOK ==
    /\ link \in [Sockets -> {"new", "open", "closed"}]
    /\ Connected \subseteq Sockets
    /\ \A p \in Pushes : push[p].left \subseteq Sockets /\ push[p].dead \subseteq Sockets

(* The table of connections and the indexes beside it agree whatever        *)
(* overlaps: a room or a tenant reaches exactly the connected sockets that  *)
(* joined it, and one that left or was evicted is in none, so that nothing  *)
(* can be pushed to it for ever (manager.py:56, 85).                        *)
IndexesAgree ==
    /\ \A r \in Rooms : rooms[r] = {w \in Connected : r \in active[w]}
    /\ \A o \in OwnerNames : tenants[o] = {w \in Connected : Owners[w] = o}
    /\ \A w \in Connected : link[w] = "open"

\* A push is to come to its end, whoever leaves or stalls meanwhile.
UnderWay(p) == push[p].running
=============================================================================
