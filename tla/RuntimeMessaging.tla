-------------------------- MODULE RuntimeMessaging --------------------------
(* Messages between agents of a squad (control-plane/messaging/service.py).  *)
(* One passes two access controls: that of the squad's canvas, which the    *)
(* control plane derives at every request (topology/mapper.py), and that of *)
(* HerdMaster's configuration, which can be reloaded; both are an AclEngine *)
(* (herdmaster/acl/engine.py).  The post to HerdMaster is awaited, so the   *)
(* canvas, the configuration and the bus may change under a request.        *)
EXTENDS Naturals, FiniteSets

CONSTANTS
    Names,          \* agents, on the canvas or not
    Patterns,       \* ids of canvas nodes, and what configurations name agents by
    MatchedBy,      \* [Patterns -> SUBSET Names]: the agents that fnmatch lets each match
    Sendings,       \* requests of POST /squads/{id}/messages
    Canvases,       \* canvases that clients and provisioning may save
    AclConfigs,     \* configurations that HerdMaster may load
    FirstConfig     \* the one it starts with

\* A node's id is any text, "*" and "team-?" too: neither the router nor the
\* mapper looks at it.
MessagingAssumption ==
    /\ MatchedBy \in [Patterns -> SUBSET Names]
    /\ \A c \in Canvases : c.nodes \subseteq Patterns /\ c.edges \subseteq Patterns \X Patterns

VARIABLES
    canvas,         \* topology_snapshots row of the squad
    hmacl,          \* HerdMaster: the configuration in force
    bus,            \* message_bus of the control plane, as last probed
    sending_to,     \* each request: its agents, and the canvas it has read
    delivered,      \* messages on HerdMaster's bus
    audited         \* audit rows

rmVars == <<canvas, hmacl, bus, sending_to, delivered, audited>>

NoCanvas == [nodes |-> {}, workers |-> {}, edges |-> {}]
NotSent == [at |-> "new", from |-> "", to |-> "", seen |-> NoCanvas]

(* ---- AclEngine: roles with patterns ----------------------------------- *)
Matches(pattern, a) == a \in MatchedBy[pattern]
RolesOf(config, a) == {r \in config.roles : \E p \in r.agents : Matches(p, a)}

SendAllowed_Unroled(config, a, b) ==
    \/ \E r \in RolesOf(config, a) : \E p \in r.sends : Matches(p, b)
    \/ \E r \in RolesOf(config, b) : \E p \in r.receives : Matches(p, a)
    \/ config.default = "allow"
\* A sender without a role is refused, also where the policy is to allow.
SendAllowed(config, a, b) ==
    /\ RolesOf(config, a) # {}
    /\ \/ \E r \in RolesOf(config, a) : \E p \in r.sends : Matches(p, b)
       \/ \E r \in RolesOf(config, b) : \E p \in r.receives : Matches(p, a)
       \/ config.default = "allow"

(* ---- TopologyMapper: a role for each node, from the edges ------------- *)
Reachable(c) ==
    Cardinality(c.nodes) > 1 => c.workers \subseteq {e[1] : e \in c.edges} \cup {e[2] : e \in c.edges}
MapToAcl(c) ==
    [default |-> "deny",
     roles |-> {[agents |-> {n}, sends |-> {e[2] : e \in {x \in c.edges : x[1] = n}},
                 receives |-> {e[1] : e \in {x \in c.edges : x[2] = n}}] : n \in c.nodes}]

Init ==
    /\ canvas = NoCanvas
    /\ hmacl = FirstConfig
    /\ bus = "down"
    /\ sending_to = [m \in Sendings |-> NotSent]
    /\ delivered = {} /\ audited = {}

\* POST topology refuses edges between nodes that are not there and workers
\* without an edge; the provisioning step saves whatever it was given.
SaveTopology == \E c \in Canvases :
    /\ c.edges \subseteq c.nodes \X c.nodes /\ Reachable(c)
    /\ canvas' = c
    /\ UNCHANGED <<hmacl, bus, sending_to, delivered, audited>>
ProvisionTopology == \E c \in Canvases :
    canvas' = c /\ UNCHANGED <<hmacl, bus, sending_to, delivered, audited>>

\* POST /reload swaps the rules in one assignment; it deletes no message.
ReloadConfig == \E c \in AclConfigs :
    hmacl' = c /\ UNCHANGED <<canvas, bus, sending_to, delivered, audited>>

\* Every health check of the API replaces the bus by what it finds.
RefreshMessageBus == \E b \in {"up", "down"} :
    bus' = b /\ UNCHANGED <<canvas, hmacl, sending_to, delivered, audited>>

(* ---- route_runtime_message -------------------------------------------- *)
\* The audit row of a request; the write may fail, and the request with it.
Audit(m, allowed) == audited' \in {audited, audited \cup {[message |-> m, allowed |-> allowed]}}
Goes(m, at, a, b) == sending_to' = [sending_to EXCEPT ![m] = [at |-> at, from |-> a, to |-> b, seen |-> canvas]]

\* A saved canvas that cannot be mapped fails the request without an audit row.
Unmappable(m, a, b) ==
    /\ sending_to[m].at = "new" /\ ~Reachable(canvas)
    /\ Goes(m, "failed", a, b)
    /\ UNCHANGED <<canvas, hmacl, bus, delivered, audited>>

Denied(m, a, b) ==
    /\ sending_to[m].at = "new" /\ Reachable(canvas)
    /\ ~SendAllowed(MapToAcl(canvas), a, b)
    /\ Goes(m, "denied", a, b)
    /\ Audit(m, FALSE)
    /\ UNCHANGED <<canvas, hmacl, bus, delivered>>

NoBus(m, a, b) ==
    /\ sending_to[m].at = "new" /\ Reachable(canvas)
    /\ SendAllowed(MapToAcl(canvas), a, b) /\ bus = "down"
    /\ Goes(m, "unavailable", a, b)
    /\ Audit(m, FALSE)
    /\ UNCHANGED <<canvas, hmacl, bus, delivered>>

Post(m, a, b) ==
    /\ sending_to[m].at = "new" /\ Reachable(canvas)
    /\ SendAllowed(MapToAcl(canvas), a, b) /\ bus = "up"
    /\ Goes(m, "posted", a, b)
    /\ UNCHANGED <<canvas, hmacl, bus, delivered, audited>>

\* HerdMaster's _send_message: its own check, then its bus; 403 otherwise.
HerdMasterReceives(m) ==
    /\ sending_to[m].at = "posted"
    /\ LET s == sending_to[m] IN
         IF SendAllowed(hmacl, s.from, s.to)
         THEN /\ delivered' = delivered \cup {m}
              /\ sending_to' = [sending_to EXCEPT ![m].at = "accepted"]
         ELSE /\ sending_to' = [sending_to EXCEPT ![m].at = "refused"]
              /\ UNCHANGED delivered
    /\ UNCHANGED <<canvas, hmacl, bus, audited>>

Accepted(m) ==
    /\ sending_to[m].at = "accepted"
    /\ sending_to' = [sending_to EXCEPT ![m].at = "routed"]
    /\ Audit(m, TRUE)
    /\ UNCHANGED <<canvas, hmacl, bus, delivered>>

\* Refused, unreachable, or no answer in ten seconds, which says nothing of
\* what HerdMaster did or will do; the row says "blocked".
DeliveryUnavailable(m) ==
    /\ \/ /\ sending_to[m].at \in {"accepted", "refused"}
          /\ sending_to' = [sending_to EXCEPT ![m].at = "unavailable"]
       \/ /\ sending_to[m].at = "posted"
          /\ sending_to' = [sending_to EXCEPT ![m].at = "lost"]
    /\ Audit(m, FALSE)
    /\ UNCHANGED <<canvas, hmacl, bus, delivered>>

ReceivedLate(m) ==
    /\ sending_to[m].at = "lost" /\ SendAllowed(hmacl, sending_to[m].from, sending_to[m].to)
    /\ delivered' = delivered \cup {m}
    /\ sending_to' = [sending_to EXCEPT ![m].at = "unavailable"]
    /\ UNCHANGED <<canvas, hmacl, bus, audited>>

Next ==
    \/ SaveTopology \/ ProvisionTopology \/ ReloadConfig \/ RefreshMessageBus
    \/ \E m \in Sendings :
         \/ \E a \in Names : \E b \in Names \ {a} :
              Unmappable(m, a, b) \/ Denied(m, a, b) \/ NoBus(m, a, b) \/ Post(m, a, b)
         \/ HerdMasterReceives(m) \/ Accepted(m) \/ DeliveryUnavailable(m) \/ ReceivedLate(m)
Spec == Init /\ [][Next]_rmVars

(* ---- Properties ------------------------------------------------------- *)
TypeOK ==
    /\ bus \in {"up", "down"} /\ delivered \subseteq Sendings
    /\ \A m \in Sendings : sending_to[m].at \in {"new", "failed", "denied", "posted", "accepted",
                              "refused", "lost", "routed", "unavailable"}

Drawn(c, a, b) ==
    /\ \E n \in c.nodes : Matches(n, a)
    /\ \E e \in c.edges : Matches(e[1], a) /\ Matches(e[2], b)

\* service.py:133, mapper.py:49: a message that reaches the bus follows an edge
\* of the canvas its request has read, drawn between nodes whose ids match its
\* agents, whatever was saved since; a row that allows one stands for a delivery; a
\* message has one row at most, and no row that denies it by the canvas is
\* followed by a delivery.  A row of "blocked" may stand for a message whose
\* answer was lost, so the converse does not hold.
AuditTells ==
    /\ \A m \in delivered : LET s == sending_to[m] IN Drawn(s.seen, s.from, s.to)
    /\ \A row \in audited : row.allowed => row.message \in delivered
    /\ \A m \in Sendings : Cardinality({row \in audited : row.message = m}) <= 1
    /\ \A m \in Sendings : sending_to[m].at = "denied" => m \notin delivered
=============================================================================
