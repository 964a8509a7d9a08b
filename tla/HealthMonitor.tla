---------------------------- MODULE HealthMonitor ---------------------------
(* Health of the topology's components: HealthMonitor                       *)
(* (app/topology/health_monitor.py).  A sweep probes every component        *)
(* concurrently, then goes through the results in order.  At the first      *)
(* transition it calls broadcast with an argument that broadcast does not   *)
(* have (payload, websocket/manager.py:100 names it message): the sweep     *)
(* ends there with a TypeError, its remaining results unread.  A sweep that *)
(* finds a cascade awaits the alert's broadcast before it prunes the        *)
(* history.  Sweeps are background tasks of POST /sweep and may overlap.    *)
EXTENDS Naturals, Sequences, FiniteSetsExt

CONSTANTS
    Tracked,        \* components, in the order they were registered
    Sweeps,         \* sweeps that may overlap
    CascadeSize,    \* components down at once that make a cascade
    Lifetime,       \* ticks a failure is remembered
    MaxClock        \* bound: last tick of the clock

MonitorAssumption ==
    /\ Tracked \in Seq(Range(Tracked))
    /\ CascadeSize \in Nat \ {0} /\ Lifetime \in Nat \ {0}

VARIABLES
    clock,
    health,     \* what a probe of each component finds now
    known,      \* state: the status the monitor shows
    sweep,      \* sweeps under way: the results they hold, the history they have pruned
    failures,   \* failure_history
    alert,      \* whether a CRITICAL_CASCADE alert was raised
    settled     \* sweeps done since a result changed (no field of the code)

healthVars == <<clock, health, known, sweep, failures, alert, settled>>

Components == Range(Tracked)
Statuses == {"UP", "DEGRADED", "DOWN"}
NoSweep == [at |-> "none", seen |-> <<>>, pruned |-> {}]

Init == /\ clock = 0
        /\ health = [c \in Components |-> "UP"]
        /\ known = [c \in Components |-> "UP"]
        /\ sweep = [s \in Sweeps |-> NoSweep]
        /\ failures = {}
        /\ alert = FALSE
        /\ settled = 0

\* A component's health changes; the clock may move in between.
HealthChanges(c, status) ==
    /\ clock < MaxClock /\ clock' = clock + 1
    /\ health' = [health EXCEPT ![c] = status]
    /\ settled' = 0
    /\ UNCHANGED <<known, sweep, failures, alert>>

\* gather: each probe is answered at its own moment, a late one counts as DOWN.
BeginSweep(s) ==
    /\ sweep[s] = NoSweep
    /\ sweep' = [sweep EXCEPT ![s].at = "probes"]
    /\ UNCHANGED <<clock, health, known, failures, alert, settled>>

Probe(s) ==
    /\ sweep[s].at = "probes" /\ Len(sweep[s].seen) < Len(Tracked)
    /\ sweep' = [sweep EXCEPT ![s].seen = Append(@, health[Tracked[Len(@) + 1]])]
    /\ UNCHANGED <<clock, health, known, failures, alert, settled>>

(* The results up to the first that differs from the status shown are       *)
(* taken; that one is committed, and the sweep dies in its broadcast.       *)
Differs(seen) == {i \in DOMAIN seen : seen[i] # known[Tracked[i]]}
Committed_Never(seen) == known
Committed(seen) ==
    IF Differs(seen) = {} THEN known
    ELSE [known EXCEPT ![Tracked[Min(Differs(seen))]] = seen[Min(Differs(seen))]]

Recent(log) == {f \in log : clock - f.time < Lifetime}
Failing(log) == UNION {f.components : f \in Recent(log)}

\* The history is pruned at once, unless there is a cascade to tell of first.
ApplySweep(s) ==
    /\ sweep[s].at = "probes" /\ Len(sweep[s].seen) = Len(Tracked)
    /\ LET seen == sweep[s].seen
           down == {Tracked[i] : i \in {j \in DOMAIN seen : seen[j] = "DOWN"}}
           log == failures \cup {[time |-> clock, components |-> down]}
           whole == Differs(seen) = {}
           stale == \E i \in DOMAIN seen : seen[i] # health[Tracked[i]]
           cascade == whole /\ down # {} /\ Cardinality(Failing(log)) >= CascadeSize
       IN /\ known' = Committed(seen)
          /\ alert' = (alert \/ cascade)
          /\ failures' = IF cascade THEN log ELSE IF whole /\ down # {} THEN Recent(log) ELSE failures
          /\ sweep' = [sweep EXCEPT ![s] = IF cascade THEN [at |-> "alerts", seen |-> <<>>, pruned |-> Recent(log)]
                                           ELSE NoSweep]
          /\ settled' = IF stale THEN 0 ELSE Min({settled + 1, Len(Tracked) + 1})
    /\ UNCHANGED <<clock, health>>

\* What other sweeps have added to the history meanwhile is lost.
Prune(s) ==
    /\ sweep[s].at = "alerts"
    /\ failures' = sweep[s].pruned
    /\ sweep' = [sweep EXCEPT ![s] = NoSweep]
    /\ UNCHANGED <<clock, health, known, alert, settled>>

Next == \/ \E c \in Components, status \in Statuses : HealthChanges(c, status)
        \/ \E s \in Sweeps : BeginSweep(s) \/ Probe(s) \/ ApplySweep(s) \/ Prune(s)

Spec == Init /\ [][Next]_healthVars

TypeOK ==
    /\ health \in [Components -> Statuses]
    /\ known \in [Components -> Statuses]
    /\ \A s \in Sweeps : Len(sweep[s].seen) <= Len(Tracked)
    /\ settled \in 0 .. Len(Tracked) + 1

(* However sweeps overlap and die, each one whose results are true brings   *)
(* one component up to date: after as many of them as there are components, *)
(* the monitor shows the truth, and one more raises the alert for a cascade *)
(* that is still there (health_monitor.py:88-135).                          *)
Wrong == {c \in Components : known[c] # health[c]}
ShowsTruth ==
    /\ settled > 0 => Cardinality(Wrong) + settled <= Max({Len(Tracked), settled})
    /\ settled >= Len(Tracked) => Wrong = {}
    /\ settled > Len(Tracked)
         /\ Cardinality({c \in Components : health[c] = "DOWN"}) >= CascadeSize
       => alert
=============================================================================
