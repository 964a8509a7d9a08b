------------------------------ MODULE Rotation ------------------------------
(***************************************************************************)
(* Account rotation on token exhaustion: AccountPool (rotation/pool.py),   *)
(* AccountRotationService (rotation/service.py) and the dispatch-and-      *)
(* resume loop of collect_events (app/dependencies.py), which runs once    *)
(* per POST /tasks.                                                        *)
(*                                                                         *)
(* A rotation is synchronous code between two awaits, device login         *)
(* included, so it is one action; dispatches of different tasks overlap.   *)
(* All accounts belong to one tenant; selection never crosses tenants.     *)
(***************************************************************************)
EXTENDS Naturals, FiniteSets

CONSTANTS
    Accounts, Agents, Nobody, Requests,
    AgentOf,         \* [Requests -> Agents]
    FirstAccount,    \* [Requests -> Accounts], account_id of the request
    VendorOf,        \* [Accounts -> vendors]
    Signals,         \* vendors that a signal may name: the detector's patterns, or
    AnyVendor,       \*   none at all, for a status code 429
    NoSignal,
    Rank,            \* [Accounts -> Nat], order of select_next, injective
    LoginFails,      \* whether a device login may fail
    MaxRotations,    \* max_rotations_per_window
    MaxLogins,       \* max_login_attempts
    MaxResumes       \* bound of the loop in collect_events

ASSUME RotationAssumption ==
    /\ Nobody \notin Agents
    /\ AgentOf \in [Requests -> Agents]
    /\ FirstAccount \in [Requests -> Accounts]
    /\ DOMAIN VendorOf = Accounts
    /\ NoSignal \notin Signals
    /\ Rank \in [Accounts -> Nat]
    /\ \A a, b \in Accounts : Rank[a] = Rank[b] => a = b
    /\ LoginFails \in BOOLEAN
    /\ MaxRotations \in Nat /\ MaxLogins \in Nat /\ MaxResumes \in Nat

VARIABLES
    leasing,    \* whether callers lease the account of the request first; constant
    status,     \* Account.status
    cooled,     \* accounts whose cooldown_until has passed
    lease,      \* AccountPool._leases
    rotations,  \* _rotation_counts, by task
    phase,      \* of the task's collect_events
    signal,     \* of the dispatch under way: the vendor it names
    account,    \* current_task.account_id
    resumes     \* attempts in collect_events
rotationVars == <<leasing, status, cooled, lease, rotations, phase, signal, account, resumes>>

Statuses == {"available", "leased", "exhausted", "degraded"}
Phases == {"new", "running", "done", "parked"}
Running(t) == phase[t] = "running"

RotationInit ==
    /\ leasing \in BOOLEAN
    /\ status = [a \in Accounts |-> "available"]
    /\ cooled = {}
    /\ lease = [a \in Accounts |-> Nobody]
    /\ rotations = [t \in Requests |-> 0]
    /\ phase = [t \in Requests |-> "new"]
    /\ signal = [t \in Requests |-> NoSignal]
    /\ account = FirstAccount
    /\ resumes = [t \in Requests |-> 0]

-----------------------------------------------------------------------------
(* AccountPool.                                                            *)

\* Mutant: an exhausted account is selectable before its cooldown ends.
IsSelectable_NoCooldown(a) == status[a] \in {"available", "exhausted"}
\* Mutant: a leased account is selectable.
IsSelectable_Leased(a) == status[a] \in {"available", "leased"} \/ (status[a] = "exhausted" /\ a \in cooled)
IsSelectable(a) == status[a] = "available" \/ (status[a] = "exhausted" /\ a \in cooled)

\* The accounts a signal's vendor stands for, which need not be the vendor of
\* the account in use: the detector takes the first pattern that matches.
OfVendor(vendor) == {a \in Accounts : vendor = AnyVendor \/ VendorOf[a] = vendor}

\* Mutant: the vendor of the account in use is kept, whatever the signal names.
Candidates_Own(current, vendor) == {a \in OfVendor(VendorOf[current]) \ {current} : IsSelectable(a)}
\* Those that select_next chooses from.
Candidates(current, vendor) == {a \in OfVendor(vendor) \ {current} : IsSelectable(a)}

\* Mutant: the worst-ranked account is selected.
Better_Reversed(a, b) == Rank[b] < Rank[a]
\* The sort key: expertise priority, remaining quota, account_id.
Better(a, b) == Rank[a] < Rank[b]
\* What select_next returns first, second, ... as the tried ones are excluded.
Ahead(S, a) == {b \in S : Better(b, a)}
FirstOf(S, n) == {a \in S : Cardinality(Ahead(S, a)) < n}

\* mark_exhausted, then mark_degraded of the accounts in D.
AfterFailures(current, D) ==
    [a \in Accounts |-> IF a \in D THEN "degraded" ELSE IF a = current THEN "exhausted" ELSE status[a]]
\* Mutant: marking an account exhausted leaves its lease.
LeasesAfter_Kept(current, D) == [a \in Accounts |-> IF a \in D THEN Nobody ELSE lease[a]]
LeasesAfter(current, D) == [a \in Accounts |-> IF a \in D \cup {current} THEN Nobody ELSE lease[a]]

-----------------------------------------------------------------------------
(* collect_events and on_exhaustion.                                       *)

\* POST /tasks: the first dispatch, up to its first await.
StartTask(t) ==
    /\ phase[t] = "new"
    /\ phase' = [phase EXCEPT ![t] = "running"]
    /\ IF leasing
       THEN /\ IsSelectable(FirstAccount[t])
            /\ status' = [status EXCEPT ![FirstAccount[t]] = "leased"]
            /\ lease' = [lease EXCEPT ![FirstAccount[t]] = AgentOf[t]]
       ELSE UNCHANGED <<status, lease>>
    /\ UNCHANGED <<leasing, cooled, rotations, signal, account, resumes>>

\* An event of the dispatch tells exhaustion; the first one counts.
SignalSeen(t) ==
    /\ Running(t) /\ signal[t] = NoSignal
    /\ \E vendor \in Signals : signal' = [signal EXCEPT ![t] = vendor]
    /\ UNCHANGED <<leasing, status, cooled, lease, rotations, phase, account, resumes>>

\* The dispatch ends after such an event, and the loop goes on.
MayRotate(t) == Running(t) /\ signal[t] # NoSignal /\ resumes[t] < MaxResumes

\* It ends without one, or the loop has used up its resumes.
TaskEnds(t) ==
    /\ Running(t) /\ ~ MayRotate(t)
    /\ phase' = [phase EXCEPT ![t] = "done"]
    /\ signal' = [signal EXCEPT ![t] = NoSignal]
    /\ UNCHANGED <<leasing, status, cooled, lease, rotations, account, resumes>>

\* Mutant: one rotation too many.
Thrashing_Late(t) == rotations[t] > MaxRotations
\* The anti-thrash guard.
Thrashing(t) == rotations[t] >= MaxRotations

\* Park without touching the pool.
ParkThrashing(t) ==
    /\ MayRotate(t) /\ Thrashing(t)
    /\ phase' = [phase EXCEPT ![t] = "parked"]
    /\ signal' = [signal EXCEPT ![t] = NoSignal]
    /\ UNCHANGED <<leasing, status, cooled, lease, rotations, account, resumes>>

\* n logins fail before one succeeds.  Mutant: resumes are not counted.
Rotate_Uncounted(t) ==
    /\ MayRotate(t) /\ ~ Thrashing(t)
    /\ \E next \in Candidates(account[t], signal[t]) :
         LET D == Ahead(Candidates(account[t], signal[t]), next) IN
         /\ D = {}
         /\ status' = [AfterFailures(account[t], D) EXCEPT ![next] = "leased"]
         /\ lease' = [LeasesAfter(account[t], D) EXCEPT ![next] = AgentOf[t]]
         /\ cooled' = cooled \ {account[t]}
         /\ account' = [account EXCEPT ![t] = next]
    /\ signal' = [signal EXCEPT ![t] = NoSignal]
    /\ UNCHANGED <<leasing, phase, rotations, resumes>>
Rotate(t) ==
    /\ MayRotate(t) /\ ~ Thrashing(t)
    /\ \E next \in Candidates(account[t], signal[t]) :
         LET D == Ahead(Candidates(account[t], signal[t]), next) IN
         /\ Cardinality(D) < MaxLogins
         /\ D # {} => LoginFails
         /\ status' = [AfterFailures(account[t], D) EXCEPT ![next] = "leased"]
         /\ lease' = [LeasesAfter(account[t], D) EXCEPT ![next] = AgentOf[t]]
         /\ cooled' = cooled \ {account[t]}
         /\ account' = [account EXCEPT ![t] = next]
    /\ rotations' = [rotations EXCEPT ![t] = @ + 1]
    /\ resumes' = [resumes EXCEPT ![t] = @ + 1]
    /\ signal' = [signal EXCEPT ![t] = NoSignal]
    /\ UNCHANGED <<leasing, phase>>

\* No candidate, or every login that was tried failed.
ParkExhausted(t) ==
    /\ MayRotate(t) /\ ~ Thrashing(t)
    /\ LET D == FirstOf(Candidates(account[t], signal[t]), MaxLogins) IN
       /\ D # {} => LoginFails
       /\ status' = AfterFailures(account[t], D)
       /\ lease' = LeasesAfter(account[t], D)
    /\ cooled' = cooled \ {account[t]}
    /\ phase' = [phase EXCEPT ![t] = "parked"]
    /\ signal' = [signal EXCEPT ![t] = NoSignal]
    /\ UNCHANGED <<leasing, rotations, account, resumes>>

\* cooldown_until passes.
CooldownEnds(a) ==
    /\ status[a] = "exhausted" /\ a \notin cooled
    /\ cooled' = cooled \cup {a}
    /\ UNCHANGED <<leasing, status, lease, rotations, phase, signal, account, resumes>>

RotationNext ==
    \/ \E t \in Requests :
         StartTask(t) \/ SignalSeen(t) \/ TaskEnds(t) \/ ParkThrashing(t) \/ Rotate(t) \/ ParkExhausted(t)
    \/ \E a \in Accounts : CooldownEnds(a)

RotationSpec == RotationInit /\ [][RotationNext]_rotationVars

\* Every dispatch comes to an end, with or without a signal.
RotationFairSpec ==
    RotationSpec /\ \A t \in Requests : WF_rotationVars(TaskEnds(t) \/ ParkThrashing(t) \/ Rotate(t) \/ ParkExhausted(t))

-----------------------------------------------------------------------------
(* Properties.                                                             *)

\* Every variable has its type; no task rotates or resumes more often than it may.
RotationTypeOK ==
    /\ leasing \in BOOLEAN
    /\ status \in [Accounts -> Statuses]
    /\ cooled \subseteq Accounts
    /\ lease \in [Accounts -> Agents \cup {Nobody}]
    /\ rotations \in [Requests -> 0 .. MaxRotations]
    /\ phase \in [Requests -> Phases]
    /\ signal \in [Requests -> Signals \cup {NoSignal}]
    /\ account \in [Requests -> Accounts]
    /\ resumes \in [Requests -> 0 .. MaxResumes]

\* The lease table and the account's own status never disagree.
LeaseMatchesStatus == \A a \in Accounts : status[a] = "leased" <=> lease[a] # Nobody

\* Two agents never drain one account (36-ROTACAO-CONTAS-TOKEN.md:109): no
\* rotation puts them together when callers lease the account they start on.
OneAgentPerAccount ==
    leasing => \A t, u \in Requests :
        Running(t) /\ Running(u) /\ account[t] = account[u] => AgentOf[t] = AgentOf[u]

\* A task is moved to an account of the vendor that its signal names, any if it
\* names none, and only if no better one of those could be used: better ones were
\* not selectable, or their login has just failed; and an exhausted account is not
\* used again before its window resets (rotation/service.py:97-109, rotation/pool.py:61-80).
AccountChoice ==
    /\ [][\A t \in Requests : account'[t] # account[t] =>
            /\ account'[t] \in OfVendor(signal[t])
            /\ \A a \in OfVendor(signal[t]) \ {account[t]} : Rank[a] < Rank[account'[t]] =>
                  status'[a] # "available" /\ (status'[a] = "exhausted" => a \notin cooled)]_rotationVars
    /\ [][\A a \in Accounts : status[a] = "exhausted" /\ status'[a] = "leased" => a \in cooled]_rotationVars

\* Rotation does not go on for ever: each task ends or is parked.
TaskSettles == \A t \in Requests : Running(t) ~> phase[t] \in {"done", "parked"}

-----------------------------------------------------------------------------
(* A small instance, with numbers for names: accounts 1 and 2 are of one   *)
(* vendor and rank before 3 and 4 of another; each agent has one task and  *)
(* the first accounts are of different vendors.  Signals name either vendor*)
(* or none.                                                                *)
TwoVendors == [a \in Accounts |-> IF a <= 2 THEN "codex" ELSE "opus"]
OwnNumber == [a \in Accounts |-> a]
OwnAgent == [t \in Requests |-> t]
OwnAccount == [t \in Requests |-> 2 * t - 1]
=============================================================================
