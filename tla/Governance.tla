----------------------------- MODULE Governance -----------------------------
(* Roles of the control plane: RBACEngine (app/governance/rbac_engine.py),  *)
(* its audit trail (audit_trail.py) and the rules of PolicyEngine (rbac.py). *)
(* The routes are plain functions, which the server runs in a thread pool:  *)
(* a call takes the engine's lock for its mutation, releases it, and writes *)
(* its audit entry afterwards, so the steps of two calls interleave.  The    *)
(* rules are changed under a lock but evaluated without it.                  *)
EXTENDS Integers, Sequences, SequencesExt, FiniteSetsExt

CONSTANTS
    Users,
    CustomRoles,    \* names a client may give to a role of its own
    Permissions,
    DefaultRole,    \* the built-in role of a user who has no binding
    DefaultGrants,  \* what the built-in role permits
    Callers,        \* threads of the server's pool
    MaxCalls,       \* bound: calls that reach the trail
    Rules,          \* rules of a PolicyEngine
    RuleOf          \* of each: [effect, permissions, users, priority]

\* add_rule refuses any other effect.
GovernanceAssumption ==
    \A r \in Rules : RuleOf[r].effect \in {"allow", "deny"} /\ RuleOf[r].priority \in Int

VARIABLES
    custom,     \* _custom_roles: name -> permissions, or Undefined
    binding,    \* _user_roles: user -> role name, or Unbound
    call,       \* what each thread is in the middle of
    trail,      \* entries of the audit trail, in the order of the hash chain
    rules,      \* _rules of the PolicyEngine, highest priority first
    ruling      \* what each thread is at in the PolicyEngine

govVars == <<custom, binding, call, trail, rules, ruling>>
policyVars == <<rules, ruling>>

Undefined == {"undefined"}
Unbound == "unbound"
Roles == CustomRoles \cup {DefaultRole}
Idle == [at |-> "idle"]

Entry(act, who, old, new) == [act |-> act, users |-> who, old |-> old, new |-> new]

(* ---- The audit trail -------------------------------------------------- *)
\* An entry is stored with the hash of the one before it and its own, taken to be
\* free of collisions.
Genesis == <<>>
Hash(prev, entry) == <<prev, entry>>
LastHash(stored) == IF stored = <<>> THEN Genesis ELSE Last(stored).hash
Record(stored, entry) ==
    Append(stored, [entry |-> entry, prev |-> LastHash(stored), hash |-> Hash(LastHash(stored), entry)])

\* Positions at which the chain is broken, and those whose hash is not that of the entry.
\* Mutant: the hash is recomputed over the link that the entry itself names.
VerifyIntegrity_OwnLink(stored) ==
    [broken |-> {}, mismatched |-> {i \in DOMAIN stored : stored[i].hash # Hash(stored[i].prev, stored[i].entry)}]
VerifyIntegrity(stored) ==
    LET before(i) == IF i = 1 THEN Genesis ELSE stored[i - 1].hash
    IN  [broken |-> {i \in DOMAIN stored : stored[i].prev # before(i)},
         mismatched |-> {i \in DOMAIN stored : stored[i].hash # Hash(before(i), stored[i].entry)}]
IsValid(stored) == VerifyIntegrity(stored).broken \cup VerifyIntegrity(stored).mismatched = {}

\* The entries that match, oldest first, up to a limit (0: no limit).
Query(stored, acts, who, limit) ==
    LET matching == SelectSeq(stored, LAMBDA e : e.entry.act \in acts /\ e.entry.users \cap who # {})
    IN  IF limit = 0 \/ Len(matching) <= limit THEN matching ELSE SubSeq(matching, 1, limit)

(* ---- Helpers of RBACEngine -------------------------------------------- *)
Defined == {DefaultRole} \cup {r \in CustomRoles : custom[r] # Undefined}
PermissionsFor(r) ==
    CASE r = DefaultRole -> DefaultGrants
      [] r \in Defined \ {DefaultRole} -> custom[r]
      [] OTHER -> {}
EffectiveRole(u) == IF binding[u] = Unbound THEN DefaultRole ELSE binding[u]

\* A deleted role's users fall back to the default role.
Affected(r) == {u \in Users : binding[u] = r}
FallBack_Unlisted(r) == binding
FallBack(r) == [u \in Users |-> IF u \in Affected(r) THEN DefaultRole ELSE binding[u]]

CallsMade == Len(trail) + Cardinality({t \in Callers : call[t] # Idle \/ ruling[t].at \in {"rule", "audit"}})
Begins(t) == call[t] = Idle /\ CallsMade < MaxCalls
Writes(t, entry) == call' = [call EXCEPT ![t] = [at |-> "log", entry |-> entry]]

NotRuling == [at |-> "idle", user |-> "none", permission |-> "none", next |-> 0, steady |-> FALSE,
              granted |-> FALSE, ran |-> FALSE, pending |-> <<>>]
Init == /\ custom = [r \in CustomRoles |-> Undefined]
        /\ binding = [u \in Users |-> Unbound]
        /\ call = [t \in Callers |-> Idle]
        /\ trail = <<>>
        /\ rules = <<>>
        /\ ruling = [t \in Callers |-> NotRuling]

CreateRole(t, r, grants) ==
    /\ Begins(t) /\ custom[r] = Undefined
    /\ custom' = [custom EXCEPT ![r] = grants]
    /\ Writes(t, Entry("create", {}, r, r))
    /\ UNCHANGED <<binding, trail, policyVars>>

DeleteRole(t, r) ==
    /\ Begins(t) /\ custom[r] # Undefined
    /\ custom' = [custom EXCEPT ![r] = Undefined]
    /\ binding' = FallBack(r)
    /\ Writes(t, Entry("delete", Affected(r), r, DefaultRole))
    /\ UNCHANGED <<trail, policyVars>>

\* assign_role looks the name up, and only then takes the lock.
ResolveRole(t, u, r) ==
    /\ Begins(t) /\ r \in Defined
    /\ call' = [call EXCEPT ![t] = [at |-> "bind", user |-> u, role |-> r]]
    /\ UNCHANGED <<custom, binding, trail, policyVars>>

AssignRole(t) ==
    /\ call[t].at = "bind"
    /\ LET u == call[t].user  r == call[t].role IN
         /\ binding' = [binding EXCEPT ![u] = r]
         /\ Writes(t, Entry("assign", {u}, binding[u], r))
    /\ UNCHANGED <<custom, trail, policyVars>>

UnassignRole(t, u) ==
    /\ Begins(t) /\ binding[u] # Unbound
    /\ binding' = [binding EXCEPT ![u] = Unbound]
    /\ Writes(t, Entry("unassign", {u}, binding[u], Unbound))
    /\ UNCHANGED <<custom, trail, policyVars>>

\* check_permission: the role is read under the lock, its permissions later.
ReadRole(t, u, p) ==
    /\ Begins(t)
    /\ call' = [call EXCEPT ![t] = [at |-> "check", user |-> u, permission |-> p,
                                    role |-> EffectiveRole(u)]]
    /\ UNCHANGED <<custom, binding, trail, policyVars>>

CheckPermission(t) ==
    /\ call[t].at = "check"
    /\ LET granted == call[t].permission \in PermissionsFor(call[t].role) IN
         Writes(t, Entry(IF granted THEN "grant" ELSE "deny", {call[t].user},
                         call[t].role, call[t].role))
    /\ UNCHANGED <<custom, binding, trail, policyVars>>

\* enforce_policy with an action that maps to no permission.
EnforceUnmapped(t, u) ==
    /\ Begins(t)
    /\ Writes(t, Entry("deny", {u}, Unbound, Unbound))
    /\ UNCHANGED <<custom, binding, trail, policyVars>>

LogEvent(t) ==
    /\ call[t].at = "log"
    /\ trail' = Record(trail, call[t].entry)
    /\ call' = [call EXCEPT ![t] = Idle]
    /\ UNCHANGED <<custom, binding, policyVars>>

(* ---- Rules of PolicyEngine -------------------------------------------- *)
\* The sort keeps the order of equals.
Sorted(list, rule) ==
    LET before == Cardinality({i \in DOMAIN list : RuleOf[list[i]].priority >= RuleOf[rule].priority})
    IN  InsertAt(list, before + 1, rule)
\* Evaluations under way see that the rules change.
Disturbed(t) == [u \in Callers |-> IF u = t THEN ruling[u] ELSE [ruling[u] EXCEPT !.steady = FALSE]]
LockFree == \A t \in Callers : ruling[t].at # "sort"
UnchangedRoles == UNCHANGED <<custom, binding, call>>

\* While Python sorts a list in place it is empty to everybody else.
\* Mutant: the rule is appended and the list not sorted.
AddRule_Appended(t, r) ==
    /\ ruling[t].at = "idle" /\ LockFree /\ r \notin ToSet(rules)
    /\ rules' = <<>>
    /\ ruling' = [Disturbed(t) EXCEPT ![t] = [NotRuling EXCEPT !.at = "sort", !.pending = Append(rules, r)]]
    /\ UNCHANGED trail /\ UnchangedRoles
AddRule(t, r) ==
    /\ ruling[t].at = "idle" /\ LockFree /\ r \notin ToSet(rules)
    /\ rules' = <<>>
    /\ ruling' = [Disturbed(t) EXCEPT ![t] = [NotRuling EXCEPT !.at = "sort", !.pending = Sorted(rules, r)]]
    /\ UNCHANGED trail /\ UnchangedRoles
Unlock(t) ==
    /\ ruling[t].at = "sort"
    /\ rules' = ruling[t].pending
    /\ ruling' = [Disturbed(t) EXCEPT ![t] = NotRuling]
    /\ UNCHANGED trail /\ UnchangedRoles
RemoveRule(t, r) ==
    /\ ruling[t].at = "idle" /\ LockFree
    /\ \/ \E i \in DOMAIN rules : rules[i] = r /\ rules' = RemoveAt(rules, i) /\ ruling' = Disturbed(t)
       \/ r \notin ToSet(rules) /\ UNCHANGED <<rules, ruling>>
    /\ UNCHANGED trail /\ UnchangedRoles

\* evaluate looks at one rule after the other; the first that matches decides, and an
\* allow never exceeds the role, here the built-in one, which a User carries.
BeginEvaluate(t, u, p) ==
    /\ ruling[t].at \in {"idle", "decided"} /\ CallsMade < MaxCalls
    /\ ruling' = [ruling EXCEPT ![t] = [NotRuling EXCEPT !.at = "rule", !.user = u, !.permission = p,
                                                          !.next = 1, !.steady = LockFree]]
    /\ UNCHANGED <<rules, trail>> /\ UnchangedRoles
Matches(r, u, p) == p \in RuleOf[r].permissions /\ u \in RuleOf[r].users
Evaluate(t) ==
    /\ ruling[t].at = "rule"
    /\ LET e == ruling[t]
           inRole == e.permission \in DefaultGrants
           over == e.next > Len(rules)
           decided(granted) == [ruling EXCEPT ![t].at = "audit", ![t].granted = granted]
       IN  ruling' = IF over THEN decided(inRole)
                     ELSE IF ~Matches(rules[e.next], e.user, e.permission)
                          THEN [ruling EXCEPT ![t].next = @ + 1]
                     ELSE decided(RuleOf[rules[e.next]].effect = "allow" /\ inRole)
    /\ UNCHANGED <<rules, trail>> /\ UnchangedRoles
\* The audit entry is written before the answer is given.
Audit(t) ==
    /\ ruling[t].at = "audit"
    /\ trail' = Record(trail, Entry(IF ruling[t].granted THEN "grant" ELSE "deny", {ruling[t].user}, Unbound, Unbound))
    /\ ruling' = [ruling EXCEPT ![t].at = "decided"]
    /\ UNCHANGED rules /\ UnchangedRoles
\* A decorated function runs if the check did not raise.
EnforcePermission(t) ==
    /\ ruling[t].at = "decided" /\ ruling[t].granted /\ ~ruling[t].ran
    /\ ruling' = [ruling EXCEPT ![t].ran = TRUE]
    /\ UNCHANGED <<rules, trail>> /\ UnchangedRoles

RoleNext ==
    \E t \in Callers :
        \/ \E r \in CustomRoles : \/ \E grants \in SUBSET Permissions : CreateRole(t, r, grants)
                                  \/ DeleteRole(t, r)
        \/ \E u \in Users : \/ \E r \in Roles : ResolveRole(t, u, r)
                            \/ \E p \in Permissions : ReadRole(t, u, p)
                            \/ UnassignRole(t, u)
                            \/ EnforceUnmapped(t, u)
        \/ AssignRole(t) \/ CheckPermission(t) \/ LogEvent(t)

PolicyNext ==
    \E t \in Callers :
        \/ \E r \in Rules : AddRule(t, r) \/ RemoveRule(t, r)
        \/ \E u \in Users, p \in Permissions \cup DefaultGrants : BeginEvaluate(t, u, p)
        \/ Unlock(t) \/ Evaluate(t) \/ Audit(t) \/ EnforcePermission(t)
Next == RoleNext \/ PolicyNext

Spec == Init /\ [][Next]_govVars

TypeOK ==
    /\ custom \in [CustomRoles -> (SUBSET Permissions) \cup {Undefined}]
    /\ binding \in [Users -> Roles \cup {Unbound}]
    /\ \A t \in Callers : call[t].at \in {"idle", "bind", "check", "log"}
    /\ \A i \in DOMAIN trail : trail[i].entry.users \subseteq Users
    /\ ToSet(rules) \subseteq Rules
    /\ \A t \in Callers : ruling[t].at \in {"idle", "sort", "rule", "audit", "decided"}

(* The trail and the entries about to be written account for every binding: *)
(* for each user and role, the entries that gave the role, less those that  *)
(* took it away, are one if the user holds it and none otherwise -- in      *)
(* whatever order calls reached the trail (rbac_engine.py:272, 307).        *)
Pending == {t \in Callers : call[t].at = "log"}
Binding == {"assign", "unassign", "delete"}
Given(u, r) == Cardinality({i \in DOMAIN Query(trail, Binding, {u}, 0) : Query(trail, Binding, {u}, 0)[i].entry.new = r})
               + Cardinality({t \in Pending : call[t].entry.act \in Binding /\ u \in call[t].entry.users
                                              /\ call[t].entry.new = r})
Taken(u, r) == Cardinality({i \in DOMAIN Query(trail, Binding, {u}, 0) : Query(trail, Binding, {u}, 0)[i].entry.old = r})
               + Cardinality({t \in Pending : call[t].entry.act \in Binding /\ u \in call[t].entry.users
                                              /\ call[t].entry.old = r})
TrailAccounts == \A u \in Users, r \in Roles : Given(u, r) - Taken(u, r) = IF binding[u] = r THEN 1 ELSE 0

(* The chain tells what was done to the stored entries: every entry changed, *)
(* taken out of the middle or exchanged with its neighbour is told, at the   *)
(* place where it was, and so is one rewritten with its hash unless it is    *)
(* the last; what is cut off at the end is not told (audit_trail.py:336).    *)
Forged == Entry("forged", {}, Unbound, Unbound)
Told(stored) == VerifyIntegrity(stored).broken \cup VerifyIntegrity(stored).mismatched
ChainTells ==
    /\ \A n \in 0 .. Len(trail) : IsValid(SubSeq(trail, 1, n))
    /\ \A i \in DOMAIN trail :
         /\ Told([trail EXCEPT ![i].entry = Forged]) = {i}
         /\ Told([trail EXCEPT ![i].entry = Forged, ![i].hash = Hash(trail[i].prev, Forged)]) = {i + 1} \cap DOMAIN trail
         /\ i < Len(trail) => /\ Told(RemoveAt(trail, i)) = {i}
                              /\ {i, i + 1} \subseteq Told([trail EXCEPT ![i] = trail[i + 1], ![i + 1] = trail[i]])

(* A function that asks for a permission runs only if the user's role gives  *)
(* it; and unless the rules changed meanwhile, what is decided is what the    *)
(* rule of the highest priority says that matches (rbac.py:419-470).         *)
Deciding(u, p) == {r \in ToSet(rules) : /\ Matches(r, u, p)
                                       /\ \A o \in ToSet(rules) : Matches(o, u, p) => RuleOf[o].priority <= RuleOf[r].priority}
PolicyHolds == \A t \in Callers : LET e == ruling[t] IN
    /\ e.ran => e.granted
    /\ e.granted => e.permission \in DefaultGrants
    /\ e.at \in {"audit", "decided"} /\ e.steady =>
         LET effects == {RuleOf[r].effect : r \in Deciding(e.user, e.permission)} IN
           /\ effects = {"deny"} => ~e.granted
           /\ effects \subseteq {"allow"} => e.granted = (e.permission \in DefaultGrants)
=============================================================================
