------------------------------- MODULE Tenancy ------------------------------
(* Resource quotas of a tenant: TenantIsolationService, its repository and  *)
(* its routes (app/tenants).  check_admission is read-only; the caller       *)
(* allocates, and only then consumes, one dimension after the other, so      *)
(* operations overlap; and a tier is applied one dimension after the other.  *)
EXTENDS Integers, Sequences, FiniteSetsExt

CONSTANTS
    Operations,     \* callers that create, admit, consume and release
    Dimensions,     \* the dimensions of a quota, in the order they are written
    Wants,          \* what an operation may ask for: [dimensions -> amounts]
    Tiers, LimitsOf,  \* tiers, and the limits of each: [dimensions -> limits]
    QuotaLimits,    \* limits an update may set
    Observations,   \* usage values record_usage may write
    MaxChanges      \* bound: updates, tiers applied, observations, changes of status

VARIABLES
    namespace,  \* the tenant's row, its quotas and its usage
    holds,      \* where each operation is, and what it asks for
    changes     \* changes made to the namespace so far (bound)

tenantVars == <<namespace, holds, changes>>

Dims == Range(Dimensions)
TenancyAssumption ==
    /\ IsFiniteSet(Operations)
    /\ Dimensions \in Seq(Dims) \ {<<>>} /\ IsInjective(Dimensions)
    /\ Wants \subseteq [Dims -> Nat] /\ LimitsOf \in [Tiers -> [Dims -> Nat]]
    /\ QuotaLimits \subseteq Nat /\ Observations \subseteq Nat

Zero == [d \in Dims |-> 0]
NoNamespace == [status |-> "none", tier |-> "none", limit |-> Zero, used |-> Zero, reserved |-> Zero]
Nothing == [at |-> "idle", want |-> Zero, tier |-> "none", left |-> 0]

\* Mutant: what is used already does not count.
Available_Unused(ns, d) == Max({0, ns.limit[d] - ns.reserved[d]})
Available(ns, d) == Max({0, ns.limit[d] - ns.used[d] - ns.reserved[d]})

\* Not fields of the code: disturbed says that a limit was cut or the usage observed, or
\* that two operations were between admission and consumption at one time; applied is
\* the tier applied last, updated the dimensions set since one by one, and torn says
\* that tiers were applied at one time, or one of them not to its end.
TenantInit ==
    /\ namespace = [ns |-> NoNamespace, disturbed |-> FALSE, applied |-> "none",
                    updated |-> {}, torn |-> FALSE]
    /\ holds = [o \in Operations |-> Nothing]
    /\ changes = 0

\* Nothing is written for a tenant without a namespace: the routes answer 404.
Found == namespace.ns.status # "none"
Change == Found /\ changes < MaxChanges /\ changes' = changes + 1
Applying == {o \in Operations : holds[o].at = "applying"}
Between == {o \in Operations : holds[o].at \in {"admitted", "consuming"}}

\* provision_namespace looks the row up first; the tenant's column is unique.
FindNamespace(o) ==
    /\ holds[o] = Nothing /\ ~Found
    /\ holds' = [holds EXCEPT ![o].at = "creating"]
    /\ UNCHANGED <<namespace, changes>>
CreateNamespace(o, tier) ==
    /\ holds[o].at = "creating"
    /\ holds' = [holds EXCEPT ![o] = Nothing]
    /\ namespace' = IF Found THEN namespace
                    ELSE [namespace EXCEPT !.ns = [NoNamespace EXCEPT !.status = "active", !.tier = tier,
                                                                      !.limit = LimitsOf[tier]],
                                           !.applied = tier]
    /\ UNCHANGED changes

\* Every status may follow every other: deprovisioning is not final.
SetStatus(status) ==
    /\ Change /\ status # namespace.ns.status
    /\ namespace' = [namespace EXCEPT !.ns.status = status]
    /\ UNCHANGED holds

LimitSet(d, limit) == [namespace EXCEPT !.ns.limit[d] = limit,
                                        !.disturbed = @ \/ limit < namespace.ns.limit[d]]
UpdateQuota(d, limit) ==
    /\ Change
    /\ namespace' = [LimitSet(d, limit) EXCEPT !.updated = @ \cup {d}, !.torn = @ \/ Applying # {}]
    /\ UNCHANGED holds

\* apply_tier writes, and commits, one limit after the other; the row keeps its tier's name.
ApplyTier(o, tier) ==
    /\ Change /\ holds[o] = Nothing
    /\ holds' = [holds EXCEPT ![o] = [Nothing EXCEPT !.at = "applying", !.tier = tier, !.left = Len(Dimensions)]]
    /\ namespace' = [namespace EXCEPT !.applied = tier, !.updated = {}, !.torn = Applying # {}]
Written(h) == IF h.left = 1 THEN Nothing ELSE [h EXCEPT !.left = h.left - 1]
\* Mutant: the last dimension is left as it was.
SetQuota_ButLast(o) ==
    /\ holds[o].at = "applying"
    /\ LET d == Dimensions[Len(Dimensions) - holds[o].left + 1]
       IN  namespace' = IF holds[o].left = 1 THEN namespace ELSE LimitSet(d, LimitsOf[holds[o].tier][d])
    /\ holds' = [holds EXCEPT ![o] = Written(@)]
    /\ UNCHANGED changes
SetQuota(o) ==
    /\ holds[o].at = "applying"
    /\ LET d == Dimensions[Len(Dimensions) - holds[o].left + 1]
       IN  namespace' = LimitSet(d, LimitsOf[holds[o].tier][d])
    /\ holds' = [holds EXCEPT ![o] = Written(@)]
    /\ UNCHANGED changes
StatementFails(o) ==
    /\ holds[o].at = "applying"
    /\ holds' = [holds EXCEPT ![o] = Nothing]
    /\ namespace' = [namespace EXCEPT !.torn = TRUE]
    /\ UNCHANGED changes

\* record_usage overwrites what consume and release have counted.
RecordUsage(d, used, reserved) ==
    /\ Change
    /\ namespace' = [namespace EXCEPT !.ns.used[d] = used, !.ns.reserved[d] = reserved, !.disturbed = TRUE]
    /\ UNCHANGED holds

\* check_admission: an active namespace with every amount still available.
CheckAdmission(o, want) ==
    /\ holds[o] = Nothing
    /\ namespace.ns.status = "active"
    /\ \A d \in Dims : want[d] <= Available(namespace.ns, d)
    /\ holds' = [holds EXCEPT ![o] = [Nothing EXCEPT !.at = "admitted", !.want = want, !.left = Len(Dimensions)]]
    /\ namespace' = [namespace EXCEPT !.disturbed = @ \/ Between # {}]
    /\ UNCHANGED changes

\* consume looks at neither the limit nor the status; a dimension at a time, as is release.
\* What is written never falls below zero.
\* Mutant: what is used may fall below zero after an observation.
Incremented_Unclamped(ns, d, delta) == [ns EXCEPT !.used[d] = @ + delta]
Incremented(ns, d, delta) == [ns EXCEPT !.used[d] = Max({0, @ + delta})]
Stepped(h, from, over) ==
    IF h.left > 1 THEN [h EXCEPT !.at = from, !.left = h.left - 1]
    ELSE IF over = "idle" THEN Nothing
    ELSE [h EXCEPT !.at = over, !.left = Len(Dimensions)]
DimensionOf(o) == Dimensions[Len(Dimensions) - holds[o].left + 1]
Consume(o) ==
    /\ holds[o].at \in {"admitted", "consuming"}
    /\ namespace' = [namespace EXCEPT !.ns = Incremented(@, DimensionOf(o), holds[o].want[DimensionOf(o)])]
    /\ holds' = [holds EXCEPT ![o] = Stepped(@, "consuming", "holding")]
    /\ UNCHANGED changes

\* The allocation failed: nothing is consumed.
AllocationFails(o) ==
    /\ holds[o].at = "admitted"
    /\ holds' = [holds EXCEPT ![o] = Nothing]
    /\ UNCHANGED <<namespace, changes>>

Release(o) ==
    /\ holds[o].at \in {"holding", "releasing"}
    /\ namespace' = [namespace EXCEPT !.ns = Incremented(@, DimensionOf(o), 0 - holds[o].want[DimensionOf(o)])]
    /\ holds' = [holds EXCEPT ![o] = Stepped(@, "releasing", "idle")]
    /\ UNCHANGED changes

TenantNext ==
    \/ \E s \in {"active", "suspended", "deprovisioning"} : SetStatus(s)
    \/ \E d \in Dims : \/ \E limit \in QuotaLimits : UpdateQuota(d, limit)
                       \/ \E used \in Observations, reserved \in Observations : RecordUsage(d, used, reserved)
    \/ \E o \in Operations : \/ FindNamespace(o) \/ SetQuota(o) \/ StatementFails(o)
                             \/ \E tier \in Tiers : CreateNamespace(o, tier) \/ ApplyTier(o, tier)
                             \/ \E want \in Wants : CheckAdmission(o, want)
                             \/ Consume(o) \/ AllocationFails(o) \/ Release(o)

TenantSpec == TenantInit /\ [][TenantNext]_tenantVars

TenantTypeOK ==
    /\ namespace.ns.status \in {"none", "active", "suspended", "deprovisioning"}
    /\ \A d \in Dims : namespace.ns.used[d] \in Nat /\ namespace.ns.limit[d] \in Nat
    /\ \A o \in Operations : /\ holds[o].at \in {"idle", "creating", "applying", "admitted", "consuming", "holding", "releasing"}
                             /\ holds[o].left \in 0 .. Len(Dimensions)

(* Only overlapping admissions, a limit that was cut or a usage written by  *)
(* record_usage take a tenant over its quota; otherwise what is used,       *)
(* reserved and admitted fits in every dimension, and what is used is what   *)
(* operations hold (service.py:165, 217, 240; repository.py:263).            *)
Done(o, d) == Len(Dimensions) - holds[o].left >= CHOOSE i \in DOMAIN Dimensions : Dimensions[i] = d
Holds(o, d) == \/ holds[o].at = "holding"
               \/ holds[o].at = "consuming" /\ Done(o, d)
               \/ holds[o].at = "releasing" /\ ~Done(o, d)
Expects(o, d) == holds[o].at \in {"admitted", "consuming"} /\ ~Holds(o, d)
Sum(S, d) == FoldSet(LAMBDA o, sum : sum + holds[o].want[d], 0, S)
QuotaHolds ==
    ~namespace.disturbed => \A d \in Dims :
        LET expected == {o \in Operations : Expects(o, d)}
            holding == {o \in Operations : Holds(o, d)}
        IN /\ namespace.ns.used[d] = Sum(holding, d)
           /\ namespace.ns.used[d] + namespace.ns.reserved[d] + Sum(expected, d) <= namespace.ns.limit[d]

(* Once a tier is applied, alone and to its end, every limit is the tier's   *)
(* that was not set by itself since (service.py:145-162).                    *)
TierHolds ==
    Found /\ ~namespace.torn /\ Applying = {} =>
        \A d \in Dims \ namespace.updated : namespace.ns.limit[d] = LimitsOf[namespace.applied][d]
=============================================================================
