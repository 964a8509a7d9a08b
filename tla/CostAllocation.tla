--------------------------- MODULE CostAllocation ---------------------------
(* Two services that allocate costs.  CostAggregator                        *)
(* (app/governance/cost_allocation.py): an event is stamped when it is made *)
(* and recorded later by whichever thread holds it, so events may be        *)
(* recorded in another order than that of their stamps.                     *)
(* CostAllocationService (app/billing/cost_allocation.py): a charge is      *)
(* stamped and appended under the lock; then the tenant's budget is read    *)
(* under the lock, the costs of its window are summed and the level is      *)
(* logged, with no lock across these steps.  The window of a budget was     *)
(* fixed when it was set; time is counted in half days, so that a window    *)
(* may end within a day.                                                    *)
EXTENDS Integers, SequencesExt

CONSTANTS
    Payers,         \* tenants in the order of their names (projects, agents and models group alike)
    Costs,          \* costs of an event, in cents
    Limits,         \* limits of a threshold
    Windows,        \* windows of a threshold, in ticks
    DayLength,      \* ticks of a day
    MaxNow,         \* bound: last tick of the clock
    MaxEvents,      \* bound: events made
    MaxThresholds,  \* bound: thresholds set
    Tenants,
    Amounts,        \* amounts of a charge
    BudgetLimits,   \* monthly limits, zero among them
    WarningPct,     \* warning_threshold_pct
    Chargers,       \* callers of allocate_cost
    MonthLength,    \* days of a month
    MaxHalf,        \* bound: last half day of the calendar
    MaxCharges      \* bound: charges

AggregatorAssumption ==
    Costs \subseteq Nat /\ Limits \subseteq Nat /\ Windows \subseteq Nat /\ MaxNow \in Nat
BudgetAssumption ==
    /\ Amounts \subseteq Nat /\ BudgetLimits \subseteq Nat /\ WarningPct \in Nat
    /\ MonthLength \in Nat \ {0} /\ MaxHalf \in Nat

VARIABLES
    now,        \* the clock
    made,       \* events made and not recorded yet
    events,     \* _events, in the order of recording
    thresholds, \* _thresholds
    alerts,     \* _alerts, by what they are about
    half,       \* the half day the clock is in
    spent,      \* _allocations: tenant -> half day -> amount
    budget,     \* _budgets: tenant -> limit and window, or NoBudget
    charge,     \* each caller's allocate_cost under way
    charges     \* charges made so far (bound)

-----------------------------------------------------------------------------
(* CostAggregator: token costs and budget alerts.                          *)

costVars == <<now, made, events, thresholds, alerts>>

GroupBy == {"tenant", "day"}
\* A key is a payer or a day; the other half is left blank.
KeyFor(e, dimension) ==
    IF dimension = "tenant" THEN <<e.tenant, 0>> ELSE <<"", e.timestamp \div DayLength>>

\* What a window that ends at an instant holds of a key.
EventsIn(dimension, key, from, to) ==
    {i \in DOMAIN events : /\ events[i].timestamp \in from .. to
                           /\ KeyFor(events[i], dimension) = key}
CostOf(log, S) == FoldSet(LAMBDA i, sum : sum + log[i].cost, 0, S)

(* ---- Queries: aggregate and GET /governance/costs ---------------------- *)
Filters == [tenant : Range(Payers) \cup {"any"}, start : {0, MaxNow}, end : 0 .. MaxNow]
Filtered(f) == {i \in DOMAIN events : /\ f.tenant \in {"any", events[i].tenant}
                                      /\ events[i].timestamp \in f.start .. f.end}

\* The keys in the order of their text; no events make one bucket "<none>".
NameOrder(k, l) == IF k[1] = "" THEN k[2] < l[2]
                   ELSE \E m, n \in DOMAIN Payers : m < n /\ Payers[m] = k[1] /\ Payers[n] = l[1]
Bucket(dimension, key, S) ==
    LET of == {i \in S : KeyFor(events[i], dimension) = key}
    IN [key |-> key, total |-> CostOf(events, of), count |-> Cardinality(of)]
Aggregate_LastSlot(dimension, f) ==
    LET last(key) == {Max({i \in Filtered(f) : KeyFor(events[i], dimension) = key})}
        keys == {KeyFor(events[i], dimension) : i \in Filtered(f)}
    IN IF keys = {} THEN <<[key |-> <<"<none>", 0>>, total |-> 0, count |-> 0]>>
       ELSE LET order == SetToSortSeq(keys, NameOrder)
            IN [n \in DOMAIN order |-> Bucket(dimension, order[n], last(order[n]))]
Aggregate(dimension, f) ==
    LET keys == {KeyFor(events[i], dimension) : i \in Filtered(f)}
    IN IF keys = {} THEN <<[key |-> <<"<none>", 0>>, total |-> 0, count |-> 0]>>
       ELSE LET order == SetToSortSeq(keys, NameOrder)
            IN [n \in DOMAIN order |-> Bucket(dimension, order[n], Filtered(f))]

TotalOf(buckets) == FoldSeq(LAMBDA b, sum : sum + b.total, 0, buckets)
EventsOf(buckets) == FoldSeq(LAMBDA b, sum : sum + b.count, 0, buckets)

\* The route cuts the list of buckets and totals what it kept; a range that ends
\* before it starts is refused, whereas aggregate finds nothing in it.
Refused == [status |-> 400]
GetGovernanceCosts(dimension, f, limit) ==
    IF f.start > f.end THEN Refused
    ELSE LET all == Aggregate(dimension, f)
             kept == SubSeq(all, 1, IF limit < Len(all) THEN limit ELSE Len(all))
         IN [status |-> 200, total |-> TotalOf(kept), buckets |-> kept]

(* ---- Alerts ------------------------------------------------------------- *)
Alert(dimension, key, limit) == [group_by |-> dimension, key |-> key, threshold |-> limit]

\* record: the event is appended, then each threshold sums the window that
\* ends at the event's own stamp.
MaybeAlert_Strict(log, e, th) ==
    LET key == KeyFor(e, th.dimension)
        prior == {i \in DOMAIN log : /\ log[i].timestamp \in e.timestamp - th.window .. e.timestamp - 1
                                     /\ KeyFor(log[i], th.dimension) = key}
    IN IF CostOf(log, prior) > th.limit THEN {Alert(th.dimension, key, th.limit)} ELSE {}
MaybeAlert(log, e, th) ==
    LET key == KeyFor(e, th.dimension)
        prior == {i \in DOMAIN log : /\ log[i].timestamp \in e.timestamp - th.window .. e.timestamp
                                     /\ KeyFor(log[i], th.dimension) = key}
    IN IF CostOf(log, prior) > th.limit THEN {Alert(th.dimension, key, th.limit)} ELSE {}

\* check_budgets: what it reports of each threshold, for the window that ends now.
OverBudget(th, key) ==
    CostOf(events, EventsIn(th.dimension, key, now - th.window, now)) > th.limit
CheckBudgets(th) ==
    {Alert(th.dimension, KeyFor(events[i], th.dimension), th.limit) :
        i \in {j \in DOMAIN events : OverBudget(th, KeyFor(events[j], th.dimension))}}

AggregatorInit ==
    /\ now = 0
    /\ made = {}
    /\ events = <<>>
    /\ thresholds = {}
    /\ alerts = {}

Tick == now < MaxNow /\ now' = now + 1 /\ UNCHANGED <<made, events, thresholds, alerts>>

MakeEvent(p, cost) ==
    /\ Len(events) + Cardinality(made) < MaxEvents
    /\ made' = made \cup {[tenant |-> p, cost |-> cost, timestamp |-> now]}
    /\ UNCHANGED <<now, events, thresholds, alerts>>

Record(e) ==
    /\ made' = made \ {e}
    /\ events' = Append(events, e)
    /\ alerts' = alerts \cup UNION {MaybeAlert(events', e, th) : th \in thresholds}
    /\ UNCHANGED <<now, thresholds>>

\* since: how many events a threshold found recorded when it was set.
SetThreshold(dimension, limit, window) ==
    /\ Cardinality(thresholds) < MaxThresholds
    /\ thresholds' = thresholds \cup {[dimension |-> dimension, limit |-> limit,
                                       window |-> window, since |-> Len(events)]}
    /\ UNCHANGED <<now, made, events, alerts>>

AggregatorNext ==
    \/ Tick
    \/ \E p \in Range(Payers), cost \in Costs : MakeEvent(p, cost)
    \/ \E e \in made : Record(e)
    \/ \E d \in GroupBy, l \in Limits, w \in Windows : SetThreshold(d, l, w)

AggregatorSpec == AggregatorInit /\ [][AggregatorNext]_costVars

AggregatorTypeOK ==
    /\ now \in 0 .. MaxNow
    /\ \A e \in made : e.tenant \in Range(Payers) /\ e.timestamp \in 0 .. now
    /\ \A i \in DOMAIN events : events[i].cost \in Costs /\ events[i].timestamp <= now
    /\ \A a \in alerts : a.group_by \in GroupBy /\ a.threshold \in Limits

(* What check_budgets reports, record has told: a key over the limit of a   *)
(* threshold in the window that ends now was alerted, unless its events     *)
(* were recorded out of the order of their stamps or the threshold was set  *)
(* after the last of them (cost_allocation.py:181, 378).                    *)
Ordered(S) == \A i, j \in S : i < j => events[i].timestamp <= events[j].timestamp
AlertsComplete ==
    \A th \in thresholds :
        \A key \in {KeyFor(events[i], th.dimension) : i \in DOMAIN events} :
            LET S == EventsIn(th.dimension, key, now - th.window, now) IN
              /\ Alert(th.dimension, key, th.limit) \in CheckBudgets(th)
              /\ Ordered(S)
              /\ Max(S) > th.since
              => Alert(th.dimension, key, th.limit) \in alerts

(* Whatever was recorded in whatever order: the buckets of a query hold each  *)
(* event of its filter once, along every dimension; the route reports less   *)
(* than was spent only where it cut buckets off; and an alert is about a      *)
(* bucket that is over its threshold (cost_allocation.py:220-325, 469-530).   *)
Unbounded == [tenant |-> "any", start |-> 0, end |-> MaxNow]
BucketsTell ==
    /\ \A d \in GroupBy, f \in Filters : \A buckets \in {Aggregate(d, f)} :
         /\ EventsOf(buckets) = Cardinality(Filtered(f))
         /\ TotalOf(buckets) = CostOf(events, Filtered(f))
         /\ LET answer == GetGovernanceCosts(d, f, 1) IN
              answer # Refused /\ answer.total # TotalOf(buckets) => Len(answer.buckets) < Len(buckets)
    /\ \A a \in alerts :
         \E b \in Range(Aggregate(a.group_by, Unbounded)) : b.key = a.key /\ b.total > a.threshold

-----------------------------------------------------------------------------
(* CostAllocationService: budgets of tenants.                               *)

budgetVars == <<half, spent, budget, charge, charges>>

Halves == 0 .. MaxHalf
DayOf(h) == h \div 2

\* Windows are half-open; one that is not given is the month of the call.
Span(start, end) == [start |-> start, end |-> end]
MonthBounds(h) == LET month == DayOf(h) \div MonthLength
                  IN Span(2 * MonthLength * month, 2 * MonthLength * (month + 1))
NoWindow == Span(-1, -1)
ValidWindow(w) == w = NoWindow \/ w.start < w.end
ResolveWindow(w) == IF w = NoWindow THEN MonthBounds(half) ELSE w
HalvesIn(w) == {h \in Halves : w.start <= h /\ h < w.end}

NoBudget == [limit |-> -1, window |-> NoWindow, charged |-> FALSE, told |-> "ok"]
NoCharge == [at |-> "none"]

GetTenantCosts(tn, w) == FoldSet(LAMBDA h, sum : sum + spent[tn][h], 0, HalvesIn(w))

\* One entry for every day from the window's first to the one before its last.
GetDailyBreakdown_EveryAmount(tn, w) ==
    [d \in DayOf(w.start) .. DayOf(w.end) - 1 |->
        FoldSet(LAMBDA h, sum : sum + spent[tn][h], 0, {h \in Halves : DayOf(h) = d})]
GetDailyBreakdown(tn, w) ==
    [d \in DayOf(w.start) .. DayOf(w.end) - 1 |->
        FoldSet(LAMBDA h, sum : sum + spent[tn][h], 0, {h \in HalvesIn(w) : DayOf(h) = d})]
Daily(tn, w) == LET days == GetDailyBreakdown(tn, w)
                IN FoldSet(LAMBDA d, sum : sum + days[d], 0, DOMAIN days)

\* The state of a budget; its window is the one it was set with, whatever the day.
BudgetWindow_Current(tn) == MonthBounds(half)
BudgetWindow(tn) == budget[tn].window
TermsOf(tn) == [limit |-> budget[tn].limit, window |-> BudgetWindow(tn)]
CheckBudgetExceeded(tn, terms) ==
    LET spend == GetTenantCosts(tn, terms.window) IN
      [exceeded |-> spend > terms.limit,
       warning |-> 100 * spend >= terms.limit * WarningPct /\ ~(spend > terms.limit)]
LevelOf(tn, terms) == IF CheckBudgetExceeded(tn, terms).exceeded THEN "exceeded"
                      ELSE IF CheckBudgetExceeded(tn, terms).warning THEN "warning" ELSE "ok"
Level(tn) == IF budget[tn] = NoBudget THEN "ok" ELSE LevelOf(tn, TermsOf(tn))
Higher(l, m) == IF l = "exceeded" \/ m = "ok" THEN l ELSE m

(* ---- Answers of the routes ---------------------------------------------- *)
\* vars() fails on the entries of the breakdown, which have slots.
CostsAnswer(tn, w) == IF ValidWindow(w) THEN GetTenantCosts(tn, ResolveWindow(w)) ELSE 400
DailyAnswer(tn, w) ==
    IF ~ValidWindow(w) THEN 400
    ELSE IF DOMAIN GetDailyBreakdown(tn, ResolveWindow(w)) = {} THEN 200 ELSE 500

(* ---- Steps --------------------------------------------------------------- *)
BudgetInit ==
    /\ half = 0
    /\ spent = [tn \in Tenants |-> [h \in Halves |-> 0]]
    /\ budget = [tn \in Tenants |-> NoBudget]
    /\ charge = [c \in Chargers |-> NoCharge]
    /\ charges = 0

HalfDay == /\ half < MaxHalf /\ half' = half + 1
           /\ UNCHANGED <<spent, budget, charge, charges>>

\* A new budget replaces the old one; its window is the month of this call.
SetBudgetLimit(tn, limit) ==
    /\ budget' = [budget EXCEPT ![tn] = [limit |-> limit, window |-> MonthBounds(half),
                                         charged |-> FALSE, told |-> "ok"]]
    /\ UNCHANGED <<half, spent, charge, charges>>

StampCharge(c, tn, amount) ==
    /\ charge[c] = NoCharge /\ charges < MaxCharges
    /\ charge' = [charge EXCEPT ![c] = [at |-> "append", tenant |-> tn,
                                        amount |-> amount, stamp |-> half]]
    /\ charges' = charges + 1
    /\ UNCHANGED <<half, spent, budget>>

AppendCharge(c) ==
    /\ charge[c].at = "append"
    /\ LET tn == charge[c].tenant  h == charge[c].stamp IN
         /\ spent' = [spent EXCEPT ![tn][h] = @ + charge[c].amount]
         /\ budget' = [budget EXCEPT ![tn].charged = @ \/ h \in HalvesIn(budget[tn].window)]
    /\ charge' = [charge EXCEPT ![c] = [at |-> "read", tenant |-> charge[c].tenant]]
    /\ UNCHANGED <<half, charges>>

\* The soft check, a lock each for the budget and for the list of charges: the
\* budget may be replaced, and others may charge and log, between its steps.
ReadBudget(c) ==
    /\ charge[c].at = "read"
    /\ LET tn == charge[c].tenant IN
         charge' = [charge EXCEPT ![c] = IF budget[tn] = NoBudget THEN NoCharge
                                         ELSE [at |-> "sum", tenant |-> tn, terms |-> TermsOf(tn)]]
    /\ UNCHANGED <<half, spent, budget, charges>>

SumCosts_Warned(c) ==
    /\ charge[c].at = "sum"
    /\ LET tn == charge[c].tenant  terms == charge[c].terms IN
         charge' = [charge EXCEPT ![c] = IF budget[tn].told # "ok" THEN NoCharge
                                         ELSE [at |-> "log", tenant |-> tn, terms |-> terms,
                                               level |-> LevelOf(tn, terms)]]
    /\ UNCHANGED <<half, spent, budget, charges>>
SumCosts(c) ==
    /\ charge[c].at = "sum"
    /\ LET tn == charge[c].tenant  terms == charge[c].terms IN
         charge' = [charge EXCEPT ![c] = [at |-> "log", tenant |-> tn, terms |-> terms,
                                          level |-> LevelOf(tn, terms)]]
    /\ UNCHANGED <<half, spent, budget, charges>>

\* The charge stands whatever is logged; told: the highest level logged about
\* the terms of the present budget since it was set.
LogCharge(c) ==
    /\ charge[c].at = "log"
    /\ LET tn == charge[c].tenant IN
         budget' = [budget EXCEPT ![tn].told = IF charge[c].terms = TermsOf(tn)
                                               THEN Higher(@, charge[c].level) ELSE @]
    /\ charge' = [charge EXCEPT ![c] = NoCharge]
    /\ UNCHANGED <<half, spent, charges>>

BudgetNext ==
    \/ HalfDay
    \/ \E tn \in Tenants, limit \in BudgetLimits : SetBudgetLimit(tn, limit)
    \/ \E c \in Chargers : \/ \E tn \in Tenants, a \in Amounts : StampCharge(c, tn, a)
                           \/ AppendCharge(c)
                           \/ ReadBudget(c)
                           \/ SumCosts(c)
                           \/ LogCharge(c)

BudgetSpec == BudgetInit /\ [][BudgetNext]_budgetVars

BudgetTypeOK ==
    /\ half \in Halves
    /\ spent \in [Tenants -> [Halves -> Nat]]
    /\ \A tn \in Tenants : budget[tn] = NoBudget \/ budget[tn].limit \in BudgetLimits
    /\ \A c \in Chargers : charge[c].at \in {"none", "append", "read", "sum", "log"}

(* Charges overlap and log in any order, so the last line logged may be too  *)
(* low; the highest one about the present budget is not.  It is never above *)
(* the level the budget is at, and once the checks of the tenant's charges  *)
(* are over it is that level, even when the budget was replaced meanwhile   *)
(* or its month ended in the middle of a charge                             *)
(* (cost_allocation.py:269-330, 446-490).                                   *)
Checking(tn) == \E c \in Chargers : charge[c].at \in {"read", "sum", "log"} /\ charge[c].tenant = tn
OverspendTold ==
    \A tn \in Tenants :
        /\ Higher(budget[tn].told, Level(tn)) = Level(tn)
        /\ budget[tn].charged /\ ~ Checking(tn) => budget[tn].told = Level(tn)

(* The days of a breakdown add up to the costs of its window, except for    *)
(* what was spent on the day in the middle of which the window ends; the    *)
(* route shows none of them (cost_allocation.py:332-402, 578-606).          *)
DaysAddUp ==
    \A tn \in Tenants, start \in {0, 1} : \A end \in 1 .. MaxHalf + 1 :
        LET w == Span(start, end) IN
        start < end =>
          /\ DailyAnswer(tn, w) = 200 => Daily(tn, w) = 0
          /\ CostsAnswer(tn, w) - Daily(tn, w) =
                 IF end % 2 = 0 THEN 0
                 ELSE GetTenantCosts(tn, Span(IF start < end - 1 THEN end - 1 ELSE start, end))
=============================================================================
