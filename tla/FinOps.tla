------------------------------- MODULE FinOps -------------------------------
(* The cost records of the control plane: FinOpsEngine and its repository   *)
(* (finops/engine.py, repository.py), fed by two routes (app/main.py) and by *)
(* the bridge that every event of a dispatch passes (finops/bridge.py), and  *)
(* read by the exporter of /metrics (finops/metrics.py).  Each method of the *)
(* repository commits on its own, so recording a seat is two commits and a   *)
(* scrape is several reads, while others record.                             *)
EXTENDS Naturals, FiniteSetsExt, SequencesExt

CONSTANTS
    Recordings,     \* calls that record: requests of the routes, events of dispatches
    UsageOf,        \* Recordings -> the parts of their payload, in order
    Bridged,        \* the recordings that come by the bridge
    CostProjects,   \* projects, in the order of their ids
    IdlePct,        \* idle_threshold_pct
    MaxScrapes      \* bound: scrapes

VARIABLES
    costs,          \* finops_cost_records
    usage,          \* finops_seat_usage
    recording,      \* each call: parts left, the step of the first, what it answers
    scrape          \* the exporter: where it is, and what it has read

finopsVars == <<costs, usage, recording, scrape>>

(* A part of a payload: its engine, project, amount of money, and the model  *)
(* or vendor it names; a seat also has the seconds used and of the period    *)
(* (a vendor has one seat here, named like the vendor).                      *)
StepsOf_CostFirst(part) == IF part.engine = "seat" THEN <<"cost", "observe">> ELSE <<"cost">>
StepsOf(part) == IF part.engine = "seat" THEN <<"observe", "cost">> ELSE <<"cost">>
NoScrape == [at |-> "list", left |-> <<>>, read |-> {}, begun |-> 0]

Init ==
    /\ costs = {} /\ usage = {}
    /\ recording = [c \in Recordings |->
                      [at |-> "new", part |-> 1, steps |-> <<>>, records |-> {}, answer |-> "none"]]
    /\ scrape = NoScrape

(* ---- Recording --------------------------------------------------------- *)
Part(c) == UsageOf[c][recording[c].part]
\* The part after this one, or the end of the call.
NextPart(c, call) ==
    IF call.part = Len(UsageOf[c])
    THEN [call EXCEPT !.at = "ended", !.steps = <<>>, !.answer = "ok"]
    ELSE [call EXCEPT !.part = @ + 1, !.steps = StepsOf(UsageOf[c][call.part + 1])]
\* The bridge logs a failure and goes on with the next part; a route answers 500.
AfterFailure(c) ==
    IF c \in Bridged THEN NextPart(c, recording[c])
    ELSE [recording[c] EXCEPT !.at = "ended", !.steps = <<>>, !.answer = "failed"]

\* A payload without usage records nothing.
BeginRecording(c) ==
    /\ recording[c].at = "new"
    /\ recording' = [recording EXCEPT ![c] =
          IF UsageOf[c] = <<>> THEN [@ EXCEPT !.at = "ended", !.answer = "ok"]
          ELSE [@ EXCEPT !.at = "running", !.steps = StepsOf(UsageOf[c][1])]]
    /\ UNCHANGED <<costs, usage, scrape>>

\* A period without seconds is refused before anything is written.
RefusePeriod(c) ==
    /\ recording[c].steps # <<>> /\ Head(recording[c].steps) = "observe"
    /\ Part(c).period = 0
    /\ recording' = [recording EXCEPT ![c] = AfterFailure(c)]
    /\ UNCHANGED <<costs, usage, scrape>>

InsertSeatObservation(c) ==
    /\ recording[c].steps # <<>> /\ Head(recording[c].steps) = "observe"
    /\ Part(c).period > 0
    /\ usage' = usage \cup {[call |-> c, seat |-> Part(c).key, used |-> Part(c).used,
                              period |-> Part(c).period]}
    /\ recording' \in {[recording EXCEPT ![c].steps = Tail(@)], [recording EXCEPT ![c] = AfterFailure(c)]}
    /\ UNCHANGED <<costs, scrape>>

Record(c) == [call |-> c, part |-> recording[c].part, engine |-> Part(c).engine,
              project |-> Part(c).project, key |-> Part(c).key, cost |-> Part(c).cost]
\* The record is returned, unless the answer to its commit is lost.
InsertCost(c) ==
    /\ recording[c].steps # <<>> /\ Head(recording[c].steps) = "cost"
    /\ costs' = costs \cup {Record(c)}
    /\ recording' \in {[recording EXCEPT ![c] = NextPart(c, [recording[c] EXCEPT !.records = @ \cup {Record(c)}])],
                       [recording EXCEPT ![c] = AfterFailure(c)]}
    /\ UNCHANGED <<usage, scrape>>

\* A statement fails and is rolled back, or the process stops.
StatementFails(c) ==
    /\ recording[c].steps # <<>>
    /\ recording' \in {[recording EXCEPT ![c] = AfterFailure(c)],
                       [recording EXCEPT ![c].at = "stopped", ![c].steps = <<>>]}
    /\ UNCHANGED <<costs, usage, scrape>>

(* ---- Reports ----------------------------------------------------------- *)
OfProject(p) == {r \in costs : r.project = p}
CostSum(S) == FoldSet(LAMBDA r, sum : sum + r.cost, 0, S)
RollupProject(p) ==
    [total |-> CostSum(OfProject(p)),
     token |-> CostSum({r \in OfProject(p) : r.engine = "token"}),
     seat |-> CostSum({r \in OfProject(p) : r.engine = "seat"}),
     count |-> Cardinality(OfProject(p))]

\* COALESCE(metadata->>dimension, 'unknown'): tokens have a model, seats a vendor.
KeyOf(dimension, r) ==
    IF dimension = (IF r.engine = "token" THEN "model" ELSE "vendor") THEN r.key ELSE "unknown"
RollupByDimension_Named(p, dimension) ==
    {[key |-> k, total |-> CostSum({r \in OfProject(p) : KeyOf(dimension, r) = k})] :
        k \in {KeyOf(dimension, r) : r \in OfProject(p)} \ {"unknown"}}
RollupByDimension(p, dimension) ==
    {[key |-> k, total |-> CostSum({r \in OfProject(p) : KeyOf(dimension, r) = k})] :
        k \in {KeyOf(dimension, r) : r \in OfProject(p)}}

ListProjects == SelectSeq(CostProjects, LAMBDA p : OfProject(p) # {})

\* idle_seat_recommendations: below the threshold of what was observed in all.
UsedOf(s) == FoldSet(LAMBDA o, sum : sum + o.used, 0, {o \in usage : o.seat = s})
PeriodOf(s) == FoldSet(LAMBDA o, sum : sum + o.period, 0, {o \in usage : o.seat = s})
IdleSeatRecommendations ==
    {[seat |-> s, idle |-> UsedOf(s) * 100 < IdlePct * PeriodOf(s)] : s \in {o.seat : o \in usage}}

\* all_project_metrics: the projects, then three reads for each of them.
BeginScrape ==
    /\ scrape.at = "list" /\ scrape.begun < MaxScrapes
    /\ scrape' = [at |-> IF ListProjects = <<>> THEN "list" ELSE "rollup", left |-> ListProjects,
                  read |-> {}, begun |-> scrape.begun + 1]
    /\ UNCHANGED <<costs, usage, recording>>
Reading(at, next, value) ==
    /\ scrape.at = at
    /\ scrape' = [scrape EXCEPT !.at = next, !.read = @ \cup {<<Head(scrape.left), at, value>>}]
    /\ UNCHANGED <<costs, usage, recording>>
ReadRollup == Reading("rollup", "model", RollupProject(Head(scrape.left)))
ReadModels == Reading("model", "vendor", RollupByDimension(Head(scrape.left), "model"))
ReadVendors ==
    /\ scrape.at = "vendor"
    /\ LET rest == Tail(scrape.left)
       IN scrape' = [scrape EXCEPT !.at = IF rest = <<>> THEN "list" ELSE "rollup", !.left = rest,
                       !.read = @ \cup {<<Head(scrape.left), "vendor",
                                          RollupByDimension(Head(scrape.left), "vendor")>>}]
    /\ UNCHANGED <<costs, usage, recording>>

Next ==
    \/ \E c \in Recordings :
         \/ BeginRecording(c) \/ RefusePeriod(c) \/ InsertSeatObservation(c)
         \/ InsertCost(c) \/ StatementFails(c)
    \/ BeginScrape \/ ReadRollup \/ ReadModels \/ ReadVendors
Spec == Init /\ [][Next]_finopsVars

(* ---- Properties ------------------------------------------------------- *)
TypeOK ==
    /\ \A r \in costs : r.call \in Recordings /\ r.engine \in {"token", "seat"} /\ r.project \in Range(CostProjects)
    /\ \A o \in usage : o.call \in Recordings /\ o.period > 0
    /\ \A c \in Recordings : recording[c].at \in {"new", "running", "ended", "stopped"}
    /\ scrape.at \in {"list", "rollup", "model", "vendor"} /\ scrape.begun \in 0..MaxScrapes

\* engine.py:57-92, bridge.py:49-103: what a call answers it has recorded, and
\* a route that answered "ok" all of its payload.  Every seat that was charged
\* was observed, so it is in the advice on idle seats; a seat observed and
\* not charged is that of a call under way, failed or stopped.
RecordsTell ==
    /\ \A c \in Recordings :
         /\ recording[c].records \subseteq costs
         /\ recording[c].answer = "ok" /\ c \notin Bridged =>
              {r.part : r \in recording[c].records} = DOMAIN UsageOf[c]
    /\ \A r \in costs : r.engine = "seat" =>
         /\ \E o \in usage : o.call = r.call /\ o.seat = r.key
         /\ \E a \in IdleSeatRecommendations : a.seat = r.key
    /\ \A o \in usage :
         \/ \E r \in costs : r.call = o.call /\ r.engine = "seat" /\ r.key = o.seat
         \/ recording[o.call].at \in {"running", "stopped"}
         \/ recording[o.call].answer = "failed" \/ o.call \in Bridged

\* metrics.py:40-80: the series of one scrape were read one after the other,
\* while records are only added.  So each of them adds up to at least the
\* one before and to no more than there is now; none is without its key.
Total(buckets) == FoldSet(LAMBDA b, sum : sum + b.total, 0, buckets)
Unknown(buckets) == Total({b \in buckets : b.key = "unknown"})
SeriesAddUp ==
    \A p \in Range(CostProjects) : \A x, y, z \in scrape.read :
        x[1] = p /\ y[1] = p /\ z[1] = p /\ x[2] = "rollup" /\ y[2] = "model" /\ z[2] = "vendor" =>
            /\ x[3].total = x[3].token + x[3].seat
            /\ x[3].total <= Total(y[3]) /\ Total(y[3]) <= Total(z[3])
            /\ Total(z[3]) <= RollupProject(p).total
            /\ x[3].seat <= Unknown(y[3]) /\ x[3].token <= Unknown(z[3])
=============================================================================
