--------------------------- MODULE ProjectPlanner ---------------------------
(* Project mode of HerdMaster: ProjectPlanner (project/planner.py), its ETA *)
(* (project/eta.py), ProjectRepo (db/repositories.py) and the project      *)
(* routes of the control API.  A project is analysed by an agent, approved *)
(* by a human, broken into task rows, and followed by its progress.  The   *)
(* analysis is awaited, so every route may run while it is under way.      *)
EXTENDS Naturals, Sequences, SequencesExt, FiniteSetsExt, TLC

CONSTANTS
    Projects,       \* project ids
    Keys,           \* keys of a plan's entries
    Plans,          \* the plans an orchestrator's answer may hold
    Overrides,      \* assignments a human may send with an approval
    PatchStates,    \* states a client may PATCH into a project
    MaxApprovals    \* bound: approvals of one project that pass the guard

VARIABLES
    project,    \* projects table: state, analysis, ETA; calls that still run
    prow        \* tasks rows of each project, by approval and entry

plannerVars == <<project, prow>>

NoPlan == [entries |-> <<>>, deps |-> [k \in Keys |-> {}], bad |-> {}]
ProjectStates == {"absent", "submitted", "analyzing", "awaiting_approval", "approved",
                  "in_progress", "completed", "cancelled"}
TaskTerminal == {"done", "failed", "cancelled"}

(* ---- Order of a plan: _topological_order, depth first ----------------- *)
(* An entry names its dependencies in the order in which they are declared. *)
DfsState == [visiting : SUBSET Keys, ordered : Seq(Keys)]

\* Entries being visited are skipped, so a cycle is cut, not refused.
Visit(plan) ==
    LET visit[k \in Keys, st \in DfsState] ==
            IF k \in st.visiting \cup ToSet(st.ordered) THEN st
            ELSE LET parents == SelectSeq(plan.entries, LAMBDA d : d \in plan.deps[k])
                     inner == FoldLeft(LAMBDA s, d : visit[d, s],
                                       [st EXCEPT !.visiting = @ \cup {k}], parents)
                 IN [visiting |-> st.visiting, ordered |-> Append(inner.ordered, k)]
    IN visit

TopologicalOrder_Declared(plan) == plan.entries
TopologicalOrder(plan) ==
    FoldLeft(LAMBDA s, k : Visit(plan)[k, s],
             [visiting |-> {}, ordered |-> <<>>], plan.entries).ordered

\* Rows are enqueued in that order up to the first that is refused (an unknown
\* priority, an agent that does not exist); a row depends on rows before it.
Accepted(plan) ==
    LET order == TopologicalOrder(plan)
        refused == {i \in DOMAIN order : order[i] \in plan.bad}
    IN IF refused = {} THEN order ELSE SubSeq(order, 1, Min(refused) - 1)

EnqueuedRows(plan, n) ==
    LET order == Accepted(plan)
    IN [id \in {n} \X ToSet(order) |->
          [state |-> "queued",
           deps |-> {<<n, order[i]>> : i \in {j \in DOMAIN order :
                        /\ order[j] \in plan.deps[id[2]]
                        /\ \E m \in DOMAIN order : order[m] = id[2] /\ j < m}}]]

(* ---- ETA: longest chain, memoised; entries being visited count as 1 --- *)
Levels(plan, onVisit) ==
    LET Memo == [visiting : SUBSET Keys, level : [Keys -> Nat]]
        level[k \in Keys, st \in Memo] ==
            IF st.level[k] > 0 \/ k \in st.visiting THEN st
            ELSE LET parents == SelectSeq(plan.entries, LAMBDA d : d \in plan.deps[k])
                     value(s, d) == IF s.level[d] > 0 THEN s.level[d] ELSE onVisit
                     inner == FoldLeft(LAMBDA a, d : LET s == level[d, a.st] IN
                                         [st |-> s, top |-> Max({a.top, value(s, d)})],
                                       [st |-> [st EXCEPT !.visiting = @ \cup {k}], top |-> 0],
                                       parents)
                 IN [visiting |-> st.visiting, level |-> [inner.st.level EXCEPT ![k] = 1 + inner.top]]
    IN FoldLeft(LAMBDA s, k : level[k, s],
                [visiting |-> {}, level |-> [k \in Keys |-> 0]], plan.entries).level

CriticalPathDepth(plan) == Max({1} \cup {Levels(plan, 1)[k] : k \in Keys})
MaxIndependent(plan) ==
    Max({1} \cup {Cardinality({k \in ToSet(plan.entries) : Levels(plan, 0)[k] = n})
                    : n \in 1 .. Len(plan.entries)})
EtaEstimate(plan) == [depth |-> CriticalPathDepth(plan), width |-> MaxIndependent(plan)]
HumanEta == [depth |-> 0, width |-> 0]    \* an ETA sent with an approval

(* ---- Progress --------------------------------------------------------- *)
\* update_progress, also called by every GET: a project all of whose rows are
\* done becomes completed, whatever its state was; nothing leaves completed.
Progressed_Reported(state, rows) ==
    IF DOMAIN rows # {} /\ \A id \in DOMAIN rows : rows[id].state \in {"done", "failed"}
    THEN "completed" ELSE state
Progressed(state, rows) ==
    IF DOMAIN rows # {} /\ \A id \in DOMAIN rows : rows[id].state = "done"
    THEN "completed" ELSE state

Init ==
    /\ project = [p \in Projects |->
                    [state |-> "absent", plan |-> NoPlan, eta |-> EtaEstimate(NoPlan),
                     analysing |-> FALSE, approvals |-> 0, chosen |-> NoPlan, whole |-> TRUE]]
    /\ prow = [p \in Projects |-> <<>>]

(* ---- Creation: the row exists before the analysis is awaited ---------- *)
CreateProject(p) ==
    /\ project[p].state = "absent"
    /\ project' = [project EXCEPT ![p].state = "analyzing", ![p].analysing = TRUE]
    /\ UNCHANGED prow

\* The first JSON object on the orchestrator's pane becomes the plan: the answer,
\* an earlier answer, or the example in the prompt itself.  No state is tested.
AnalysisRead(p) ==
    /\ project[p].analysing
    /\ \E plan \in Plans :
         project' = [project EXCEPT ![p].state = Progressed("awaiting_approval", prow[p]),
                                    ![p].plan = plan, ![p].eta = EtaEstimate(plan),
                                    ![p].analysing = FALSE]
    /\ UNCHANGED prow

\* No orchestrator, a refused dispatch, 360 polls without JSON: the row stays.
AnalysisFails(p) ==
    /\ project[p].analysing
    /\ project' = [project EXCEPT ![p].analysing = FALSE]
    /\ UNCHANGED prow

(* ---- Approval --------------------------------------------------------- *)
\* A human may send a breakdown: "override" takes it, "modify" takes it when the
\* analysis has one; an empty breakdown is refused (but not by "modify").
Decision(p, decision, given) ==
    LET refusable == IF decision = "override" /\ given # {} THEN given ELSE {project[p].plan}
    IN [ok |-> \A plan \in refusable : plan.entries # <<>>,
        plans |-> IF decision = "modify" /\ given # {} THEN given ELSE refusable]

Approve(p) ==
    /\ project[p].state = "awaiting_approval"
    /\ project[p].approvals < MaxApprovals
    /\ \E decision \in {"accept", "modify", "override"}, given \in {{}} \cup {{o} : o \in Overrides},
          eta \in {project[p].eta, HumanEta} :
         LET d == Decision(p, decision, given)
             n == project[p].approvals + 1
         IN /\ d.ok
            /\ \E specs \in d.plans :
                 LET rows == EnqueuedRows(specs, n) @@ prow[p]
                     whole == Accepted(specs) = TopologicalOrder(specs)
                 IN /\ prow' = [prow EXCEPT ![p] = rows]
                    /\ project' = [project EXCEPT
                         ![p].approvals = n, ![p].chosen = specs, ![p].whole = whole, ![p].eta = eta,
                         ![p].state = IF whole THEN Progressed("in_progress", rows) ELSE "approved"]

(* ---- The other routes ------------------------------------------------- *)
\* GET /projects/{id}
Read(p) ==
    /\ project[p].state # "absent"
    /\ project' = [project EXCEPT ![p].state = Progressed(@, prow[p])]
    /\ UNCHANGED prow

\* PATCH with a state writes it as it is.
PatchProject(p) ==
    /\ project[p].state # "absent"
    /\ \E s \in PatchStates :
         project' = [project EXCEPT ![p].state = Progressed(s, prow[p]), ![p].whole = FALSE]
    /\ UNCHANGED prow

\* DELETE cancels what is not finished; the reply recomputes the progress.
DeleteProject(p) ==
    LET rows == [id \in DOMAIN prow[p] |->
                   IF prow[p][id].state \in TaskTerminal THEN prow[p][id]
                   ELSE [prow[p][id] EXCEPT !.state = "cancelled"]]
    IN /\ project[p].state # "absent"
       /\ prow' = [prow EXCEPT ![p] = rows]
       /\ project' = [project EXCEPT ![p].state = Progressed("cancelled", rows)]

(* ---- The rows, as Dispatch and the task routes move them -------------- *)
\* A queued task is claimed when its dependencies are done.
TaskClaimed(p) == \E id \in DOMAIN prow[p] :
    /\ prow[p][id].state = "queued"
    /\ \A d \in prow[p][id].deps : prow[p][d].state = "done"
    /\ prow' = [prow EXCEPT ![p][id].state = "claimed"]
    /\ UNCHANGED project

\* Agents report what they were given, also after a cancellation.
TaskReported(p) == \E id \in DOMAIN prow[p], s \in {"done", "failed"} :
    /\ prow[p][id].state \in {"claimed", "cancelled"}
    /\ prow' = [prow EXCEPT ![p][id].state = s]
    /\ UNCHANGED project

TaskReassigned(p) == \E id \in DOMAIN prow[p] :
    /\ prow[p][id].state = "failed"
    /\ prow' = [prow EXCEPT ![p][id].state = "queued"]
    /\ UNCHANGED project

Next == \E p \in Projects :
    \/ CreateProject(p) \/ AnalysisRead(p) \/ AnalysisFails(p)
    \/ Approve(p) \/ Read(p) \/ PatchProject(p) \/ DeleteProject(p)
    \/ TaskClaimed(p) \/ TaskReported(p) \/ TaskReassigned(p)

Spec == Init /\ [][Next]_plannerVars

(* ---- Properties ------------------------------------------------------- *)
TypeOK ==
    /\ \A p \in Projects : project[p].state \in ProjectStates
    /\ \A p \in Projects : \A id \in DOMAIN prow[p] :
         prow[p][id].state \in {"queued", "claimed"} \cup TaskTerminal

\* x depends on y in the plan, through any number of entries.
DependsOn(plan, x, y) ==
    LET reach[n \in Nat] == IF n = 0 THEN plan.deps[x]
                            ELSE reach[n - 1] \cup UNION {plan.deps[k] : k \in reach[n - 1]}
    IN y \in reach[Cardinality(Keys)]

\* A declared dependency is kept on the row unless it lies on a cycle, and
\* rows never wait for each other in a circle.
OrderKept(p) == \A id \in DOMAIN prow[p] :
    LET plan == project[p].chosen IN
    /\ \A d \in prow[p][id].deps : d \in DOMAIN prow[p] /\ id \notin prow[p][d].deps
    /\ id[1] = project[p].approvals =>
         \A k \in plan.deps[id[2]] \cap ToSet(plan.entries) :
            <<id[1], k>> \in prow[p][id].deps \/ DependsOn(plan, k, id[2])

\* The longest chain of a project's rows; the ETA counts at least as many.
RowDepth(p) ==
    LET depth[n \in Nat, id \in DOMAIN prow[p]] ==
            IF n = 0 \/ prow[p][id].deps = {} THEN 1
            ELSE 1 + Max({depth[n - 1, d] : d \in prow[p][id].deps})
    IN Max({0} \cup {depth[Cardinality(Keys), id] : id \in DOMAIN prow[p]})
EtaCoversRows(p) ==
    project[p].chosen = project[p].plan /\ project[p].eta # HumanEta
        => RowDepth(p) <= project[p].eta.depth

\* planner.py:304, eta.py:76: what is queued respects the plan that was
\* approved, cycles cut, and the two traversals of the plan agree.
PlanKept == \A p \in Projects : OrderKept(p) /\ EtaCoversRows(p)

\* repositories.py:806: a project completes only when every entry of what was
\* approved has been done; after an approval that failed half-way, or a PATCH,
\* the rows that exist are all that is asked for.
CompletedInFull ==
    [][\A p \in Projects :
        /\ project[p].state # "completed" /\ project'[p].state = "completed"
        /\ project'[p].whole
        => \A k \in ToSet(project[p].chosen.entries) :
             \E id \in DOMAIN prow'[p] : id[2] = k /\ prow'[p][id].state = "done"]_plannerVars
=============================================================================
