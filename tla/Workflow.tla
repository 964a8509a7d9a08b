------------------------------ MODULE Workflow ------------------------------
(* One call of OrchestrationEngine.execute_workflow                        *)
(* (app/orchestration/orchestration_engine.py) on a definition of          *)
(* workflow.py: a topological order, steps with attempts and a fallback,   *)
(* parallel steps and conditions, nested in one another, whose sub-steps   *)
(* run on their own.  The sub-steps of a fallback are a part of its answer. *)
(* The engine's constructor shadows the class's table of handlers by an    *)
(* empty one (line 124), so an engine as the code builds it has none;      *)
(* handled = TRUE is an engine to which they have been given.              *)
EXTENDS Naturals, Sequences, SequencesExt, FiniteSets

CONSTANTS
    Units,          \* ids of steps and sub-steps
    Flows,          \* definitions; see FlowOK for their fields
    MaxParallelism

FlowOK(f) ==
    /\ f.order \in Seq(Units)               \* top-level steps as declared, each once
    /\ \A i, j \in DOMAIN f.order : f.order[i] = f.order[j] => i = j
    /\ f.deps \in [Units -> SUBSET Units]
    /\ f.kind \in [Units -> {"leaf", "parallel", "condition"}]
    /\ f.subs \in [Units -> Seq(Units)]     \* sub-steps, or the branches: units of their own
    /\ f.depth \in [Units -> Nat]           \* how deep a unit lies in others
    /\ \A u \in Units : /\ ToSet(f.subs[u]) \cap ToSet(f.order) = {}
                        /\ \A v \in Units \ {u} : ToSet(f.subs[u]) \cap ToSet(f.subs[v]) = {}
                        /\ \A v \in ToSet(f.subs[u]) : f.depth[u] < f.depth[v]
    /\ f.malformed \subseteq Units          \* parallel steps whose 'steps' are no StepDefinitions:
                                            \* all of those that came as JSON
    /\ f.tries \in [Units -> Nat \ {0}]     \* max_attempts
    /\ f.fallback \subseteq Units           \* steps that declare one

\* What the instance of this module assumes.
WorkflowAssumption == MaxParallelism \in Nat \ {0} /\ \A f \in Flows : FlowOK(f)

VARIABLES
    flow,      \* the definition and whether its engine has handlers
    unit,      \* StepResult of each step: status and attempts
    branch,    \* the sub-steps that the step at work and those in it have taken up
    todo,      \* top-level steps still to run, the step at work first
    outcome    \* of the workflow

flowVars == <<flow, unit, branch, todo, outcome>>

NoFlow == [order |-> <<>>, deps |-> [u \in Units |-> {}]]
Top == ToSet(flow.def.order)
Succeeded == {"COMPLETED", "FALLBACK"}
Ended == Succeeded \cup {"FAILED"}
AtWork == {"RUNNING", "RETRYING", "FALLING_BACK"}

(* ---- _topological_sort ------------------------------------------------ *)
\* The queue with the steps of S at its end, in the order in which they are declared.
Queued(f, queue, S) ==
    LET q[n \in Nat] == IF n = 0 THEN queue
                        ELSE IF f.order[n] \in S THEN Append(q[n - 1], f.order[n]) ELSE q[n - 1]
    IN q[Len(f.order)]
KahnStep(f, st) ==
    IF st.queue = <<>> THEN st
    ELSE LET done == Append(st.ordered, Head(st.queue))
             freed == {c \in Units : Head(st.queue) \in f.deps[c] /\ f.deps[c] \subseteq ToSet(done)}
         IN [ordered |-> done, queue |-> Queued(f, Tail(st.queue), freed)]

TopologicalSort_Declared(f) == f.order
TopologicalSort(f) ==
    LET start == [ordered |-> <<>>, queue |-> Queued(f, <<>>, {c \in Units : f.deps[c] = {}})]
        kahn[n \in Nat] == IF n = 0 THEN start ELSE KahnStep(f, kahn[n - 1])
    IN kahn[Len(f.order)].ordered

\* _downstream_of: the least set that holds what depends on the step or on one of the set;
\* the mutant stops at the first level.
Downstream_Direct(f, s) == {c \in ToSet(f.order) : s \in f.deps[c]}
Downstream(f, s) ==
    LET steps == ToSet(f.order)
        below(R) == {c \in steps : f.deps[c] \cap (R \cup {s}) # {}}
    IN {c \in steps : \A R \in SUBSET steps : below(R) \subseteq R => c \in R}

Init ==
    /\ flow = [def |-> NoFlow, handled |-> FALSE]
    /\ unit = [u \in Units |-> [status |-> "PENDING", attempts |-> 0]]
    /\ branch = {}
    /\ todo = <<>>
    /\ outcome = "none"

\* A cycle fails the workflow without a step's result.
Execute ==
    /\ outcome = "none"
    /\ \E f \in Flows, handled \in BOOLEAN :
         LET order == TopologicalSort(f)
             ok == Len(order) = Len(f.order)
         IN /\ flow' = [def |-> f, handled |-> handled]
            /\ todo' = IF ok THEN order ELSE <<>>
            /\ outcome' = IF ~ok THEN "INVALID" ELSE IF order = <<>> THEN "COMPLETED" ELSE "RUNNING"
    /\ UNCHANGED <<unit, branch>>

(* ---- _execute_step ---------------------------------------------------- *)
Sets(u, status) == unit' = [unit EXCEPT ![u].status = status]
Attempts(u) == unit' = [unit EXCEPT ![u] = [status |-> "RUNNING", attempts |-> @.attempts + 1]]

\* A parallel step takes up all its sub-steps when it starts.
Parallel(u) == flow.handled /\ flow.def.kind[u] = "parallel" /\ u \notin flow.def.malformed
Starts(u) == Attempts(u) /\ branch' = branch \cup (IF Parallel(u) THEN ToSet(flow.def.subs[u]) ELSE {})
StepStarts ==
    /\ outcome = "RUNNING" /\ unit[Head(todo)].status = "PENDING"
    /\ Starts(Head(todo))
    /\ UNCHANGED <<flow, todo, outcome>>

\* A condition takes one of its branches, or has none for the result.
SubsTaken(u) == branch \cap ToSet(flow.def.subs[u])
BranchTaken(u) ==
    /\ flow.handled /\ flow.def.kind[u] = "condition"
    /\ unit[u].status = "RUNNING" /\ SubsTaken(u) = {}
    /\ \E b \in ToSet(flow.def.subs[u]) : branch' = branch \cup {b}
    /\ UNCHANGED <<flow, unit, todo, outcome>>

\* Sub-steps take the semaphore of their step in their order.
Busy(p) == {v \in ToSet(flow.def.subs[p]) : unit[v].status \in AtWork}
SubStarts(u) ==
    /\ u \in branch /\ unit[u].status = "PENDING"
    /\ \E p \in Units : LET subs == flow.def.subs[p] IN
         /\ Cardinality(Busy(p)) < MaxParallelism
         /\ \E i \in DOMAIN subs : /\ subs[i] = u
                                   /\ \A j \in 1 .. i - 1 : subs[j] \in branch => unit[subs[j]].status # "PENDING"
    /\ Starts(u)
    /\ UNCHANGED <<flow, todo, outcome>>

\* A parallel step and a condition end when their sub-steps have, however those
\* ended; a leaf has an answer.
AttemptSucceeds(u) ==
    /\ unit[u].status = "RUNNING" /\ flow.handled
    /\ flow.def.kind[u] = "parallel" => u \notin flow.def.malformed
    /\ \A v \in SubsTaken(u) : unit[v].status \in Ended
    /\ Sets(u, "COMPLETED")
    /\ UNCHANGED <<flow, branch, todo, outcome>>

\* RetryPolicy.should_retry, with retry_on matching or not.
ShouldRetry(u) == IF unit[u].attempts < flow.def.tries[u] THEN BOOLEAN ELSE {FALSE}
FinalStatus(u) == IF u \in flow.def.fallback THEN "FALLING_BACK" ELSE "FAILED"

\* A parallel step raises only of its definition, a condition of its expression
\* or of a branch that is no StepDefinition; what goes wrong below is a result.
AttemptFails(u) ==
    /\ unit[u].status = "RUNNING" /\ ~Parallel(u)
    /\ flow.def.kind[u] = "condition" => SubsTaken(u) = {}
    /\ \E again \in ShouldRetry(u) : Sets(u, IF again THEN "RETRYING" ELSE FinalStatus(u))
    /\ UNCHANGED <<flow, branch, todo, outcome>>

Retries(u) ==
    /\ unit[u].status = "RETRYING"
    /\ Attempts(u)
    /\ UNCHANGED <<flow, branch, todo, outcome>>

FallbackEnds(u) ==
    /\ unit[u].status = "FALLING_BACK"
    /\ \E s \in {"FAILED"} \cup (IF flow.handled THEN {"FALLBACK"} ELSE {}) : Sets(u, s)
    /\ UNCHANGED <<flow, branch, todo, outcome>>

(* ---- The loop of execute_workflow ------------------------------------- *)
StepEnds ==
    /\ outcome = "RUNNING" /\ unit[Head(todo)].status \in Succeeded
    /\ todo' = Tail(todo)
    /\ branch' = {}
    /\ outcome' = IF Len(todo) = 1 THEN "COMPLETED" ELSE outcome
    /\ UNCHANGED <<flow, unit>>

\* Steps that do not depend on the failed one are left without a result.
StepFailed ==
    /\ outcome = "RUNNING" /\ unit[Head(todo)].status = "FAILED"
    /\ unit' = [u \in Units |-> IF u \in Downstream(flow.def, Head(todo)) /\ unit[u].status = "PENDING"
                                THEN [unit[u] EXCEPT !.status = "SKIPPED"] ELSE unit[u]]
    /\ todo' = <<>> /\ branch' = {}
    /\ outcome' = "FAILED"
    /\ UNCHANGED flow

Runs ==
    \/ StepStarts \/ StepEnds \/ StepFailed
    \/ \E u \in Units : BranchTaken(u) \/ SubStarts(u) \/ AttemptSucceeds(u) \/ AttemptFails(u) \/ Retries(u) \/ FallbackEnds(u)
Next == Execute \/ Runs
Spec == Init /\ [][Next]_flowVars /\ WF_flowVars(Runs)

(* ---- Properties ------------------------------------------------------- *)
TypeOK ==
    /\ \A u \in Units : unit[u].status \in {"PENDING", "SKIPPED"} \cup AtWork \cup Ended
    /\ outcome \in {"none", "INVALID", "RUNNING", "COMPLETED", "FAILED"}

\* orchestration_engine.py:139-201: a step has run only if all it depends on has
\* succeeded; a completed workflow has succeeded in every step; in a failed one
\* a single step failed and all that depends on it, however indirectly, was
\* skipped, and nothing else.
OrderRespected ==
    /\ \A u \in Top : unit[u].status \notin {"PENDING", "SKIPPED"} =>
         \A d \in flow.def.deps[u] : unit[d].status \in Succeeded
    /\ outcome = "COMPLETED" => \A u \in Top : unit[u].status \in Succeeded
    /\ outcome = "FAILED" => \E s \in Top :
         /\ {u \in Top : unit[u].status = "FAILED"} = {s}
         /\ \A u \in Top \ {s} : unit[u].status = "SKIPPED" <=>
              \E d \in flow.def.deps[u] : d = s \/ unit[d].status = "SKIPPED"

\* Lines 205-262, 432-473: attempts stay within the policy, no more sub-steps of a
\* step than the limit are at work, and none of them outlives its step.
WorkBounded ==
    /\ \A u \in Units : unit[u].attempts > 0 => unit[u].attempts <= flow.def.tries[u]
    /\ outcome = "RUNNING" => \A p \in Units : Cardinality(Busy(p)) <= MaxParallelism
    /\ \A u \in Units : unit[u].status \in AtWork =>
         /\ outcome = "RUNNING"
         /\ u = Head(todo) \/ \E p \in Units : u \in Busy(p) /\ unit[p].status = "RUNNING"

StepsFollowPlan == OrderRespected /\ WorkBounded

\* A workflow that has been accepted is to end.
UnderWay == outcome = "RUNNING"
=============================================================================
