---------------------------- MODULE Provisioning ----------------------------
(* Activation of one provisioning request: orchestrate_activation          *)
(* (app/provisioning/activation.py) and its failure handler.  An activation*)
(* is five steps, each with a row of its own and commits around its        *)
(* effect; a failed one is retried and skips the steps that had succeeded. *)
(* The code is synchronous: within a process only a crash comes between    *)
(* two commits, but several processes serve requests (pyproject.toml), and *)
(* rows are read without a lock.                                           *)
EXTENDS Naturals, Sequences, FiniteSets

CONSTANTS
    Steps,         \* names of the steps, in their order (five in the code)
    Processes,     \* processes that serve requests
    MaxRetries,    \* DEFAULT_MAX_RETRIES
    MaxRuns,       \* bound: activations and retries that start
    MaxStops       \* bound: processes killed in the middle of a run

StepNames == {Steps[i] : i \in DOMAIN Steps}

\* The steps are a list of different names (activation.py:218-367).
ASSUME ProvisioningAssumption ==
    /\ Steps \in Seq(StepNames)
    /\ \A i, j \in DOMAIN Steps : Steps[i] = Steps[j] => i = j
    /\ MaxRetries \in Nat

VARIABLES
    prec,          \* provisioning_records row: status and retry_count
    steps,         \* step_results rows
    effects,       \* what the steps have done outside these two tables
    proc,          \* the call each process serves
    runs, stops

provVars == <<prec, steps, effects, proc, runs, stops>>

Free == [at |-> "free", step |-> 0, skip |-> {}, seen |-> "none", count |-> 0, run |-> 0]

Init ==
    /\ prec = [status |-> "none", count |-> 0]
    /\ steps = {}
    /\ effects = {}
    /\ proc = [w \in Processes |-> Free]
    /\ runs = 0 /\ stops = 0

Starts(w) == proc[w] = Free /\ runs < MaxRuns /\ runs' = runs + 1

\* orchestrate_activation called for a record, new or failed.
Activate(w) ==
    /\ Starts(w)
    /\ proc' = [proc EXCEPT ![w] = [Free EXCEPT !.at = "read", !.run = runs + 1]]
    /\ UNCHANGED <<prec, steps, effects, stops>>

(* ---- retry_activation ------------------------------------------------- *)
\* next_retry_at only delays a retry.
RetryAllowed_OffByOne(rec) == rec.status = "failed" /\ rec.count <= MaxRetries
RetryAllowed(rec) == rec.status = "failed" /\ rec.count < MaxRetries

RetryReads(w) ==
    /\ Starts(w) /\ RetryAllowed(prec)
    /\ proc' = [proc EXCEPT ![w] = [Free EXCEPT !.at = "count", !.count = prec.count, !.run = runs + 1]]
    /\ UNCHANGED <<prec, steps, effects, stops>>

RetryCounts(w) ==
    /\ proc[w].at = "count"
    /\ prec' = [prec EXCEPT !.count = proc[w].count + 1]
    /\ proc' = [proc EXCEPT ![w].at = "read"]
    /\ UNCHANGED <<steps, effects, runs, stops>>

(* ---- orchestrate_activation ------------------------------------------- *)
Succeeded == {r.name : r \in {r \in steps : r.status = "success"}}

\* A record that is running or completed is refused with a ValueError, also
\* when a retry has just counted itself.
ReadRecord(w) ==
    /\ proc[w].at = "read"
    /\ proc' = [proc EXCEPT ![w] =
         IF prec.status \in {"none", "failed"}
         THEN [@ EXCEPT !.at = "begin", !.seen = prec.status, !.skip = Succeeded]
         ELSE Free]
    /\ UNCHANGED <<prec, steps, effects, runs, stops>>

\* Written on what was read before; a second INSERT of the record is refused.
BeginRun(w) ==
    /\ proc[w].at = "begin"
    /\ IF proc[w].seen = "none"
       THEN /\ prec' = IF prec.status = "none" THEN [status |-> "running", count |-> 0] ELSE prec
            /\ proc' = [proc EXCEPT ![w] = IF prec.status = "none"
                                           THEN [@ EXCEPT !.at = "step", !.step = 1] ELSE Free]
            /\ UNCHANGED steps
       ELSE /\ prec' = [prec EXCEPT !.status = "running"]
            /\ steps' = {r \in steps : r.status = "success"}
            /\ proc' = [proc EXCEPT ![w].at = "step", ![w].step = 1]
    /\ UNCHANGED <<effects, runs, stops>>

(* ---- run_step --------------------------------------------------------- *)
Current(w) == Steps[proc[w].step]
Row(w, status) == [run |-> proc[w].run, name |-> Current(w), status |-> status]
Update(w, status) ==      \* hits nothing if another run has deleted the row
    steps' = IF Row(w, "running") \in steps
             THEN (steps \ {Row(w, "running")}) \cup {Row(w, status)} ELSE steps

SkipStep(w) ==
    /\ proc[w].at = "step" /\ proc[w].step <= Len(Steps) /\ Current(w) \in proc[w].skip
    /\ proc' = [proc EXCEPT ![w].step = @ + 1]
    /\ UNCHANGED <<prec, steps, effects, runs, stops>>

StepStarts(w) ==
    /\ proc[w].at = "step" /\ proc[w].step <= Len(Steps) /\ Current(w) \notin proc[w].skip
    /\ steps' = steps \cup {Row(w, "running")}
    /\ proc' = [proc EXCEPT ![w].at = "effect"]
    /\ UNCHANGED <<prec, effects, runs, stops>>

\* Every step may raise, before or after its effect (it changes two seats, several
\* agents, or writes the audit row before the trace).
StepRuns(w) ==
    /\ proc[w].at = "effect"
    /\ \/ /\ proc' = [proc EXCEPT ![w].at = "success"]
          /\ effects' = effects \cup {Current(w)}
       \/ /\ proc' = [proc EXCEPT ![w].at = "failed"]
          /\ effects' \in {effects, effects \cup {Current(w)}}
    /\ UNCHANGED <<prec, steps, runs, stops>>

StepSucceeds(w) ==
    /\ proc[w].at = "success"
    /\ Update(w, "success")
    /\ proc' = [proc EXCEPT ![w].at = "step", ![w].step = @ + 1]
    /\ UNCHANGED <<prec, effects, runs, stops>>

StepFails(w) ==
    /\ proc[w].at = "failed"
    /\ Update(w, "failed")
    /\ proc' = [proc EXCEPT ![w].at = "save"]
    /\ UNCHANGED <<prec, effects, runs, stops>>

Completes(w) ==
    /\ proc[w].at = "step" /\ proc[w].step > Len(Steps)
    /\ prec' = [prec EXCEPT !.status = "completed"]
    /\ proc' = [proc EXCEPT ![w] = Free]
    /\ UNCHANGED <<steps, effects, runs, stops>>

\* save_activation_failure writes back the retry_count that it has read.
FailureReads(w) ==
    /\ proc[w].at = "save"
    /\ proc' = [proc EXCEPT ![w].at = "saved", ![w].count = prec.count]
    /\ UNCHANGED <<prec, steps, effects, runs, stops>>

SaveFailure(w) ==
    /\ proc[w].at = "saved"
    /\ prec' = [status |-> "failed", count |-> proc[w].count]
    /\ proc' = [proc EXCEPT ![w] = Free]
    /\ UNCHANGED <<steps, effects, runs, stops>>

\* A process ends; what it has committed stays.
Stop(w) ==
    /\ proc[w] # Free /\ stops < MaxStops
    /\ proc' = [proc EXCEPT ![w] = Free]
    /\ stops' = stops + 1
    /\ UNCHANGED <<prec, steps, effects, runs>>

Next == \E w \in Processes :
    \/ Activate(w) \/ RetryReads(w) \/ RetryCounts(w) \/ ReadRecord(w) \/ BeginRun(w)
    \/ SkipStep(w) \/ StepStarts(w) \/ StepRuns(w) \/ StepSucceeds(w) \/ StepFails(w)
    \/ Completes(w) \/ FailureReads(w) \/ SaveFailure(w) \/ Stop(w)
Spec == Init /\ [][Next]_provVars

(* ---- Properties ------------------------------------------------------- *)
TypeOK ==
    /\ prec.status \in {"none", "running", "failed", "completed"}
    /\ \A w \in Processes : proc[w].at \in {"free", "count", "read", "begin", "step", "effect",
                                            "success", "failed", "save", "saved"}
    /\ \A r \in steps : r.name \in StepNames /\ r.status \in {"running", "failed", "success"}

InRun(w) == proc[w].at \notin {"free", "count", "read", "begin"}

\* activation.py:47, failure_handler.py:131: whatever retries, kills and races
\* of two processes do, a row of success stands for a step that was done, no
\* step is done before those it relies on, a completed record lacks none, the
\* retries stay within their budget, and only a kill leaves a record running
\* with nobody at work on it.
ActivationHolds ==
    /\ Succeeded \subseteq effects
    /\ \A i \in 2 .. Len(Steps) : Steps[i] \in effects => Steps[i - 1] \in effects
    /\ prec.status = "completed" => StepNames \subseteq effects
    /\ prec.count <= MaxRetries
    /\ prec.status = "running" /\ stops = 0 => \E w \in Processes : InRun(w)
=============================================================================
