------------------------------ MODULE Sandbox -------------------------------
(* AgentSandbox.execute (app/agent_runtime/sandbox.py): a callable runs in  *)
(* a forked child, which reports through a pipe after the callable ends;    *)
(* the parent waits for the child to exit, or for the deadline, and only    *)
(* then reads the pipe.  A pipe holds so much and no more.                  *)
EXTENDS Naturals, Sequences, SequencesExt

CONSTANTS
    PipeSize,   \* messages a pipe can hold unread; larger output blocks
    Outputs     \* sizes of what a callable may print, in messages

VARIABLES
    job,        \* what the callable does
    child,      \* where the child is, and how it exited
    pipe,       \* what the child has written
    parent      \* where execute is, and what it returns

sandVars == <<job, child, pipe, parent>>

Jobs == {"returns", "returns_unpicklable", "raises", "exits", "crashes", "hogs_cpu", "loops"}
NoResult == [timed_out |-> FALSE, resource_exceeded |-> FALSE, exit_code |-> "none",
             error |-> FALSE, result |-> FALSE]

Init == /\ job = [does |-> "nothing", prints |-> 0]
        /\ child = [at |-> "none", exit |-> "none"]
        /\ pipe = [whole |-> <<>>, part |-> FALSE]
        /\ parent = [at |-> "idle", returns |-> NoResult]

Execute(does, prints) ==
    /\ parent.at = "idle"
    /\ job' = [does |-> does, prints |-> prints]
    /\ child' = [child EXCEPT !.at = "running"]
    /\ parent' = [parent EXCEPT !.at = "join"]
    /\ UNCHANGED pipe

(* ---- The child -------------------------------------------------------- *)
Exit(code) == child' = [at |-> "exited", exit |-> code]

\* The callable ends; its result or its error is put on the queue.  One that uses
\* up its CPU seconds is stopped by SIGXCPU or, if it ignores that, by the SIGKILL
\* of the hard limit a second later.
JobEnds ==
    /\ child.at = "running"
    /\ \/ /\ job.does \in {"returns", "returns_unpicklable", "raises"}
          /\ child' = [child EXCEPT !.at = "stdout"]
       \/ job.does = "exits" /\ \E code \in {"0", "1"} : Exit(code)
       \/ job.does = "crashes" /\ Exit("SIGSEGV")
       \/ job.does = "hogs_cpu" /\ \E limit \in {"SIGXCPU", "SIGKILL"} : Exit(limit)
    /\ UNCHANGED <<job, pipe, parent>>

\* The queue's feeder thread writes stdout; what exceeds the pipe waits.
WriteStdout ==
    /\ child.at = "stdout"
    /\ \/ /\ job.prints <= PipeSize
          /\ pipe' = [pipe EXCEPT !.whole = Append(@, "stdout")]
          /\ child' = [child EXCEPT !.at = "done"]
       \/ /\ job.prints > PipeSize /\ ~pipe.part
          /\ pipe' = [pipe EXCEPT !.part = TRUE]
          /\ UNCHANGED child
    /\ UNCHANGED <<job, parent>>

\* A result that cannot be pickled is dropped by the feeder without a word.
WriteDone ==
    /\ child.at = "done"
    /\ pipe' = [pipe EXCEPT !.whole =
                  IF job.does = "returns_unpicklable" THEN @ ELSE Append(@, "done")]
    /\ Exit("0")
    /\ UNCHANGED <<job, parent>>

(* ---- The parent ------------------------------------------------------- *)
Alive == child.at # "exited"

Joined ==
    /\ parent.at = "join" /\ ~Alive
    /\ parent' = [parent EXCEPT !.at = "drain"]
    /\ UNCHANGED <<job, child, pipe>>

\* join(timeout_s) gives up; is_alive is asked a moment later.
Deadline ==
    /\ parent.at = "join" /\ Alive
    /\ parent' = [parent EXCEPT !.at = "alive?"]
    /\ UNCHANGED <<job, child, pipe>>

TimedOut_Afterwards == FALSE
TimedOut == Alive
CheckAlive ==
    /\ parent.at = "alive?"
    /\ parent' = [parent EXCEPT !.at = IF Alive THEN "terminate" ELSE "drain",
                                !.returns.timed_out = TimedOut]
    /\ UNCHANGED <<job, child, pipe>>

\* SIGTERM; the child may have ended, or inherited a handler that ignores it.
Terminate ==
    /\ parent.at = "terminate"
    /\ (Alive /\ Exit("SIGTERM")) \/ UNCHANGED child
    /\ parent' = [parent EXCEPT !.at = "kill"]
    /\ UNCHANGED <<job, pipe>>

Kill ==
    /\ parent.at = "kill"
    /\ IF Alive THEN Exit("SIGKILL") ELSE UNCHANGED child
    /\ parent' = [parent EXCEPT !.at = "drain"]
    /\ UNCHANGED <<job, pipe>>

\* get_nowait finds a message begun and never finished, and waits for the
\* rest: the parent itself holds the writing end open, so no end of file comes.
Stuck ==
    /\ parent.at = "drain" /\ pipe.part
    /\ parent' = [parent EXCEPT !.at = "stuck"]
    /\ UNCHANGED <<job, child, pipe>>

Drain ==
    /\ parent.at = "drain" /\ ~pipe.part
    /\ LET delivered == Contains(pipe.whole, "done")
           late == parent.returns.timed_out
           exceeded == child.exit = "SIGXCPU" \/ (child.exit = "SIGKILL" /\ late)
       IN parent' = [at |-> "returned",
                     returns |-> [timed_out |-> late, resource_exceeded |-> exceeded,
                                  exit_code |-> child.exit,
                                  error |-> exceeded \/ (delivered /\ job.does = "raises"),
                                  result |-> delivered /\ job.does = "returns"]]
    /\ UNCHANGED <<job, child, pipe>>

Runs == JobEnds \/ WriteStdout \/ WriteDone \/ Joined \/ Deadline \/ CheckAlive
          \/ Terminate \/ Kill \/ Stuck \/ Drain
Next == Runs \/ \E d \in Jobs, n \in Outputs : Execute(d, n)

Fairness == WF_sandVars(Runs)
Spec == Init /\ [][Next]_sandVars /\ Fairness

Succeeded ==
    /\ parent.at = "returned"
    /\ parent.returns.exit_code = "0" /\ ~parent.returns.error
    /\ ~parent.returns.timed_out /\ ~parent.returns.resource_exceeded

TypeOK ==
    /\ job.does \in Jobs \cup {"nothing"}
    /\ child.at \in {"none", "running", "stdout", "done", "exited"}
    /\ parent.at \in {"idle", "join", "alive?", "terminate", "kill", "drain", "stuck", "returned"}

(* What a run reports is what happened: it succeeded only if the callable   *)
(* came to its end by itself; a child that a signal stopped was cut short   *)
(* by the parent, which says so, or used up its CPU seconds, which is said  *)
(* of no other; and a call that ended in time, with exit code 0 and neither *)
(* a result nor an error is one that left without reporting, or had a       *)
(* result that cannot be pickled (sandbox.py:136-144, 229-262).             *)
ReportIsTrue ==
    parent.at = "returned" =>
        /\ Succeeded => job.does \in {"returns", "returns_unpicklable", "exits"}
        /\ child.exit = "SIGTERM" => parent.returns.timed_out
        /\ child.exit = "SIGKILL" \/ parent.returns.resource_exceeded =>
             parent.returns.timed_out \/ job.does = "hogs_cpu"
        /\ ~parent.returns.result /\ ~parent.returns.error =>
             \/ parent.returns.timed_out \/ parent.returns.exit_code # "0"
             \/ job.does \in {"exits", "returns_unpicklable"}

(* execute is to return, unless the callable printed more than the pipe     *)
(* holds: then the child cannot exit, and the parent waits for ever for the *)
(* rest of what the child it stopped was writing.                           *)
UnderWay == /\ parent.at \notin {"idle", "returned"}
            /\ ~(parent.at = "stuck" /\ pipe.part)
=============================================================================
