--------------------------- MODULE TaskLifecycle ---------------------------
(***************************************************************************)
(* The lifecycle that TaskQueue promises for a task (TECHNICAL_DESIGN.md,  *)
(* "Lifecycle states", and the guards of the mark_* methods): the abstract *)
(* specification that Dispatch implements as long as nobody writes a state *)
(* behind the queue's back.                                                *)
(***************************************************************************)
CONSTANTS Tasks
VARIABLE st  \* [Tasks -> state, or "absent" before enqueue]

Terminal == {"done", "failed", "timeout", "cancelled"}

Init == st = [t \in Tasks |-> "absent"]

Move(t, from, to) == st[t] \in from /\ st' = [st EXCEPT ![t] = to]

Enqueue(t) == Move(t, {"absent"}, "queued")
\* The planner claims the task it has just enqueued.
EnqueueClaimed(t) == Move(t, {"absent"}, "assigned")
Claim(t) == Move(t, {"queued"}, "assigned")
\* dispatched and in_progress are set in one run of the injector.
Start(t) == Move(t, {"assigned", "dispatched"}, "in_progress")
Finish(t) == \E s \in {"done", "failed", "timeout"} : Move(t, {"in_progress"}, s)
\* The injector gives up, or puts the task back for later.
GiveUp(t) == Move(t, {"assigned", "dispatched"}, "failed")
Requeue(t) == Move(t, {"assigned"}, "queued")
Reassign(t) == Move(t, {"failed", "timeout"}, "queued")
Cancel(t) == Move(t, {"queued", "assigned", "dispatched", "in_progress", "blocked"}, "cancelled")

Next == \E t \in Tasks :
    \/ Enqueue(t) \/ EnqueueClaimed(t) \/ Claim(t) \/ Start(t) \/ Finish(t)
    \/ GiveUp(t) \/ Requeue(t) \/ Reassign(t) \/ Cancel(t)

Spec == Init /\ [][Next]_st
=============================================================================
