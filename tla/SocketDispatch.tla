--------------------------- MODULE SocketDispatch ---------------------------
(* The executors of the control plane (executors/socket.py, terminal.py)   *)
(* and how they are wired to HerdMaster and Herdr at start-up              *)
(* (coupling/wiring.py).  A dispatch is a stream of events; its caller,    *)
(* collect_events, may start another one for the task after a rotation.    *)
(* Tasks share nothing but the wiring, so one task is modelled.            *)
(* HerdMaster gives every row an id of its own: it knows the task by its   *)
(* id only if that happens to be the id of a row; its own clients move     *)
(* that row at any time.                                                   *)
EXTENDS Naturals, Sequences

CONSTANTS
    Words,           \* what a PATCH may put into the state of a row: any text
    MaxPolls,        \* polls of a dispatch without a deadline
    MaxTicks,        \* bound: polls before a deadline
    MaxRounds        \* bound: dispatches of the task

VARIABLES
    wired,     \* the sides that answered at start-up, and "up" after it
    sd,        \* the latest dispatch: where it is, and the events it yielded
    hmrow,     \* HerdMaster: the row the task's id names, what it showed since the
               \* latest mark_running, and the number of rows made for the task
    typed      \* times that the prompt was sent to a pane (terminal mode)

sdVars == <<wired, sd, hmrow, typed>>

RowStates == {"queued", "assigned", "dispatched", "in_progress", "blocked",
              "done", "failed", "timeout", "cancelled"}
Completed == {"done", "completed", "complete", "success"}
Waiting == {"blocked", "waiting"}
Terminals == {"BLOCKED", "DONE", "FAILED", "ACCEPTED"}

\* _map_queue_state
Mapped_Optimistic(s) == CASE s \in Waiting -> "BLOCKED"
                          [] s \in {"failed", "timeout", "cancelled", "error"} -> "FAILED"
                          [] s = "queued" -> "QUEUED"
                          [] OTHER -> "DONE"
Mapped(s) == CASE s \in Waiting -> "BLOCKED"
               [] s \in {"failed", "timeout", "cancelled", "error"} -> "FAILED"
               [] s \in Completed -> "DONE"
               [] s \in {"assigned", "claimed"} -> "CLAIMED"
               [] s = "queued" -> "QUEUED"
               [] OTHER -> "RUNNING"

Init ==
    /\ wired = {}
    /\ sd = [at |-> "idle", mode |-> "socket", timed |-> FALSE, events |-> <<>>, polls |-> 0, round |-> 0]
    /\ hmrow = [named |-> "none", shown |-> {}, made |-> 0]
    /\ typed = 0

\* build_coupled_executors probes once; a side that does not answer is replaced
\* for the life of the process by a client that always raises.
Build ==
    /\ wired = {}
    /\ \E sides \in SUBSET {"herdr", "hm"}, s \in {"none", "queued"} :
         wired' = sides \cup {"up"} /\ hmrow' = [hmrow EXCEPT !.named = s]
    /\ UNCHANGED <<sd, typed>>

Yield(event, at) ==
    sd' = [sd EXCEPT !.events = Append(@, event), !.at = IF event \in Terminals THEN "ended" ELSE at]

\* collect_events asks the router for the executor; the terminal executor
\* yields QUEUED before it does anything.
Dispatch ==
    /\ "up" \in wired /\ sd.at \in {"idle", "ended"} /\ sd.round < MaxRounds
    /\ \E mode \in IF sd.round = 0 THEN {"socket", "terminal"} ELSE {sd.mode},
          timed \in IF sd.round = 0 THEN BOOLEAN ELSE {sd.timed} :
         sd' = [at |-> IF mode = "terminal" THEN "spawn" ELSE "enqueue", mode |-> mode, timed |-> timed,
                events |-> IF mode = "terminal" THEN <<"QUEUED">> ELSE <<>>,
                polls |-> 0, round |-> sd.round + 1]
    /\ UNCHANGED <<wired, hmrow, typed>>

(* ---- Socket mode ------------------------------------------------------ *)
\* POST /tasks: HerdMaster ignores the task_id it is sent.
Enqueued == hmrow' = [hmrow EXCEPT !.made = @ + 1] /\ UNCHANGED typed
Enqueue ==
    /\ sd.at = "enqueue" /\ "hm" \in wired
    /\ Enqueued /\ Yield("QUEUED", "claim") /\ UNCHANGED wired

\* claim() lists the tasks of the assignee and claims nothing.
Claim ==
    /\ sd.at = "claim" /\ "hm" \in wired
    /\ Yield("CLAIMED", "mark") /\ UNCHANGED <<wired, hmrow, typed>>

\* PATCH and GET /tasks/{task_id}: 404 unless a row has that name.
Marked == hmrow' = [hmrow EXCEPT !.named = "in_progress", !.shown = {"in_progress"}] /\ UNCHANGED typed
MarkRunning ==
    /\ sd.at = "mark" /\ "hm" \in wired /\ hmrow.named # "none"
    /\ Marked /\ Yield("RUNNING", "poll") /\ UNCHANGED wired

\* _poll_terminal_status; the clock is read after the poll, and a dispatch whose
\* polls are used up is DONE ("accepted").
OutOfPolls(polls) ==
    IF sd.timed THEN (IF polls >= MaxTicks THEN {TRUE} ELSE BOOLEAN)
    ELSE {polls >= (IF MaxPolls = 0 THEN 1 ELSE MaxPolls)}

Poll ==
    /\ sd.at = "poll" /\ "hm" \in wired /\ hmrow.named # "none"
    /\ LET seen == Mapped(hmrow.named) IN
         IF seen \in Terminals THEN Yield(seen, "ended")
         ELSE \E over \in OutOfPolls(sd.polls + 1) :
                IF over THEN Yield("ACCEPTED", "ended") ELSE sd' = [sd EXCEPT !.polls = @ + 1]
    /\ UNCHANGED <<wired, hmrow, typed>>

(* ---- Terminal mode: one reading of the agent's state, right away ------ *)
Spawn ==
    /\ sd.at = "spawn" /\ "herdr" \in wired
    /\ Yield("CLAIMED", "send") /\ UNCHANGED <<wired, hmrow, typed>>

Sent == typed' = typed + 1 /\ UNCHANGED hmrow
Send ==
    /\ sd.at = "send" /\ "herdr" \in wired
    /\ Sent /\ Yield("RUNNING", "read") /\ UNCHANGED wired

\* Anything but blocked is DONE, a working agent too.
ReadState ==
    /\ sd.at = "read" /\ "herdr" \in wired
    /\ \E seen \in {"BLOCKED", "ACCEPTED"} : Yield(seen, "ended")
    /\ UNCHANGED <<wired, hmrow, typed>>

Raises_AfterEnqueue ==
    /\ sd.at \in {"claim", "mark", "poll", "spawn", "send", "read"}
    /\ Yield("FAILED", "ended")
    /\ UNCHANGED <<wired, hmrow, typed>>
\* Any request may raise, also after it had its effect; the stream then ends
\* with failure_event.
Raises ==
    /\ sd.at \in {"enqueue", "claim", "mark", "poll", "spawn", "send", "read"}
    /\ Yield("FAILED", "ended")
    /\ \/ UNCHANGED <<hmrow, typed>>
       \/ sd.at = "enqueue" /\ "hm" \in wired /\ Enqueued
       \/ sd.at = "mark" /\ "hm" \in wired /\ hmrow.named # "none" /\ Marked
       \/ sd.at = "send" /\ "herdr" \in wired /\ Sent
    /\ UNCHANGED wired

(* ---- HerdMaster: its clients, its agents and its loop move the row ----- *)
\* The queue, the loop and the routes ask, checkin, complete and fail move the row
\* between its states, a PATCH puts any word into it; only a cancellation asks
\* for the state it finds.
Final == {"done", "failed", "timeout", "cancelled"}
RowMoves(s) == (RowStates \ {"cancelled"}) \cup Words \cup (IF s \in Final THEN {} ELSE {"cancelled"})
HerdMasterMoves ==
    /\ hmrow.named # "none"
    /\ \E s \in RowMoves(hmrow.named) :
         hmrow' = [hmrow EXCEPT !.named = s, !.shown = @ \cup ({s} \cap (Completed \cup Waiting))]
    /\ UNCHANGED <<wired, sd, typed>>

Runs ==
    \/ Enqueue \/ Claim \/ MarkRunning \/ Poll
    \/ Spawn \/ Send \/ ReadState \/ Raises
Next == Build \/ Dispatch \/ Runs \/ HerdMasterMoves
Spec == Init /\ [][Next]_sdVars /\ WF_sdVars(Runs)

(* ---- Properties ------------------------------------------------------- *)
TypeOK ==
    /\ wired \subseteq {"herdr", "hm", "up"}
    /\ sd.events \in Seq({"QUEUED", "CLAIMED", "RUNNING"} \cup Terminals)
    /\ hmrow.named \in RowStates \cup Words \cup {"none"}

\* socket.py:148-208, terminal.py:106-152: a caller is told the steps in order
\* and then one end.  DONE and, over the socket, BLOCKED are what the row said in
\* this very dispatch, never what an earlier one left in it ("accepted" and FAILED
\* claim nothing of it), whoever moves the row meanwhile; RUNNING is said of
\* something that was started, and the task never runs more often than it was
\* dispatched.
EventsTell ==
    LET ev == sd.events
        n == IF sd.at = "ended" THEN Len(ev) - 1 ELSE Len(ev)
    IN /\ ev = SubSeq(<<"QUEUED", "CLAIMED", "RUNNING">>, 1, n) \o SubSeq(ev, n + 1, Len(ev))
       /\ sd.at = "ended" => n >= 0 /\ ev[n + 1] \in Terminals
       /\ sd.at = "ended" /\ ev[n + 1] = "DONE" => n = 3 /\ hmrow.shown \cap Completed # {}
       /\ sd.at = "ended" /\ ev[n + 1] = "BLOCKED" => n = 3 /\ (hmrow.shown \cap Waiting # {} \/ typed > 0)
       /\ n = 3 => hmrow.shown # {} \/ typed > 0
       /\ hmrow.made + typed <= sd.round

\* A dispatch to be ended, also when the row it polls never gets anywhere.
UnderWay == sd.at \notin {"idle", "ended"}
=============================================================================
