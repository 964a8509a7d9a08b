-------------------------- MODULE AgentEnrollment ---------------------------
(* The registry of agents (control-plane/registry) over the one connection  *)
(* that all worker threads share (app/dependencies.py,                      *)
(* _ResilientPooledConnection): a statement is atomic, a transaction is not. *)
(* What one thread has not committed another may commit or roll back.       *)
EXTENDS Naturals, Sequences, FiniteSets

CONSTANTS
    Keys,           \* stable keys, which name the agents here
    Panes, NoPane,  \* panes of Herdr
    Threads,        \* worker threads of the API and of provisioning
    OpsOf,          \* what each of them calls
    MaxCalls,       \* bound: calls of the registry
    MaxMixed,       \* bound: those begun after some have overlapped
    MaxDrops        \* bound: connections lost

EnrollmentAssumption ==
    /\ NoPane \notin Panes
    /\ MaxCalls \in Nat /\ MaxDrops \in Nat /\ MaxMixed \in 0 .. MaxCalls

VARIABLES
    db,             \* the committed tables
    work,           \* the tables as the connection's transaction sees them
    txn,            \* the state of that transaction
    thread,         \* the call each thread is in
    calls, drops,   \* how many there have been
    mixed           \* two calls have overlapped, or a connection was lost

enrollVars == <<db, work, txn, thread, calls, drops, mixed>>

Idle == [op |-> "", key |-> "", pane |-> NoPane, at |-> "idle", todo |-> <<>>]

\* The statements of each operation; what is looked up first decides.
Inserts(p) == IF p = NoPane THEN <<"insert", "commit">> ELSE <<"insert", "map", "commit">>
Script(op, p) ==
    CASE op = "add" -> Inserts(p)
      [] op = "enroll" -> <<"find_key">> \o Inserts(p)
      [] op = "enroll_pane" -> <<"find_pane">> \o Inserts(p)
      [] op = "remap" -> <<"retire", "map", "activate", "commit">>
      [] op = "remove" -> <<"retire", "remove", "commit">>

(* ---- The statements on the tables; unretired mappings only ------------ *)
Violates(s, k, p, d) ==
    \/ s = "insert" /\ d.agent[k].status # "absent"
    \/ s = "map" /\ (d.agent[k].status = "absent" \/ \E m \in d.mapped : m[2] = p)
Found(s, k, p, d) ==
    \/ s = "find_key" /\ d.agent[k].status # "absent"
    \/ s = "find_pane" /\ \E a \in Keys : d.agent[a] = [status |-> "active", pane |-> p]
Set(d, k, status, p) == [d EXCEPT !.agent[k] = [status |-> status, pane |-> p]]
Effect_KeepsMapping(s, k, p, d) ==
    CASE s = "insert" -> Set(d, k, "active", p)
      [] s = "map" -> [d EXCEPT !.mapped = @ \cup {<<k, p>>}]
      [] s = "remove" /\ d.agent[k].status # "absent" -> Set(d, k, "removed", NoPane)
      [] s = "activate" /\ d.agent[k].status # "absent" -> Set(d, k, "active", p)
      [] OTHER -> d
Effect(s, k, p, d) ==
    IF s = "retire" THEN [d EXCEPT !.mapped = {m \in @ : m[1] # k}]
    ELSE Effect_KeepsMapping(s, k, p, d)

Init ==
    /\ db = [agent |-> [k \in Keys |-> [status |-> "absent", pane |-> NoPane]], mapped |-> {}]
    /\ work = db /\ txn = "idle"
    /\ thread = [t \in Threads |-> Idle]
    /\ calls = 0 /\ drops = 0 /\ mixed = FALSE

Begin(t, op, k, p) ==
    /\ thread[t].at = "idle" /\ calls < (IF mixed THEN MaxMixed ELSE MaxCalls)
    /\ op \in OpsOf[t]
    /\ op \in {"enroll_pane", "remap"} => p # NoPane
    /\ op \in {"enroll", "remove"} => p = NoPane
    /\ thread' = [thread EXCEPT ![t] =
                    [op |-> op, key |-> k, pane |-> p, at |-> "ensure", todo |-> Script(op, p)]]
    /\ calls' = calls + 1
    /\ mixed' = (mixed \/ \E u \in Threads : thread[u].at # "idle")
    /\ UNCHANGED <<db, work, txn, drops>>

Goes(t, at) == thread' = [thread EXCEPT ![t].at = at]

(* ---- The connection --------------------------------------------------- *)
\* cursor() and commit() probe a connection that has no transaction open.
CheckStatus(t) ==
    /\ thread[t].at = "ensure"
    /\ Goes(t, IF txn = "idle" THEN "probe" ELSE "run")
    /\ UNCHANGED <<db, work, txn, calls, drops, mixed>>

\* conn.rollback(), whatever another thread has begun since the status was read.
Rollback == work' = db /\ txn' = "idle"
Probe(t) ==
    /\ thread[t].at = "probe"
    /\ Rollback /\ Goes(t, "prepare")
    /\ UNCHANGED <<db, calls, drops, mixed>>

\* SELECT 1, SET search_path, commit; in a transaction that has failed the
\* SELECT fails, and the connection is replaced.
Prepare(t) ==
    /\ thread[t].at = "prepare"
    /\ IF txn \in {"failed", "lost"} THEN Rollback /\ UNCHANGED db
       ELSE db' = work /\ txn' = "idle" /\ UNCHANGED work
    /\ Goes(t, "run")
    /\ UNCHANGED <<calls, drops, mixed>>

\* The server closes the connection; nobody notices before the next statement.
DropConnection ==
    /\ drops < MaxDrops /\ txn # "lost"
    /\ work' = db /\ txn' = "lost"
    /\ drops' = drops + 1
    /\ mixed' = (mixed \/ \E t \in Threads : thread[t].at # "idle")
    /\ UNCHANGED <<db, thread, calls>>

(* ---- The statements of a call ----------------------------------------- *)
Runs(t, s) == thread[t].at = "run" /\ Head(thread[t].todo) = s

\* A look-up leaves its transaction open; the next statement has a new cursor.
LookUp(t, s) ==
    /\ Runs(t, s) /\ s \in {"find_key", "find_pane"}
    /\ txn # "failed"
    /\ txn' = "open"
    /\ thread' = [thread EXCEPT ![t] =
                    IF Found(s, thread[t].key, thread[t].pane, work) THEN Idle
                    ELSE [thread[t] EXCEPT !.at = "ensure", !.todo = Tail(thread[t].todo)]]
    /\ UNCHANGED <<db, work, calls, drops, mixed>>

\* On a lost connection the statement, and it alone, is run again on a new one.
Statement(t, s) ==
    /\ Runs(t, s) /\ s \in {"insert", "map", "retire", "activate", "remove"}
    /\ txn # "failed" /\ ~Violates(s, thread[t].key, thread[t].pane, work)
    /\ work' = Effect(s, thread[t].key, thread[t].pane, work)
    /\ txn' = "open"
    /\ thread' = [thread EXCEPT ![t].todo = Tail(@),
                                ![t].at = IF thread[t].todo[2] = "commit" THEN "ensure" ELSE "run"]
    /\ UNCHANGED <<db, calls, drops, mixed>>

Fails(t, s) ==
    /\ Runs(t, s) /\ s # "commit"
    /\ txn = "failed" \/ Violates(s, thread[t].key, thread[t].pane, work)
    /\ txn' = "failed" /\ Goes(t, "undo")
    /\ UNCHANGED <<db, work, calls, drops, mixed>>

\* execute() rolls back, and so does the cursor when it is left.
Undo(t) ==
    /\ thread[t].at \in {"undo", "leave"}
    /\ Rollback
    /\ thread' = [thread EXCEPT ![t] = IF @.at = "undo" THEN [@ EXCEPT !.at = "leave"] ELSE Idle]
    /\ UNCHANGED <<db, calls, drops, mixed>>

\* A failed transaction commits as a rollback, and does not say so.
Commit(t) ==
    /\ Runs(t, "commit") /\ txn # "lost"
    /\ IF txn = "failed" THEN Rollback /\ UNCHANGED db
       ELSE db' = work /\ txn' = "idle" /\ UNCHANGED work
    /\ Goes(t, "tell")
    /\ UNCHANGED <<calls, drops, mixed>>

CommitFails(t) ==
    /\ Runs(t, "commit") /\ txn = "lost"
    /\ Rollback
    /\ thread' = [thread EXCEPT ![t] = Idle]
    /\ UNCHANGED <<db, calls, drops, mixed>>

\* The hooks have no targets (CompositePropagationHook.default): a call that
\* has changed a row is answered with 503, the row as it is.
Propagate(t) ==
    /\ thread[t].at = "tell"
    /\ thread' = [thread EXCEPT ![t] = Idle]
    /\ UNCHANGED <<db, work, txn, calls, drops, mixed>>

Next ==
    \/ DropConnection
    \/ \E t \in Threads :
         \/ \E k \in Keys, p \in Panes \cup {NoPane} :
              \E op \in {"add", "enroll", "enroll_pane", "remap", "remove"} : Begin(t, op, k, p)
         \/ CheckStatus(t) \/ Probe(t) \/ Prepare(t)
         \/ \E s \in {"find_key", "find_pane"} : LookUp(t, s)
         \/ \E s \in {"insert", "map", "retire", "activate", "remove"} : Statement(t, s)
         \/ \E s \in {"find_key", "find_pane", "insert", "map", "retire", "activate", "remove"} : Fails(t, s)
         \/ Undo(t) \/ Commit(t) \/ CommitFails(t) \/ Propagate(t)
Spec == Init /\ [][Next]_enrollVars

(* ---- Properties ------------------------------------------------------- *)
TypeOK ==
    /\ \A d \in {db, work} : d.mapped \subseteq Keys \X Panes
         /\ \A k \in Keys : d.agent[k] \in [status : {"absent", "active", "removed"}, pane : Panes \cup {NoPane}]
    /\ txn \in {"idle", "open", "failed", "lost"}
    /\ calls \in 0..MaxCalls /\ drops \in 0..MaxDrops

Current(d, k) == {m[2] : m \in {x \in d.mapped : x[1] = k}}

\* repository.py:162-230: as long as no two calls have overlapped and no
\* connection was lost in one, the pane in an active agent's row is its one
\* mapping that is not retired, a removed agent has neither, and a call that
\* is about to be answered has its row committed.  When calls overlap, each of
\* these can fail: one thread's error rolls back what another then believes
\* it has committed.
PanesAgree ==
    ~mixed =>
        /\ \A k \in Keys : LET row == db.agent[k] IN
             Current(db, k) = (IF row.status = "active" THEN {row.pane} \ {NoPane} ELSE {})
        /\ \A t \in Threads : thread[t].at = "tell" =>
             LET row == db.agent[thread[t].key] IN
               CASE thread[t].op = "remove" -> row.status \in {"absent", "removed"}
                 [] thread[t].op = "remap" -> row.status = "active" /\ row.pane = thread[t].pane
                 [] OTHER -> row = [status |-> "active", pane |-> thread[t].pane]
=============================================================================
