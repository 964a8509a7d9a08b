---------------------------- MODULE TaskRegistry ----------------------------
(* The task registry of the control plane (tasks_api/repository.py,        *)
(* reconciler.py, router.py): rows in Postgres, filled from the ledger     *)
(* file, polled from HerdMaster and patched by clients.  Each request runs *)
(* in a thread of its own and commits statement by statement, and an       *)
(* update reads the whole row and writes it back.                          *)
EXTENDS Naturals, Sequences, SequencesExt

CONSTANTS
    RTasks,        \* ids of ledger entries
    HmIds,         \* ids of rows of HerdMaster
    Unlinked,      \* not an id: no herdmaster_task_id
    Threads,       \* requests under way at a time
    MaxRequests    \* bound: requests that start

\* The file lists finitely many tasks.
RegistryAssumption == IsFiniteSet(RTasks)

VARIABLES
    ot,            \* ottl_tasks rows
    hmtask,        \* HerdMaster: how far each row is
    thread,        \* the request each thread serves
    requests,      \* requests so far
    linked,        \* history: rows of HerdMaster that a task was linked to
    patched           \* history: states of HerdMaster that clients patched into a task

registryVars == <<ot, hmtask, thread, requests, linked, patched>>

\* What a row of HerdMaster goes through: one that is done may be reopened.
HmStates == <<"queued", "done", "queued">>
\* Nothing here depends on what the status of a row is, only on its being there.
Statuses == {"set"}
NoRow == [status |-> "none", link |-> Unlinked, hm |-> "none"]
Idle == [at |-> "idle", task |-> "none", todo |-> <<>>, copy |-> <<>>,
         set |-> NoRow, row |-> NoRow]

Init ==
    /\ ot = [t \in RTasks |-> NoRow]
    /\ hmtask = [h \in HmIds |-> 1]
    /\ thread = [w \in Threads |-> Idle]
    /\ requests = 0
    /\ linked = [t \in RTasks |-> {}]
    /\ patched = [t \in RTasks |-> {}]

HerdMasterAdvances(h) ==
    /\ hmtask[h] < Len(HmStates)
    /\ hmtask' = [hmtask EXCEPT ![h] = @ + 1]
    /\ UNCHANGED <<ot, thread, requests, linked, patched>>

(* ---- The upsert overwrites every column ------------------------------- *)
Upsert(t, row) ==
    /\ ot' = [ot EXCEPT ![t] = row]
    /\ linked' = [linked EXCEPT ![t] = @ \cup {row.link}]

Starts(w) == thread[w] = Idle /\ requests < MaxRequests /\ requests' = requests + 1

(* ---- POST /reconcile: reconcile_from_file, then the sync -------------- *)
\* The file as tech leads and agents have edited it by then.
ReadFile(w) ==
    /\ Starts(w)
    /\ \E ledger \in [RTasks -> [status : Statuses, link : HmIds \cup {Unlinked}]] :
         thread' = [thread EXCEPT ![w].at = "file", ![w].copy = ledger, ![w].todo = SetToSeq(RTasks)]
    /\ UNCHANGED <<ot, hmtask, linked, patched>>

\* An entry carries no state of HerdMaster: the row's is wiped.
FileUpsert(w) ==
    /\ thread[w].at = "file" /\ thread[w].todo # <<>>
    /\ LET t == Head(thread[w].todo)
           entry == thread[w].copy[t]
       IN Upsert(t, [status |-> entry.status, link |-> entry.link, hm |-> "none"])
    /\ thread' = [thread EXCEPT ![w].todo = Tail(@)]
    /\ UNCHANGED <<hmtask, requests, patched>>

\* sync_herdmaster_states works on one listing of the rows.
ListRows(w) ==
    /\ thread[w].at = "file" /\ thread[w].todo = <<>>
    /\ thread' = [thread EXCEPT ![w].at = "sync", ![w].copy = ot,
         ![w].todo = SetToSeq({t \in RTasks : ot[t].link # Unlinked})]
    /\ UNCHANGED <<ot, hmtask, requests, linked, patched>>

\* Mutant: an answer is taken for the end of the task.
Polled_Done(h) == "done"
Polled(h) == HmStates[hmtask[h]]

\* A poll that fails is noted and the next row is taken.
Poll(w) ==
    /\ thread[w].at = "sync" /\ thread[w].todo # <<>>
    /\ LET t == Head(thread[w].todo)
           state == Polled(thread[w].copy[t].link)
       IN \/ thread' = [thread EXCEPT ![w].at = "get", ![w].task = t, ![w].todo = Tail(@),
                                      ![w].set = [NoRow EXCEPT !.hm = state]]
          \/ thread' = [thread EXCEPT ![w].todo = Tail(@)]
    /\ UNCHANGED <<ot, hmtask, requests, linked, patched>>

SyncEnds(w) ==
    /\ thread[w].at = "sync" /\ thread[w].todo = <<>>
    /\ thread' = [thread EXCEPT ![w] = Idle]
    /\ UNCHANGED <<ot, hmtask, requests, linked, patched>>

(* ---- PATCH /tasks/{id} ------------------------------------------------ *)
\* Any of the fields, the state of HerdMaster among them.
PatchBodies == [status : {"none"} \cup Statuses, link : HmIds \cup {Unlinked}, hm : {"none", "done"}]

Patch(w) ==
    /\ Starts(w)
    /\ \E t \in RTasks, set \in PatchBodies :
         /\ thread' = [thread EXCEPT ![w].at = "get", ![w].task = t, ![w].set = set]
         /\ patched' = [patched EXCEPT ![t] = @ \cup {set.hm}]
    /\ UNCHANGED <<ot, hmtask, linked>>

(* ---- repository.update: get, then upsert what was read with the changes *)
Resumed(w) == IF thread[w].copy = <<>> THEN Idle
              ELSE [thread[w] EXCEPT !.at = "sync", !.task = "none", !.set = NoRow, !.row = NoRow]

Get_Creates(w) ==
    /\ thread[w].at = "get"
    /\ thread' = [thread EXCEPT ![w].at = "upsert", ![w].row = ot[thread[w].task]]
    /\ UNCHANGED <<ot, hmtask, requests, linked, patched>>
Get(w) ==
    /\ thread[w].at = "get"
    /\ LET row == ot[thread[w].task] IN
         thread' = [thread EXCEPT ![w] = IF row = NoRow THEN Resumed(w)
                                         ELSE [@ EXCEPT !.at = "upsert", !.row = row]]
    /\ UNCHANGED <<ot, hmtask, requests, linked, patched>>

UpdateUpsert(w) ==
    /\ thread[w].at = "upsert"
    /\ LET c == thread[w]
           new(field) == IF c.set[field] = NoRow[field] THEN c.row[field] ELSE c.set[field]
       IN Upsert(c.task, [status |-> new("status"), link |-> new("link"), hm |-> new("hm")])
    /\ thread' = [thread EXCEPT ![w] = Resumed(w)]
    /\ UNCHANGED <<hmtask, requests, patched>>

Next ==
    \/ \E h \in HmIds : HerdMasterAdvances(h)
    \/ \E w \in Threads : \/ ReadFile(w) \/ FileUpsert(w) \/ ListRows(w) \/ Poll(w) \/ SyncEnds(w)
                          \/ Patch(w) \/ Get(w) \/ UpdateUpsert(w)
Spec == Init /\ [][Next]_registryVars

(* ---- Properties ------------------------------------------------------- *)
TypeOK ==
    /\ \A t \in RTasks : ot[t].status \in Statuses \cup {"none"}
    /\ \A w \in Threads : thread[w].at \in {"idle", "file", "sync", "get", "upsert"}

\* repository.py:146, reconciler.py:130: however requests overlap, no row comes
\* from an update of a task that the ledger never listed, and a row shows no
\* state of HerdMaster but one that a row it was linked to has reached, or that a
\* client has patched into this very task (router.py:33).  It may show an older
\* state than before, one of a row it is no longer linked to, and a patch may be
\* undone by a sync that had read the row before.
Reached(t, state) == \E h \in linked[t] \cap HmIds : \E i \in 1 .. hmtask[h] : HmStates[i] = state
RowsAreGrounded == \A t \in RTasks :
    /\ ot[t] # NoRow => ot[t].status # "none"
    /\ ot[t].hm # "none" => ot[t].hm \in patched[t] \/ Reached(t, ot[t].hm)
=============================================================================
