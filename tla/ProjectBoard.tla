---------------------------- MODULE ProjectBoard ----------------------------
(* The board of the control plane: projects, issues and inbox events        *)
(* (projects_api, issues_api, inbox_api) and the settings of a tenant       *)
(* (settings_api).  Rows do not refer to each other, so one of each stands  *)
(* for all; a deleted row keeps its id.  The requests run in worker threads, *)
(* but POST /issues/{id}/dispatch in the event loop, where it waits for the *)
(* events of its task while others change the issue.  Settings, the profile *)
(* and the integrations share one table and differ by the prefix of a key.  *)
EXTENDS Naturals, FiniteSets, Sequences

CONSTANTS
    Dispatches,     \* requests to dispatch the issue
    PatchStatuses,  \* statuses that clients set
    MaxPatches,     \* bound: patches of the issue
    Writers,        \* requests that write settings
    WritesOf        \* Writers -> what each writes, key by key

\* Only PATCH /settings, which takes any key, may write one of an integration as
\* something else (settings_api/repository.py:100-124).
BoardAssumption ==
    /\ MaxPatches \in Nat
    /\ WritesOf \in [Writers -> Seq([route : {"settings", "profile", "integrations"},
                                     key : Seq(STRING), json : BOOLEAN])]
    /\ \A w \in Writers : WritesOf[w] # <<>> /\ WritesOf[w][1].route # "settings" =>
         \A i \in DOMAIN WritesOf[w] : WritesOf[w][i].key[1] = "integrations" => WritesOf[w][i].json

VARIABLES
    project, issue, event,
    dispatch,       \* where each dispatch is, its copy of the metadata, its result
    patches,        \* how many, and the statuses they have set
    raced,          \* a patch came while a dispatch held an older copy
    settings,       \* the rows by key: is the value an integration's, and who wrote it
    writer,         \* each request that writes settings: where it is, what it has left,
                    \* and those that had ended before it began
    token           \* an API token

itemVars == <<project, issue, event, dispatch, patches, raced>>
settingVars == <<settings, writer, token>>
boardVars == <<itemVars, settingVars>>

\* metadata: how many of the clients' patches it holds, and last_dispatch_status.
Metadata == [notes : 0..MaxPatches, told : {"none", "done", "blocked", "in_progress"}]
NoMetadata == [notes |-> 0, told |-> "none"]

Init ==
    /\ project = "absent" /\ event = "absent"
    /\ issue = [is |-> "absent", status |-> "backlog", meta |-> NoMetadata]
    /\ dispatch = [d \in Dispatches |-> [at |-> "new", copy |-> NoMetadata, result |-> "none"]]
    /\ patches = [count |-> 0, set |-> {}]
    /\ raced = FALSE
    /\ settings = {} /\ token = "absent"
    /\ writer = [w \in Writers |-> [at |-> "new", left |-> WritesOf[w], before |-> {}]]

(* ---- Projects and inbox ----------------------------------------------- *)
\* The id of a deleted project is taken for ever: 409.
CreateProject ==
    /\ project = "absent" /\ project' = "active"
    /\ UNCHANGED <<issue, event, dispatch, patches, raced>>
UpdateProject ==
    /\ project \notin {"absent", "deleted"}
    /\ project' \in {"active", "paused", "archived"}
    /\ UNCHANGED <<issue, event, dispatch, patches, raced>>
DeleteProject ==
    /\ project \notin {"absent", "deleted"}
    /\ project' = "deleted"
    /\ UNCHANGED <<issue, event, dispatch, patches, raced>>

CreateEvent ==
    /\ event = "absent" /\ event' = "unread"
    /\ UNCHANGED <<project, issue, dispatch, patches, raced>>
Readable_Archived == {"unread", "read", "archived"}
Readable == {"unread", "read"}
MarkRead ==
    /\ event \in Readable /\ event' = "read"
    /\ UNCHANGED <<project, issue, dispatch, patches, raced>>
BulkArchive ==
    /\ event \in {"unread", "read"} /\ event' = "archived"
    /\ UNCHANGED <<project, issue, dispatch, patches, raced>>

(* ---- Issues ----------------------------------------------------------- *)
\* Clients may create an issue with any status.
CreateIssue ==
    /\ issue.is = "absent"
    /\ \E s \in PatchStatuses :
         /\ issue' = [issue EXCEPT !.is = "live", !.status = s]
         /\ patches' = [patches EXCEPT !.set = @ \cup {s}]
    /\ UNCHANGED <<project, event, dispatch, raced>>

\* UPDATE ... WHERE deleted_at IS NULL.
Updated_Deleted(status, meta) == [issue EXCEPT !.status = status, !.meta = meta]
Updated(status, meta) ==
    IF issue.is = "live" THEN [issue EXCEPT !.status = status, !.meta = meta] ELSE issue

HoldsCopy(d) == dispatch[d].at \in {"read", "running", "finishing"}
UpdateIssue ==
    /\ issue.is = "live" /\ patches.count < MaxPatches
    /\ \E s \in PatchStatuses :
         /\ issue' = Updated(s, [issue.meta EXCEPT !.notes = patches.count + 1])
         /\ patches' = [count |-> patches.count + 1, set |-> patches.set \cup {s}]
    /\ raced' = (raced \/ \E d \in Dispatches : HoldsCopy(d))
    /\ UNCHANGED <<project, event, dispatch>>

DeleteIssue ==
    /\ issue.is = "live" /\ issue' = [issue EXCEPT !.is = "deleted"]
    /\ UNCHANGED <<project, event, dispatch, patches, raced>>

(* ---- dispatch_issue --------------------------------------------------- *)
\* 404 when there is none, 422 when nobody is to do it.
Read(d) ==
    /\ dispatch[d].at = "new"
    /\ \/ issue.is = "live" /\ dispatch' = [dispatch EXCEPT ![d].at = "read", ![d].copy = issue.meta]
       \/ dispatch' = [dispatch EXCEPT ![d].at = "ended"]
    /\ UNCHANGED <<project, issue, event, patches, raced>>

\* The task runs even when the issue has been deleted meanwhile.
Start(d) ==
    /\ dispatch[d].at = "read"
    /\ issue' = Updated("in_progress", dispatch[d].copy)
    /\ dispatch' = [dispatch EXCEPT ![d].at = "running"]
    /\ UNCHANGED <<project, event, patches, raced>>

\* collect_events: the status of the last event, or no event; "dispatched" and
\* the like leave the issue in progress.  It may raise, and the process may stop.
StatusFromEvents == {"done", "blocked", "in_progress"}
EventsCollected(d) ==
    /\ dispatch[d].at = "running"
    /\ \E r \in StatusFromEvents :
         dispatch' = [dispatch EXCEPT ![d].at = "finishing", ![d].result = r]
    /\ UNCHANGED <<project, issue, event, patches, raced>>
Raises(d) ==
    /\ dispatch[d].at = "running"
    /\ dispatch' = [dispatch EXCEPT ![d].at = "raised"]
    /\ UNCHANGED <<project, issue, event, patches, raced>>

Finish_Done(d) == issue' = Updated("done", [dispatch[d].copy EXCEPT !.told = dispatch[d].result])
Finish(d) == issue' = Updated(dispatch[d].result, [dispatch[d].copy EXCEPT !.told = dispatch[d].result])
Complete(d) ==
    /\ dispatch[d].at = "finishing"
    /\ Finish(d)
    /\ dispatch' = [dispatch EXCEPT ![d].at = "ended"]
    /\ UNCHANGED <<project, event, patches, raced>>

(* ---- Settings, profile, integrations, tokens --------------------------- *)
\* PATCH /settings takes any key, those of the profile and of integrations too;
\* PATCH /settings/profile and POST /settings/integrations choose the prefix.
Request(w) == WritesOf[w][1].route
BeginWriting(w) ==
    /\ writer[w].at = "new"
    /\ writer' = [writer EXCEPT ![w].at = "writing",
                                 ![w].before = {u \in Writers : writer[u].at = "ended"}]
    /\ UNCHANGED <<settings, token>>

\* upsert_setting: ON CONFLICT (tenant_id, key) DO UPDATE, committed key by key.
Upserted_First(w, row) ==
    IF \E s \in settings : s.key = row.key THEN settings
    ELSE settings \cup {[key |-> row.key, json |-> row.json, by |-> w]}
Upserted(w, row) ==
    {s \in settings : s.key # row.key} \cup {[key |-> row.key, json |-> row.json, by |-> w]}
UpsertSetting(w) ==
    /\ writer[w].at = "writing" /\ writer[w].left # <<>>
    /\ settings' = Upserted(w, Head(writer[w].left))
    /\ writer' = [writer EXCEPT ![w].left = Tail(@)]
    /\ UNCHANGED token
\* All is written, or a statement failed; what was written before it stays.
WritingEnds(w) ==
    /\ writer[w].at = "writing"
    /\ writer' = [writer EXCEPT ![w].at = "ended"]
    /\ UNCHANGED <<settings, token>>

\* What the routes show: general settings are the rows with neither prefix.
Prefix(s) == IF s.key[1] \in {"profile", "integrations"} THEN s.key[1] ELSE "settings"
Shown(prefix) == {s \in settings : Prefix(s) = prefix}
\* GET /settings/integrations decodes every row, and fails at one that is no integration.
ListIntegrations == IF \A s \in Shown("integrations") : s.json THEN "listed" ELSE "failed"

CreateToken ==
    /\ token = "absent" /\ token' = "live"
    /\ UNCHANGED <<settings, writer>>
\* UPDATE ... WHERE revoked_at IS NULL; of a revoked token: 404.
RevokeToken ==
    /\ token = "live" /\ token' = "revoked"
    /\ UNCHANGED <<settings, writer>>

SettingsNext ==
    /\ \/ \E w \in Writers : BeginWriting(w) \/ UpsertSetting(w) \/ WritingEnds(w)
       \/ CreateToken \/ RevokeToken
    /\ UNCHANGED itemVars

Records ==
    \/ CreateProject \/ UpdateProject \/ DeleteProject
    \/ CreateEvent \/ MarkRead \/ BulkArchive
IssuesNext ==
    \/ CreateIssue \/ UpdateIssue \/ DeleteIssue
    \/ \E d \in Dispatches : Read(d) \/ Start(d) \/ EventsCollected(d) \/ Raises(d) \/ Complete(d)
RecordsNext == Records /\ UNCHANGED settingVars
DispatchNext == IssuesNext /\ UNCHANGED settingVars
Next == RecordsNext \/ DispatchNext \/ SettingsNext
Spec == Init /\ [][Next]_boardVars

(* ---- Properties ------------------------------------------------------- *)
TypeOK ==
    /\ project \in {"absent", "active", "paused", "archived", "deleted"}
    /\ event \in {"absent", "unread", "read", "archived"}
    /\ issue \in [is : {"absent", "live", "deleted"}, meta : Metadata,
                  status : {"backlog", "todo", "in_progress", "blocked", "done"}]
    /\ \A s \in settings : s.by \in Writers /\ s.json \in BOOLEAN
    /\ \A s, t \in settings : s.key = t.key => s = t
    /\ token \in {"absent", "live", "revoked"}

\* issues_api/router.py:218-255: an issue is done or blocked because a client
\* said so or a dispatch ended so, however several dispatches have overtaken
\* each other; it stays in progress with nobody at it only when a dispatch
\* raised, or ended without a result; and what a client wrote in the metadata
\* is lost only to a dispatch that had read it before.
StatusTells ==
    issue.is = "live" =>
        /\ issue.status \in {"done", "blocked"} \ patches.set =>
             \E d \in Dispatches : dispatch[d].at = "ended" /\ dispatch[d].result = issue.status
        /\ issue.status \notin patches.set /\ (\A d \in Dispatches : ~HoldsCopy(d)) =>
             \/ \E d \in Dispatches : dispatch[d].at = "raised"
             \/ \E d \in Dispatches : dispatch[d].result = issue.status
        /\ issue.meta.notes # patches.count => raced

\* settings_api/router.py:108-117, repository.py:38-81: a key that a request has
\* written in full holds no value of a request that had ended before it began,
\* so the values of two requests mix only when they overlap.  The list of
\* integrations can always be shown, unless a client has written a key of theirs
\* as if it were a general setting.
KeysOf(w) == {WritesOf[w][i].key : i \in DOMAIN WritesOf[w]}
SettingsTell ==
    /\ \A w \in Writers : writer[w].at = "ended" /\ writer[w].left = <<>> =>
         \A k \in KeysOf(w) : \E s \in settings : s.key = k /\ s.by \notin writer[w].before
    /\ ListIntegrations = "failed" =>
         \E s \in Shown("integrations") : Request(s.by) = "settings"

\* A row that is deleted, archived or revoked stays as it is, whatever still runs.
FinalRows ==
    [][/\ project = "deleted" => UNCHANGED project
       /\ event = "archived" => UNCHANGED event
       /\ issue.is = "deleted" => UNCHANGED issue
       /\ token = "revoked" => UNCHANGED token]_boardVars
=============================================================================
