--------------------------- MODULE DispatchProofs ---------------------------
(* Theorems about Dispatch, for any tasks, agents, planners and bounds.    *)
EXTENDS Dispatch, TLAPS

USE DispatchAssumption

\* The frame of a resting dispatcher is a frame.
LEMMA AtRestType == AtRest \in Frame
BY DEF AtRest, Frame, Points

\* The row updates of the queue produce rows.
LEMMA RowUpdates ==
    ASSUME task \in [Tasks -> Row], NEW t \in Tasks
    PROVE  /\ \A s \in States : SetState(t, s) \in [Tasks -> Row]
           /\ \A a \in Agents : Claimed(t, a) \in [Tasks -> Row]
           /\ Requeued(t) \in [Tasks -> Row]
           /\ MarkFailedFromCurrentState(t) \in [Tasks -> Row]
<1>1. \A s \in States : SetState(t, s) \in [Tasks -> Row]
  BY DEF Row, SetState
<1>2. ASSUME NEW a \in Agents
      PROVE  Claimed(t, a) \in [Tasks -> Row]
  BY DEF Row, Claimed, States
<1>3. Requeued(t) \in [Tasks -> Row]
  BY DEF Row, Requeued, States
<1>4. MarkFailedFromCurrentState(t) \in [Tasks -> Row]
  BY <1>1 DEF MarkFailedFromCurrentState, States
<1> QED
  BY <1>1, <1>2, <1>3, <1>4

\* Moving a dispatcher to another await keeps the types.
LEMMA GotoType ==
    ASSUME TypeOK, NEW c \in Dispatchers, NEW p \in Points, Goto(c, p)
    PROVE  co' \in [Dispatchers -> Frame]
<1>1. co \in [Dispatchers -> Frame] /\ co' = [co EXCEPT ![c].at = p]
  BY DEF TypeOK, Goto
<1>2. [co[c] EXCEPT !.at = p] \in Frame
  BY <1>1 DEF Frame
<1> QED
  BY <1>1, <1>2

\* So does the end of a dispatch, by return or by exception.
LEMMA EndType ==
    ASSUME TypeOK, NEW c \in Dispatchers, Return(c) \/ Raise(c)
    PROVE  co' \in [Dispatchers -> Frame] /\ todo' \subseteq Agents
BY AtRestType DEF TypeOK, Return, Raise

\* And its beginning.
LEMMA EnterType ==
    ASSUME TypeOK, NEW c \in Dispatchers, NEW t \in Tasks, NEW a \in Agents,
           task' \in [Tasks -> Row], EnterDispatch(c, t, a)
    PROVE  co' \in [Dispatchers -> Frame]
<1>1. task'[t].version \in Nat
  BY DEF Row
<1> QED
  BY <1>1 DEF TypeOK, EnterDispatch, Frame, Points

\* A HerdrError either fails the task and returns, or waits for the next attempt.
LEMMA HerdrFailureType ==
    ASSUME TypeOK, NEW c \in Dispatchers, NEW p \in Points, HerdrFailure(c, p)
    PROVE  /\ task' \in [Tasks -> Row]
           /\ co' \in [Dispatchers -> Frame]
           /\ todo' \subseteq Agents
<1>1. co[c].task \in Tasks
  BY DEF TypeOK, Frame
<1>2. CASE co[c].attempt >= RetryAttempts
  BY <1>1, <1>2, RowUpdates, EndType DEF HerdrFailure, TypeOK
<1>3. CASE ~ (co[c].attempt >= RetryAttempts)
  BY <1>3, GotoType DEF HerdrFailure, TypeOK
<1> QED
  BY <1>2, <1>3

\* Type correctness is inductive.
LEMMA TypeStep ==
    ASSUME TypeOK, [Next]_vars
    PROVE  TypeOK'
<1> USE DEF TypeOK
<1>1. CASE SnapshotAgents
  BY <1>1 DEF SnapshotAgents
<1>2. CASE ClaimNext
  <2>1. PICK a \in todo : /\ todo' = todo \ {a}
                          /\ \/ UNCHANGED <<task, co>>
                             \/ \E t \in ReadyTasks : task' = Claimed(t, a) /\ EnterDispatch(Loop, t, a)
    BY <1>2 DEF ClaimNext
  <2>2. CASE UNCHANGED <<task, co>>
    BY <1>2, <2>1, <2>2 DEF ClaimNext
  <2>3. ASSUME NEW t \in ReadyTasks, task' = Claimed(t, a), EnterDispatch(Loop, t, a)
        PROVE  task' \in [Tasks -> Row] /\ co' \in [Dispatchers -> Frame]
    <3>1. t \in Tasks /\ a \in Agents /\ Loop \in Dispatchers
      BY DEF ReadyTasks, Dispatchers
    <3>2. task' \in [Tasks -> Row]
      BY <3>1, <2>3, RowUpdates
    <3> QED
      BY <3>1, <3>2, <2>3, EnterType
  <2> QED
    BY <1>2, <2>1, <2>2, <2>3 DEF ClaimNext
<1>3. CASE Restart
  BY <1>3, AtRestType DEF Restart
<1>4. ASSUME NEW t \in Tasks, Enqueue(t)
      PROVE  TypeOK'
  BY <1>4 DEF Enqueue, Row, States
<1>5. ASSUME NEW t \in Tasks, Api(t)
      PROVE  TypeOK'
  <2>1. task' \in [Tasks -> Row]
    BY <1>5, RowUpdates DEF Api, Cancel, Checkin, Complete, Fail, Ask, Reassign, PatchState, States
  <2> QED
    BY <1>5, <2>1 DEF Api, Cancel, Checkin, Complete, Fail, Ask, Reassign, PatchState, ApiUnchanged
<1>6. ASSUME NEW c \in Planners, NEW t \in Tasks, PlannerDispatch(c, t)
      PROVE  TypeOK'
  <2>1. c \in Dispatchers
    BY DEF Dispatchers
  <2>2. task' \in [Tasks -> Row]
    BY <1>6 DEF PlannerDispatch, Row, States
  <2>3. co' \in [Dispatchers -> Frame]
    BY <1>6, <2>1, <2>2, EnterType DEF PlannerDispatch
  <2> QED
    BY <1>6, <2>2, <2>3 DEF PlannerDispatch
<1>7. ASSUME NEW c \in Dispatchers, DispatchStep(c)
      PROVE  TypeOK'
  <2>1. co[c] \in Frame /\ co[c].task \in Tasks /\ co[c].agent \in Agents /\ co[c].attempt \in Nat
    BY DEF Frame
  <2>2. \A p \in {"wait", "resolve", "text", "enter", "clear", "file_text", "file_enter",
                  "backoff_resolve", "backoff_send", "backoff_idle"} : p \in Points
    BY DEF Points
  <2>3. CASE Resolve(c)
    BY <2>2, <2>3, GotoType, HerdrFailureType DEF Resolve
  <2>4. CASE WaitIdle(c)
    BY <2>2, <2>4, GotoType, EndType DEF WaitIdle
  <2>5. CASE AgentNotIdle(c)
    BY <2>1, <2>2, <2>5, GotoType, EndType, RowUpdates DEF AgentNotIdle
  <2>6. CASE RequeueForLater(c)
    BY <2>1, <2>6, EndType, RowUpdates DEF RequeueForLater
  <2>7. CASE NextAttempt(c)
    BY <2>1, <2>2, <2>7 DEF NextAttempt, Frame
  <2>8. CASE SendText(c)
    BY <2>1, <2>2, <2>8, GotoType DEF SendText, Type
  <2>9. CASE ClearCurrentInput(c)
    BY <2>1, <2>2, <2>9, GotoType DEF ClearCurrentInput
  <2>10. CASE SendFileCommand(c)
    BY <2>1, <2>2, <2>10, GotoType, HerdrFailureType DEF SendFileCommand, Type
  <2>11. CASE SendEnter(c)
    <3>1. typed' \in [Agents -> SUBSET Tasks] /\ got' \in [Agents -> SUBSET Tasks] /\ busy' \subseteq Agents
      BY <2>1, <2>11 DEF SendEnter, Submit
    <3>2. ASSUME MarkStarted(c)
          PROVE  task' \in [Tasks -> Row] /\ co' \in [Dispatchers -> Frame] /\ todo' \subseteq Agents
      BY <2>1, <3>2, EndType, RowUpdates DEF MarkStarted, States
    <3>3. task' \in [Tasks -> Row] /\ co' \in [Dispatchers -> Frame] /\ todo' \subseteq Agents
      BY <2>2, <2>11, <3>2, GotoType, HerdrFailureType DEF SendEnter
    <3> QED
      BY <2>11, <3>1, <3>3 DEF SendEnter
  <2> QED
    BY <1>7, <2>3, <2>4, <2>5, <2>6, <2>7, <2>8, <2>9, <2>10, <2>11 DEF DispatchStep
<1>8. ASSUME NEW a \in Agents, AgentRow(a) \/ AgentFinishes(a)
      PROVE  TypeOK'
  BY <1>8 DEF AgentRow, AgentFinishes
<1>9. CASE UNCHANGED vars
  BY <1>9 DEF vars
<1> QED
  BY <1>1, <1>2, <1>3, <1>4, <1>5, <1>6, <1>7, <1>8, <1>9 DEF Next

\* The tasks table, the dispatchers' frames and the panes always have their
\* types: no sequence of claims, sends, API calls and restarts corrupts them.
THEOREM TypeCorrect == Spec => []TypeOK
<1>1. Init => TypeOK
  BY AtRestType DEF Init, TypeOK, Row
<1>2. TypeOK /\ [Next]_vars => TypeOK'
  BY TypeStep
<1> QED
  BY <1>1, <1>2, PTL DEF Spec

-----------------------------------------------------------------------------
(* Fencing of claims by the version column.                                *)

\* A row that was never enqueued has version 0 and no dispatcher.
FreshRows ==
    \A t \in Tasks : task[t].state = "absent" =>
        task[t].version = 0 /\ \A c \in Dispatchers : ~ Holds(c, t)

FencingInv == TypeOK /\ FreshRows /\ ClaimFenced

\* No step takes a version back, and none removes a row.
RowsAdvance ==
    \A t \in Tasks :
        /\ task[t].version <= task'[t].version
        /\ task'[t].state = "absent" => task'[t] = task[t]

\* Dispatchers that are active after a step were active on the same claim before.
ClaimsKept ==
    \A c \in Dispatchers : co'[c].at # "rest" =>
        Active(c) /\ co'[c].task = co[c].task /\ co'[c].ver = co[c].ver

\* One dispatcher enters with a version that is new to its task.
ClaimEntered ==
    \E e \in Dispatchers, t \in Tasks :
        /\ co'[e].task = t /\ co'[e].ver = task'[t].version
        /\ task[t].version < task'[t].version
        /\ task'[t].state # "absent"
        /\ \A c \in Dispatchers \ {e} : co'[c] = co[c]

\* The row updates advance the rows.
LEMMA UpdatesAdvance ==
    ASSUME TypeOK, NEW t \in Tasks,
           \/ \E s \in States : task' = SetState(t, s)
           \/ task' = Requeued(t)
           \/ task' = MarkFailedFromCurrentState(t)
           \/ UNCHANGED task
    PROVE  RowsAdvance
<1> SUFFICES ASSUME NEW u \in Tasks
             PROVE  /\ task[u].version <= task'[u].version
                    /\ task'[u].state = "absent" => task'[u] = task[u]
  BY DEF RowsAdvance
<1>1. task \in [Tasks -> Row] /\ task[u].version \in Nat /\ "absent" \notin States
  BY DEF TypeOK, Row, States
<1>2. ASSUME NEW s \in States, task' = SetState(t, s)
      PROVE  task[u].version <= task'[u].version /\ (task'[u].state = "absent" => task'[u] = task[u])
  BY <1>1, <1>2 DEF SetState, Row
<1>3. CASE task' = Requeued(t)
  BY <1>1, <1>3 DEF Requeued, Row
<1>4. CASE task' = MarkFailedFromCurrentState(t)
  BY <1>1, <1>2, <1>4 DEF MarkFailedFromCurrentState, States
<1> QED
  BY <1>1, <1>2, <1>3, <1>4

\* Moving on and ending a dispatch keep the claims.
LEMMA MovesKeepClaims ==
    ASSUME TypeOK, NEW c \in Dispatchers,
           \/ Active(c) /\ \E p \in Points : Goto(c, p)
           \/ Return(c) \/ Raise(c)
    PROVE  ClaimsKept
<1>1. co \in [Dispatchers -> Frame]
  BY DEF TypeOK
<1>2. ASSUME Active(c), NEW p \in Points, Goto(c, p)
      PROVE  ClaimsKept
  <2> SUFFICES ASSUME NEW d \in Dispatchers, co'[d].at # "rest"
               PROVE  Active(d) /\ co'[d].task = co[d].task /\ co'[d].ver = co[d].ver
    BY DEF ClaimsKept
  <2>1. CASE d = c
    BY <1>1, <1>2, <2>1 DEF Goto, Frame
  <2>2. CASE d # c
    BY <1>1, <1>2, <2>2 DEF Goto, Active
  <2> QED
    BY <2>1, <2>2
<1>3. CASE Return(c) \/ Raise(c)
  <2>1. co' = [co EXCEPT ![c] = AtRest]
    BY <1>3 DEF Return, Raise
  <2> QED
    BY <1>1, <2>1 DEF ClaimsKept, AtRest, Active
<1> QED
  BY <1>2, <1>3

\* What every step does to rows and claims.
LEMMA StepShape ==
    ASSUME FencingInv, [Next]_vars
    PROVE  RowsAdvance /\ (ClaimsKept \/ ClaimEntered)
<1> USE DEF FencingInv
<1>a. task \in [Tasks -> Row] /\ co \in [Dispatchers -> Frame] /\ \A t \in Tasks : task[t].version \in Nat
  BY DEF TypeOK, Row
<1>b. ASSUME UNCHANGED task
      PROVE  RowsAdvance
  BY <1>a, <1>b DEF RowsAdvance
<1>c. ASSUME UNCHANGED co
      PROVE  ClaimsKept
  BY <1>c DEF ClaimsKept, Active
<1>1. CASE SnapshotAgents
  BY <1>1, <1>b, <1>c DEF SnapshotAgents
<1>2. CASE ClaimNext
  <2>1. PICK a \in todo : \/ UNCHANGED <<task, co>>
                          \/ \E t \in ReadyTasks : task' = Claimed(t, a) /\ EnterDispatch(Loop, t, a)
    BY <1>2 DEF ClaimNext
  <2>2. ASSUME NEW t \in ReadyTasks, task' = Claimed(t, a), EnterDispatch(Loop, t, a)
        PROVE  RowsAdvance /\ ClaimEntered
    <3>1. t \in Tasks /\ Loop \in Dispatchers
      BY DEF ReadyTasks, Dispatchers
    <3>2. RowsAdvance
      BY <1>a, <2>2, <3>1 DEF Claimed, RowsAdvance, Row
    <3>3. task'[t].version = task[t].version + 1 /\ task'[t].state = "assigned"
      BY <1>a, <2>2, <3>1 DEF Claimed
    <3>4. /\ co'[Loop].task = t /\ co'[Loop].ver = task'[t].version
          /\ \A c \in Dispatchers \ {Loop} : co'[c] = co[c]
      BY <1>a, <2>2, <3>1 DEF EnterDispatch
    <3> QED
      BY <1>a, <3>1, <3>2, <3>3, <3>4 DEF ClaimEntered
  <2> QED
    BY <2>1, <2>2, <1>b, <1>c
<1>3. CASE Restart
  BY <1>3, <1>b DEF Restart, ClaimsKept, AtRest
<1>4. ASSUME NEW t \in Tasks, Enqueue(t)
      PROVE  RowsAdvance /\ ClaimsKept
  <2>1. task[t].version = 0
    BY <1>4 DEF Enqueue, FreshRows
  <2>2. RowsAdvance
    BY <1>a, <1>4, <2>1 DEF Enqueue, RowsAdvance
  <2> QED
    BY <1>4, <2>2, <1>c DEF Enqueue
<1>5. ASSUME NEW t \in Tasks, Api(t)
      PROVE  RowsAdvance /\ ClaimsKept
  <2>1. (\E s \in States : task' = SetState(t, s)) \/ task' = Requeued(t)
    BY <1>5 DEF Api, Cancel, Checkin, Complete, Fail, Ask, Reassign, PatchState, States
  <2>2. UNCHANGED co
    BY <1>5 DEF Api, Cancel, Checkin, Complete, Fail, Ask, Reassign, PatchState, ApiUnchanged
  <2> QED
    BY <2>1, <2>2, <1>c, UpdatesAdvance
<1>6. ASSUME NEW p \in Planners, NEW t \in Tasks, PlannerDispatch(p, t)
      PROVE  RowsAdvance /\ ClaimEntered
  <2>1. task[t].version = 0 /\ p \in Dispatchers
    BY <1>6 DEF PlannerDispatch, FreshRows, Dispatchers
  <2>2. RowsAdvance
    BY <1>a, <1>6, <2>1 DEF PlannerDispatch, RowsAdvance
  <2>3. task'[t].version = 2 /\ task'[t].state = "assigned"
    BY <1>a, <1>6 DEF PlannerDispatch
  <2>4. /\ co'[p].task = t /\ co'[p].ver = task'[t].version
        /\ \A c \in Dispatchers \ {p} : co'[c] = co[c]
    BY <1>a, <1>6, <2>1 DEF PlannerDispatch, EnterDispatch
  <2> QED
    BY <2>1, <2>2, <2>3, <2>4 DEF ClaimEntered
<1>7. ASSUME NEW c \in Dispatchers, DispatchStep(c)
      PROVE  RowsAdvance /\ ClaimsKept
  <2>1. co[c].task \in Tasks /\ Active(c)
    BY <1>a, <1>7 DEF Frame, Active, DispatchStep, Resolve, WaitIdle, AgentNotIdle, RequeueForLater,
                      NextAttempt, SendText, ClearCurrentInput, SendFileCommand, SendEnter
  <2>2. ASSUME NEW p \in Points, HerdrFailure(c, p)
        PROVE  RowsAdvance /\ ClaimsKept
    BY <2>1, <2>2, <1>b, UpdatesAdvance, MovesKeepClaims DEF HerdrFailure
  <2>3. \A p \in {"wait", "resolve", "text", "enter", "clear", "file_text", "file_enter",
                  "backoff_resolve", "backoff_send", "backoff_idle"} : p \in Points
    BY DEF Points
  <2>4. CASE Resolve(c)
    BY <2>1, <2>2, <2>3, <2>4, <1>b, MovesKeepClaims DEF Resolve
  <2>5. CASE WaitIdle(c)
    BY <2>1, <2>3, <2>5, <1>b, MovesKeepClaims DEF WaitIdle
  <2>6. CASE AgentNotIdle(c)
    BY <2>1, <2>3, <2>6, <1>b, MovesKeepClaims, UpdatesAdvance DEF AgentNotIdle
  <2>7. CASE RequeueForLater(c)
    BY <2>1, <2>7, MovesKeepClaims, UpdatesAdvance DEF RequeueForLater
  <2>8. CASE NextAttempt(c)
    BY <1>a, <2>1, <2>8, <1>b DEF NextAttempt, ClaimsKept, Active, Frame
  <2>9. CASE SendText(c)
    BY <2>1, <2>3, <2>9, <1>b, MovesKeepClaims DEF SendText
  <2>10. CASE ClearCurrentInput(c)
    BY <2>1, <2>3, <2>10, <1>b, MovesKeepClaims DEF ClearCurrentInput
  <2>11. CASE SendFileCommand(c)
    BY <2>1, <2>2, <2>3, <2>11, <1>b, MovesKeepClaims DEF SendFileCommand
  <2>12. CASE SendEnter(c)
    <3>1. ASSUME MarkStarted(c)
          PROVE  RowsAdvance /\ ClaimsKept
      BY <2>1, <3>1, <1>b, MovesKeepClaims, UpdatesAdvance DEF MarkStarted, States
    <3> QED
      BY <2>1, <2>2, <2>3, <2>12, <3>1, <1>b, MovesKeepClaims DEF SendEnter
  <2> QED
    BY <1>7, <2>4, <2>5, <2>6, <2>7, <2>8, <2>9, <2>10, <2>11, <2>12 DEF DispatchStep
<1>8. ASSUME NEW a \in Agents, AgentRow(a) \/ AgentFinishes(a)
      PROVE  RowsAdvance /\ ClaimsKept
  BY <1>8, <1>b, <1>c DEF AgentRow, AgentFinishes
<1>9. CASE UNCHANGED vars
  BY <1>9, <1>b, <1>c DEF vars
<1> QED
  BY <1>1, <1>2, <1>3, <1>4, <1>5, <1>6, <1>7, <1>8, <1>9 DEF Next

\* Fencing is inductive.
LEMMA FencingStep ==
    ASSUME FencingInv, [Next]_vars
    PROVE  FencingInv'
<1>1. TypeOK'
  BY TypeStep DEF FencingInv
<1>2. RowsAdvance /\ (ClaimsKept \/ ClaimEntered)
  BY StepShape
<1>3. \A t \in Tasks : task[t].version \in Nat /\ task'[t].version \in Nat
  BY <1>1 DEF FencingInv, TypeOK, Row
<1>4. \A c \in Dispatchers : /\ co[c].ver \in Nat /\ co'[c].ver \in Nat
                             /\ co[c].task \in Tasks /\ co'[c].task \in Tasks
  BY <1>1 DEF FencingInv, TypeOK, Frame
<1>4a. ASSUME NEW t \in Tasks
       PROVE  /\ task[t].version <= task'[t].version
              /\ task'[t].state = "absent" => task'[t] = task[t]
  BY <1>2 DEF RowsAdvance
<1>4b. ASSUME NEW t \in Tasks, task[t].state = "absent"
       PROVE  task[t].version = 0 /\ \A c \in Dispatchers : ~ Holds(c, t)
  BY <1>4b, Zenon DEF FencingInv, FreshRows
<1>5. CASE ClaimsKept
  <2>1. FreshRows'
    <3> SUFFICES ASSUME NEW t \in Tasks, task'[t].state = "absent"
                 PROVE  task'[t].version = 0 /\ \A c \in Dispatchers : ~ Holds(c, t)'
      BY DEF FreshRows
    <3>1. task'[t] = task[t] /\ task[t].version = 0 /\ \A c \in Dispatchers : ~ Holds(c, t)
      BY <1>4a, <1>4b
    <3>2. \A c \in Dispatchers : ~ Holds(c, t)'
      BY <1>5, <3>1 DEF ClaimsKept, Holds, Active
    <3> QED
      BY <3>1, <3>2
  <2>2. ASSUME NEW c \in Dispatchers, Active(c)'
        PROVE  co'[c].ver <= task'[co'[c].task].version
    <3>1. co[c].ver <= task[co[c].task].version /\ co'[c].task = co[c].task /\ co'[c].ver = co[c].ver
      BY <1>5, <2>2 DEF FencingInv, ClaimFenced, ClaimsKept, Active
    <3> DEFINE u == co[c].task
    <3>2. u \in Tasks /\ task[u].version <= task'[u].version
      BY <1>4, <1>4a
    <3> QED
      BY <1>3, <1>4, <3>1, <3>2
  <2>3. ASSUME NEW c \in Dispatchers, NEW d \in Dispatchers, Active(c)', Active(d)', c # d,
               co'[c].task = co'[d].task
        PROVE  co'[c].ver # co'[d].ver
    BY <1>5, <2>3 DEF FencingInv, ClaimFenced, ClaimsKept, Active
  <2> QED
    BY <1>1, <2>1, <2>2, <2>3 DEF FencingInv, ClaimFenced
<1>6. CASE ClaimEntered
  <2>1. PICK e \in Dispatchers, t \in Tasks :
            /\ co'[e].task = t /\ co'[e].ver = task'[t].version
            /\ task[t].version < task'[t].version
            /\ task'[t].state # "absent"
            /\ \A c \in Dispatchers \ {e} : co'[c] = co[c]
    BY <1>6 DEF ClaimEntered
  <2>2. FreshRows'
    <3> SUFFICES ASSUME NEW u \in Tasks, task'[u].state = "absent"
                 PROVE  task'[u].version = 0 /\ \A c \in Dispatchers : ~ Holds(c, u)'
      BY DEF FreshRows
    <3>1. task'[u] = task[u] /\ task[u].version = 0 /\ \A c \in Dispatchers : ~ Holds(c, u)
      BY <1>4a, <1>4b
    <3>2. ~ Holds(e, u)'
      BY <2>1 DEF Holds
    <3>3. \A c \in Dispatchers \ {e} : ~ Holds(c, u)'
      BY <2>1, <3>1 DEF Holds, Active
    <3> QED
      BY <3>1, <3>2, <3>3
  <2>3. ASSUME NEW c \in Dispatchers \ {e}, Active(c)'
        PROVE  /\ Active(c) /\ co'[c] = co[c]
               /\ co[c].ver <= task[co[c].task].version
               /\ co'[c].ver <= task'[co'[c].task].version
               /\ co'[c].task = t => co'[c].ver < task'[t].version
    <3>1. Active(c) /\ co'[c] = co[c] /\ co[c].ver <= task[co[c].task].version
      BY <2>1, <2>3 DEF FencingInv, ClaimFenced, Active
    <3> DEFINE u == co[c].task
    <3>2. u \in Tasks /\ task[u].version <= task'[u].version
      BY <1>4, <1>4a
    <3>3. co'[c].ver <= task'[co'[c].task].version
      BY <1>3, <1>4, <3>1, <3>2
    <3>4. co'[c].task = t => co'[c].ver < task'[t].version
      BY <1>3, <1>4, <2>1, <3>1
    <3> QED
      BY <3>1, <3>3, <3>4
  <2>4. ASSUME NEW c \in Dispatchers, Active(c)'
        PROVE  co'[c].ver <= task'[co'[c].task].version
    BY <1>3, <2>1, <2>3, <2>4
  <2>5. ASSUME NEW c \in Dispatchers, NEW d \in Dispatchers, Active(c)', Active(d)', c # d,
               co'[c].task = co'[d].task
        PROVE  co'[c].ver # co'[d].ver
    <3>1. CASE c = e
      BY <1>3, <1>4, <2>1, <2>3, <2>5, <3>1
    <3>2. CASE d = e
      BY <1>3, <1>4, <2>1, <2>3, <2>5, <3>2
    <3>3. CASE c # e /\ d # e
      BY <2>3, <2>5, <3>3 DEF FencingInv, ClaimFenced
    <3> QED
      BY <3>1, <3>2, <3>3
  <2> QED
    BY <1>1, <2>2, <2>4, <2>5 DEF FencingInv, ClaimFenced
<1> QED
  BY <1>2, <1>5, <1>6

\* Two dispatchers never hold the same version of a task: the compare-and-swap
\* of TaskRepo.claim and the bumps of requeue and reassign make every claim
\* distinguishable, with any interference of the API and any restarts.
THEOREM FencedClaims == Spec => []ClaimFenced
<1>1. Init => FencingInv
  <2> SUFFICES ASSUME Init
               PROVE  FencingInv
    OBVIOUS
  <2>1. TypeOK
    BY AtRestType DEF Init, TypeOK, Row
  <2>2. \A c \in Dispatchers : ~ Active(c)
    BY DEF Init, Active, AtRest
  <2> QED
    BY <2>1, <2>2 DEF Init, FencingInv, FreshRows, ClaimFenced, Holds
<1>2. FencingInv /\ [Next]_vars => FencingInv'
  BY FencingStep
<1>3. FencingInv => ClaimFenced
  BY DEF FencingInv
<1> QED
  BY <1>1, <1>2, <1>3, PTL DEF Spec

-----------------------------------------------------------------------------
(* Without reassign and PATCH, a task belongs to its dispatcher.           *)

\* An undisturbed task that is being dispatched is not in the queue, and its
\* requeue was granted within the budget.
Owned(c) ==
    Active(c) /\ Undisturbed(co[c].task) =>
                 /\ task[co[c].task].state \notin {"absent", "queued"}
                 /\ co[c].at = "backoff_idle" => task[co[c].task].retry < MaxRetries

OwnershipInv ==
    /\ TypeOK /\ SoleDispatcher /\ RetryBudget
    /\ \A c \in Dispatchers : Owned(c)

\* A step that puts no undisturbed task into the queue, keeps its retry_count
\* and starts no dispatch, keeps ownership.
LEMMA OwnershipKept ==
    ASSUME OwnershipInv, TypeOK',
           \A t \in Tasks : Undisturbed(t) =>
               /\ task'[t].retry = task[t].retry
               /\ task'[t].state \in {"absent", "queued"} => task[t].state = task'[t].state,
           \A c \in Dispatchers : co'[c].at # "rest" =>
               /\ Active(c) /\ co'[c].task = co[c].task
               /\ co'[c].at = "backoff_idle" =>
                     co[c].at = "backoff_idle" \/ task[co[c].task].retry < MaxRetries
    PROVE  OwnershipInv'
<1>1. \A c \in Dispatchers : co[c].task \in Tasks /\ co'[c].task \in Tasks
  BY DEF OwnershipInv, TypeOK, Frame
<1>2. SoleDispatcher'
  BY DEF OwnershipInv, SoleDispatcher, Holds, Active
<1>3. RetryBudget'
  BY DEF OwnershipInv, RetryBudget
<1>4. ASSUME NEW c \in Dispatchers
      PROVE  Owned(c)'
  BY <1>1 DEF OwnershipInv, Owned, Active
<1> QED
  BY <1>2, <1>3, <1>4 DEF OwnershipInv

\* A dispatch starts on a task that no dispatcher holds, as queued and new
\* tasks are nobody's.
LEMMA OwnershipEntered ==
    ASSUME OwnershipInv, TypeOK', NEW e \in Dispatchers, NEW t \in Tasks,
           task[t].state \in {"absent", "queued"},
           task'[t].state = "assigned", Undisturbed(t) => task'[t].retry <= MaxRetries,
           \A u \in Tasks \ {t} : task'[u] = task[u],
           co'[e].at \in {"wait", "resolve"}, co'[e].task = t,
           \A c \in Dispatchers \ {e} : co'[c] = co[c]
    PROVE  OwnershipInv'
<1>1. \A c \in Dispatchers : co[c].task \in Tasks /\ (Active(c) /\ Undisturbed(t) => co[c].task # t)
  BY DEF OwnershipInv, TypeOK, Frame, Owned
<1>2. SoleDispatcher'
  BY <1>1 DEF OwnershipInv, SoleDispatcher, Holds, Active
<1>3. RetryBudget'
  BY DEF OwnershipInv, RetryBudget
<1>4. ASSUME NEW c \in Dispatchers
      PROVE  Owned(c)'
  <2>1. CASE c = e
    BY <2>1 DEF Owned, Active
  <2>2. CASE c # e
    BY <1>1, <2>2 DEF OwnershipInv, Owned, Active
  <2> QED
    BY <2>1, <2>2
<1> QED
  BY <1>2, <1>3, <1>4 DEF OwnershipInv

\* Ownership is inductive.
LEMMA OwnershipStep ==
    ASSUME OwnershipInv, [Next]_vars
    PROVE  OwnershipInv'
<1>1. TypeOK'
  BY TypeStep DEF OwnershipInv
<1>2. /\ task \in [Tasks -> Row] /\ co \in [Dispatchers -> Frame]
      /\ \A t \in Tasks : task[t].retry \in Nat /\ (Undisturbed(t) => task[t].retry <= MaxRetries)
      /\ \A c \in Dispatchers : co[c].task \in Tasks
  BY DEF OwnershipInv, TypeOK, Row, Frame, RetryBudget
<1>3. ASSUME UNCHANGED task, UNCHANGED co
      PROVE  OwnershipInv'
  BY <1>1, <1>3, OwnershipKept DEF Active
<1>4. CASE SnapshotAgents
  BY <1>3, <1>4 DEF SnapshotAgents
<1>5. CASE ClaimNext
  <2>1. PICK a \in todo : \/ UNCHANGED <<task, co>>
                          \/ \E t \in ReadyTasks : task' = Claimed(t, a) /\ EnterDispatch(Loop, t, a)
    BY <1>5 DEF ClaimNext
  <2>2. ASSUME NEW t \in ReadyTasks, task' = Claimed(t, a), EnterDispatch(Loop, t, a)
        PROVE  OwnershipInv'
    <3>1. t \in Tasks /\ task[t].state = "queued" /\ Loop \in Dispatchers
      BY DEF ReadyTasks, Ready, Dispatchers
    <3>2. /\ task'[t].state = "assigned" /\ task'[t].retry = task[t].retry
          /\ \A u \in Tasks \ {t} : task'[u] = task[u]
      BY <1>2, <2>2, <3>1 DEF Claimed
    <3>3. /\ co'[Loop].at \in {"wait", "resolve"} /\ co'[Loop].task = t
          /\ \A c \in Dispatchers \ {Loop} : co'[c] = co[c]
      BY <1>2, <2>2, <3>1 DEF EnterDispatch
    <3> QED
      BY <1>1, <1>2, <3>1, <3>2, <3>3, OwnershipEntered
  <2> QED
    BY <1>3, <2>1, <2>2
<1>6. CASE Restart
  BY <1>1, <1>2, <1>6, OwnershipKept DEF Restart, AtRest
<1>7. ASSUME NEW t \in Tasks, Enqueue(t)
      PROVE  OwnershipInv'
  <2>1. \A c \in Dispatchers : Active(c) /\ Undisturbed(t) => co[c].task # t
    BY <1>7 DEF Enqueue, OwnershipInv, Owned
  <2>2. co' = co /\ \A u \in Tasks \ {t} : task'[u] = task[u]
    BY <1>2, <1>7 DEF Enqueue
  <2>3. task'[t].retry = 0
    BY <1>2, <1>7 DEF Enqueue
  <2>4. RetryBudget'
    BY <1>2, <2>2, <2>3 DEF RetryBudget
  <2>5. \A c \in Dispatchers : Owned(c)'
    BY <1>2, <2>1, <2>2 DEF OwnershipInv, Owned, Active
  <2>6. SoleDispatcher'
    BY <2>2 DEF OwnershipInv, SoleDispatcher, Holds, Active
  <2> QED
    BY <1>1, <2>4, <2>5, <2>6 DEF OwnershipInv
<1>8. ASSUME NEW t \in Tasks, Api(t)
      PROVE  OwnershipInv'
  <2>1. ASSUME Undisturbed(t)
        PROVE  \E s \in States \ {"queued"} : task' = SetState(t, s)
    BY <1>8, <2>1 DEF Undisturbed, Api, Cancel, Checkin, Complete, Fail, Ask, Reassign, PatchState, States
  <2>2. UNCHANGED co
    BY <1>8 DEF Api, Cancel, Checkin, Complete, Fail, Ask, Reassign, PatchState, ApiUnchanged
  <2>3. \A u \in Tasks \ {t} : task'[u] = task[u]
    BY <1>2, <1>8 DEF Api, Cancel, Checkin, Complete, Fail, Ask, Reassign, PatchState, SetState, Requeued
  <2>4. ASSUME Undisturbed(t)
        PROVE  /\ task'[t].retry = task[t].retry
               /\ task'[t].state \in {"absent", "queued"} => task'[t].state = task[t].state
    BY <1>2, <2>1, <2>4 DEF SetState, States, Row
  <2> QED
    BY <1>1, <2>2, <2>3, <2>4, OwnershipKept DEF Active
<1>9. ASSUME NEW p \in Planners, NEW t \in Tasks, PlannerDispatch(p, t)
      PROVE  OwnershipInv'
  <2>1. p \in Dispatchers /\ task[t].state = "absent"
    BY <1>9 DEF PlannerDispatch, Dispatchers
  <2>2. /\ task'[t].state = "assigned" /\ task'[t].retry = 0
        /\ \A u \in Tasks \ {t} : task'[u] = task[u]
    BY <1>2, <1>9 DEF PlannerDispatch
  <2>3. /\ co'[p].at \in {"wait", "resolve"} /\ co'[p].task = t
        /\ \A c \in Dispatchers \ {p} : co'[c] = co[c]
    BY <1>2, <1>9, <2>1 DEF PlannerDispatch, EnterDispatch
  <2> QED
    BY <1>1, <2>1, <2>2, <2>3, OwnershipEntered
<1>10. ASSUME NEW c \in Dispatchers, DispatchStep(c)
       PROVE  OwnershipInv'
  <2> DEFINE RowsKept == \A t \in Tasks : Undisturbed(t) =>
                 /\ task'[t].retry = task[t].retry
                 /\ task'[t].state \in {"absent", "queued"} => task[t].state = task'[t].state
             Moved == \A d \in Dispatchers : co'[d].at # "rest" =>
                 /\ Active(d) /\ co'[d].task = co[d].task
                 /\ co'[d].at = "backoff_idle" =>
                       co[d].at = "backoff_idle" \/ task[co[d].task].retry < MaxRetries
  <2>0. ASSUME RowsKept, Moved
        PROVE  OwnershipInv'
    BY <1>1, <2>0, OwnershipKept
  <2>1. co[c].task \in Tasks /\ Active(c)
    BY <1>2, <1>10 DEF Active, DispatchStep, Resolve, WaitIdle, AgentNotIdle, RequeueForLater,
                       NextAttempt, SendText, ClearCurrentInput, SendFileCommand, SendEnter
  <2>2. ASSUME UNCHANGED task
        PROVE  RowsKept
    BY <2>2
  <2>3. ASSUME NEW s \in States \ {"queued"}, task' = SetState(co[c].task, s)
        PROVE  RowsKept
    BY <1>2, <2>1, <2>3 DEF SetState, States, Row
  <2>4. ASSUME task' = MarkFailedFromCurrentState(co[c].task)
        PROVE  RowsKept
    BY <2>2, <2>3, <2>4 DEF MarkFailedFromCurrentState, States
  <2>5. ASSUME NEW p \in Points, Goto(c, p),
               p = "backoff_idle" => task[co[c].task].retry < MaxRetries
        PROVE  Moved
    <3> SUFFICES ASSUME NEW d \in Dispatchers, co'[d].at # "rest"
                 PROVE  /\ Active(d) /\ co'[d].task = co[d].task
                        /\ co'[d].at = "backoff_idle" =>
                              co[d].at = "backoff_idle" \/ task[co[d].task].retry < MaxRetries
      OBVIOUS
    <3>1. CASE d = c
      BY <1>2, <2>1, <2>5, <3>1 DEF Goto, Frame
    <3>2. CASE d # c
      BY <1>2, <2>5, <3>2 DEF Goto, Active
    <3> QED
      BY <3>1, <3>2
  <2>6. ASSUME Return(c) \/ Raise(c)
        PROVE  Moved
    <3>1. co' = [co EXCEPT ![c] = AtRest]
      BY <2>6 DEF Return, Raise
    <3> QED
      BY <1>2, <3>1 DEF AtRest, Active
  <2>7. \A p \in {"wait", "resolve", "text", "enter", "clear", "file_text", "file_enter",
                  "backoff_resolve", "backoff_send", "backoff_idle"} : p \in Points
    BY DEF Points
  <2>8. ASSUME NEW p \in Points \ {"backoff_idle"}, HerdrFailure(c, p)
        PROVE  OwnershipInv'
    BY <2>0, <2>2, <2>4, <2>5, <2>6, <2>8 DEF HerdrFailure
  <2>9. ASSUME NEW p \in Points \ {"backoff_idle"}, Goto(c, p), UNCHANGED task
        PROVE  OwnershipInv'
    BY <2>0, <2>2, <2>5, <2>9
  <2>10. CASE Resolve(c)
    BY <2>7, <2>8, <2>9, <2>10 DEF Resolve
  <2>11. CASE WaitIdle(c)
    BY <2>0, <2>2, <2>6, <2>7, <2>9, <2>11 DEF WaitIdle
  <2>12. CASE AgentNotIdle(c)
    <3>1. CASE task[co[c].task].retry >= MaxRetries
      BY <2>0, <2>4, <2>6, <2>12, <3>1 DEF AgentNotIdle
    <3>2. CASE ~ (task[co[c].task].retry >= MaxRetries)
      <4>1. task[co[c].task].retry < MaxRetries
        BY <1>2, <2>1, <3>2
      <4> QED
        BY <2>0, <2>2, <2>5, <2>7, <2>12, <3>2, <4>1 DEF AgentNotIdle
    <3> QED
      BY <3>1, <3>2
  <2>13. CASE RequeueForLater(c)
    <3> DEFINE t == co[c].task
    <3>1. /\ task'[t].retry = task[t].retry + 1
          /\ Undisturbed(t) => task[t].retry < MaxRetries
          /\ \A u \in Tasks \ {t} : task'[u] = task[u]
      BY <1>2, <1>10, <2>1, <2>13 DEF RequeueForLater, Requeued, OwnershipInv, Owned
    <3>2. /\ co' = [co EXCEPT ![c] = AtRest]
          /\ \A d \in Dispatchers : Active(d)' => d # c /\ Active(d) /\ co'[d] = co[d]
      BY <1>2, <2>13 DEF RequeueForLater, Return, AtRest, Active
    <3>3. \A d \in Dispatchers : Active(d) /\ d # c /\ Undisturbed(t) => co[d].task # t
      BY <2>1 DEF OwnershipInv, SoleDispatcher, Holds
    <3>4. RetryBudget'
      BY <1>2, <2>1, <3>1 DEF RetryBudget
    <3>5. \A d \in Dispatchers : Owned(d)'
      BY <1>2, <3>1, <3>2, <3>3 DEF OwnershipInv, Owned
    <3>6. SoleDispatcher'
      BY <3>2 DEF OwnershipInv, SoleDispatcher, Holds
    <3> QED
      BY <1>1, <3>4, <3>5, <3>6 DEF OwnershipInv
  <2>14. CASE NextAttempt(c)
    <3>1. Moved
      BY <1>2, <2>14 DEF NextAttempt, Active, Frame
    <3> QED
      BY <2>0, <2>2, <2>14, <3>1 DEF NextAttempt
  <2>15. CASE SendText(c)
    BY <2>7, <2>9, <2>15 DEF SendText
  <2>16. CASE ClearCurrentInput(c)
    BY <2>7, <2>9, <2>16 DEF ClearCurrentInput
  <2>17. CASE SendFileCommand(c)
    BY <2>7, <2>8, <2>9, <2>17 DEF SendFileCommand
  <2>18. CASE SendEnter(c)
    <3>1. ASSUME MarkStarted(c)
          PROVE  OwnershipInv'
      BY <2>0, <2>2, <2>3, <2>6, <3>1 DEF MarkStarted, States
    <3> QED
      BY <2>7, <2>8, <2>9, <2>18, <3>1 DEF SendEnter
  <2> QED
    BY <1>10, <2>10, <2>11, <2>12, <2>13, <2>14, <2>15, <2>16, <2>17, <2>18 DEF DispatchStep
<1>11. ASSUME NEW a \in Agents, AgentRow(a) \/ AgentFinishes(a)
       PROVE  OwnershipInv'
  BY <1>3, <1>11 DEF AgentRow, AgentFinishes
<1>12. CASE UNCHANGED vars
  BY <1>3, <1>12 DEF vars
<1> QED
  BY <1>4, <1>5, <1>6, <1>7, <1>8, <1>9, <1>10, <1>11, <1>12 DEF Next

\* At the start no task exists and every dispatcher rests.
LEMMA OwnershipInit == Init => OwnershipInv
<1> SUFFICES ASSUME Init
             PROVE  OwnershipInv
  OBVIOUS
<1>1. TypeOK
  BY AtRestType DEF Init, TypeOK, Row
<1>2. \A c \in Dispatchers : ~ Active(c)
  BY DEF Init, Active, AtRest
<1>3. RetryBudget
  BY DEF Init, RetryBudget
<1> QED
  BY <1>1, <1>2, <1>3 DEF OwnershipInv, SoleDispatcher, Holds, Owned

\* No task that the API neither reassigns nor patches is in the hands of two
\* dispatchers, whatever Herdr, the agents and restarts do.
THEOREM ExclusiveDispatch == Spec => []SoleDispatcher
<1>1. OwnershipInv => SoleDispatcher
  BY DEF OwnershipInv
<1>2. OwnershipInv /\ [Next]_vars => OwnershipInv'
  BY OwnershipStep
<1> QED
  BY <1>1, <1>2, OwnershipInit, PTL DEF Spec

\* retry_count of such a task never exceeds max_retries.
THEOREM BoundedRetries == Spec => []RetryBudget
<1>1. OwnershipInv => RetryBudget
  BY DEF OwnershipInv
<1>2. OwnershipInv /\ [Next]_vars => OwnershipInv'
  BY OwnershipStep
<1> QED
  BY <1>1, <1>2, OwnershipInit, PTL DEF Spec

-----------------------------------------------------------------------------
(***************************************************************************)
(* More theorems: Dispatch implements the lifecycle of TaskQueue while     *)
(* reassign is the only interference, and the dispatch loop by itself      *)
(* brings prompts to idle panes, in the order of the dependencies and      *)
(* before it marks their tasks as started.                                 *)
(*                                                                         *)
(* All of them rest on one fact about a step of a dispatcher (StepOf): it  *)
(* moves on with the task and agent it has, or it comes to rest with at    *)
(* most one write to the row of that task.                                 *)
(***************************************************************************)
\* The dispatcher goes on with what it has; the rows stay.
MovesOn(c) ==
    /\ task' = task
    /\ co'[c].at # "rest" /\ co'[c].task = co[c].task /\ co'[c].agent = co[c].agent
    /\ co'[c].at \in {"enter", "file_enter"} => co[c].task \in typed'[co[c].agent]
    /\ co'[c].at \in {"text", "enter"} =>
          busy' = busy /\ (co[c].at = "text" \/ co[c].agent \notin busy)

\* It marks the task as started: its input line has been submitted.
Starts(c) ==
    /\ co[c].at \in {"enter", "file_enter"} /\ task[co[c].task].state = "assigned"
    /\ task' = SetState(co[c].task, "in_progress")
    /\ typed[co[c].agent] \subseteq got'[co[c].agent]

\* It comes to rest, with one of the four ends of dispatch().
Ends(c) ==
    /\ co'[c] = AtRest
    /\ \/ task' = task
       \/ task' = MarkFailedFromCurrentState(co[c].task)
       \/ co[c].at = "backoff_idle" /\ task' = Requeued(co[c].task)
       \/ Starts(c)

\* What it does to the panes: its own text into its own pane, and Enter.
Keystrokes(c) ==
    \A a \in Agents :
        /\ typed'[a] \subseteq typed[a] \cup {u \in {co[c].task} : a = co[c].agent}
        /\ got[a] \subseteq got'[a] /\ got'[a] \subseteq got[a] \cup typed[a]

StepOf(c) ==
    /\ Active(c)
    /\ \A d \in Dispatchers \ {c} : co'[d] = co[d]
    /\ MovesOn(c) \/ Ends(c)
    /\ Keystrokes(c)

\* Every step of a dispatcher is of that form.
LEMMA DispatcherStep ==
    ASSUME TypeOK, NEW c \in Dispatchers, DispatchStep(c)
    PROVE  StepOf(c)
<1>1. /\ co \in [Dispatchers -> Frame] /\ co[c].task \in Tasks /\ co[c].agent \in Agents
      /\ typed \in [Agents -> SUBSET Tasks] /\ got \in [Agents -> SUBSET Tasks]
  BY DEF TypeOK, Frame
<1>2. Active(c)
  BY DEF Active, DispatchStep, Resolve, WaitIdle, AgentNotIdle, RequeueForLater,
         NextAttempt, SendText, ClearCurrentInput, SendFileCommand, SendEnter
<1>3. ASSUME NEW p \in Points, Goto(c, p)
      PROVE  /\ co'[c].at = p /\ co'[c].task = co[c].task /\ co'[c].agent = co[c].agent
             /\ \A d \in Dispatchers \ {c} : co'[d] = co[d]
  BY <1>1, <1>3 DEF Goto, Frame
<1>4. ASSUME Return(c) \/ Raise(c)
      PROVE  co'[c] = AtRest /\ \A d \in Dispatchers \ {c} : co'[d] = co[d]
  BY <1>1, <1>4 DEF Return, Raise
<1>5. \A p \in {"wait", "resolve", "text", "enter", "clear", "file_text", "file_enter",
                "backoff_resolve", "backoff_send", "backoff_idle"} : p \in Points /\ p # "rest"
  BY DEF Points
<1>6. ASSUME UNCHANGED <<typed, got>>
      PROVE  Keystrokes(c)
  BY <1>6 DEF Keystrokes
<1>7. ASSUME Type(c) \/ UNCHANGED typed, UNCHANGED got
      PROVE  Keystrokes(c)
  BY <1>1, <1>7 DEF Keystrokes, Type
<1>8. ASSUME Submit(co[c].agent)
      PROVE  Keystrokes(c) /\ typed[co[c].agent] \subseteq got'[co[c].agent]
  BY <1>1, <1>8 DEF Keystrokes, Submit
<1>9. ASSUME NEW p \in {"backoff_resolve", "backoff_send"}, HerdrFailure(c, p)
      PROVE  (MovesOn(c) \/ Ends(c)) /\ \A d \in Dispatchers \ {c} : co'[d] = co[d]
  <2>1. CASE co[c].attempt >= RetryAttempts
    BY <1>4, <1>9, <2>1 DEF HerdrFailure, Ends
  <2>2. CASE ~ (co[c].attempt >= RetryAttempts)
    BY <1>3, <1>5, <1>9, <2>2 DEF HerdrFailure, MovesOn
  <2> QED
    BY <2>1, <2>2
<1>10. ASSUME NEW p \in Points \ {"rest", "text", "enter", "file_enter"}, Goto(c, p), UNCHANGED task
       PROVE  MovesOn(c) /\ \A d \in Dispatchers \ {c} : co'[d] = co[d]
  BY <1>3, <1>10 DEF MovesOn
<1>11. ASSUME Return(c) \/ Raise(c), UNCHANGED task \/ task' = MarkFailedFromCurrentState(co[c].task)
       PROVE  Ends(c) /\ \A d \in Dispatchers \ {c} : co'[d] = co[d]
  BY <1>4, <1>11 DEF Ends
<1>12. CASE Resolve(c)
  BY <1>2, <1>5, <1>6, <1>9, <1>10, <1>12 DEF Resolve, StepOf
<1>13. CASE WaitIdle(c)
  <2>1. CASE co[c].task \in HugePrompts
    BY <1>2, <1>6, <1>11, <1>13, <2>1 DEF WaitIdle, StepOf
  <2>2. CASE co[c].task \notin HugePrompts /\ co[c].task \in LongPrompts
    BY <1>2, <1>5, <1>6, <1>10, <1>13, <2>2 DEF WaitIdle, StepOf
  <2>3. CASE co[c].task \notin HugePrompts /\ co[c].task \notin LongPrompts
    <3>1. Goto(c, "text") /\ UNCHANGED <<task, typed, got, busy>> /\ co[c].agent \notin busy
      BY <1>13, <2>3 DEF WaitIdle
    <3>2. MovesOn(c)
      BY <1>3, <1>5, <3>1 DEF MovesOn
    <3> QED
      BY <1>2, <1>3, <1>5, <1>6, <3>1, <3>2 DEF StepOf
  <2> QED
    BY <2>1, <2>2, <2>3
<1>14. CASE AgentNotIdle(c)
  BY <1>2, <1>5, <1>6, <1>10, <1>11, <1>14 DEF AgentNotIdle, StepOf
<1>15. CASE RequeueForLater(c)
  BY <1>2, <1>4, <1>6, <1>15 DEF RequeueForLater, StepOf, Ends
<1>16. CASE NextAttempt(c)
  <2>1. /\ co'[c].at \in {"wait", "resolve"} /\ co'[c].task = co[c].task /\ co'[c].agent = co[c].agent
        /\ \A d \in Dispatchers \ {c} : co'[d] = co[d]
    BY <1>1, <1>16 DEF NextAttempt, Frame
  <2> QED
    BY <1>2, <1>6, <1>16, <2>1 DEF NextAttempt, StepOf, MovesOn
<1>17. CASE SendText(c)
  <2>1. ASSUME Type(c), Goto(c, "enter"), UNCHANGED <<task, got, busy>>, co[c].at = "text"
        PROVE  StepOf(c)
    <3>1. MovesOn(c)
      BY <1>1, <1>3, <1>5, <2>1 DEF MovesOn, Type
    <3> QED
      BY <1>2, <1>3, <1>5, <1>7, <2>1, <3>1 DEF StepOf
  <2>2. ASSUME Type(c) \/ UNCHANGED typed, Goto(c, "clear"), UNCHANGED <<task, got>>
        PROVE  StepOf(c)
    BY <1>2, <1>5, <1>7, <1>10, <2>2 DEF StepOf
  <2> QED
    BY <1>17, <2>1, <2>2 DEF SendText
<1>18. CASE ClearCurrentInput(c)
  <2>1. Keystrokes(c)
    BY <1>1, <1>18 DEF ClearCurrentInput, Keystrokes
  <2> QED
    BY <1>2, <1>5, <1>10, <1>18, <2>1 DEF ClearCurrentInput, StepOf
<1>19. CASE SendFileCommand(c)
  <2>1. ASSUME Type(c), Goto(c, "file_enter"), UNCHANGED task
        PROVE  MovesOn(c) /\ \A d \in Dispatchers \ {c} : co'[d] = co[d]
    BY <1>1, <1>3, <1>5, <2>1 DEF MovesOn, Type
  <2> QED
    BY <1>2, <1>5, <1>7, <1>9, <1>19, <2>1 DEF SendFileCommand, StepOf
<1>20. CASE SendEnter(c)
  <2>1. ASSUME Submit(co[c].agent), MarkStarted(c)
        PROVE  StepOf(c)
    <3>1. CASE task[co[c].task].state = "assigned"
      BY <1>2, <1>4, <1>8, <1>20, <2>1, <3>1 DEF SendEnter, MarkStarted, StepOf, Ends, Starts
    <3>2. CASE task[co[c].task].state # "assigned"
      BY <1>2, <1>8, <1>11, <2>1, <3>2 DEF MarkStarted, StepOf
    <3> QED
      BY <3>1, <3>2
  <2>2. ASSUME Submit(co[c].agent) \/ UNCHANGED <<typed, got, busy>>,
               \/ Goto(c, "clear") /\ UNCHANGED task
               \/ HerdrFailure(c, "backoff_send")
        PROVE  StepOf(c)
    BY <1>2, <1>5, <1>6, <1>8, <1>9, <1>10, <2>2 DEF StepOf
  <2> QED
    BY <1>20, <2>1, <2>2 DEF SendEnter
<1> QED
  BY <1>12, <1>13, <1>14, <1>15, <1>16, <1>17, <1>18, <1>19, <1>20 DEF DispatchStep

\* At the start every dispatcher rests.
LEMMA StartsAtRest == Init => TypeOK /\ \A c \in Dispatchers : co[c].at = "rest"
<1> SUFFICES ASSUME Init PROVE TypeOK /\ \A c \in Dispatchers : co[c].at = "rest"
  OBVIOUS
<1>1. TypeOK
  BY AtRestType DEF Init, TypeOK, Row
<1> QED
  BY <1>1 DEF Init, AtRest

-----------------------------------------------------------------------------
(* The lifecycle.                                                          *)

\* No call of the API but reassign, as in a system whose agents do not report.
OnlyReassigned == \A t \in Tasks : ApiOps[t] \subseteq {"reassign"}

\* A task that is being dispatched is assigned, and has one dispatcher.
HeldOnce ==
    /\ \A c \in Dispatchers : Active(c) => task[co[c].task].state = "assigned"
    /\ \A c, d \in Dispatchers : Active(c) /\ Active(d) /\ co[c].task = co[d].task => c = d

HoldInv == TypeOK /\ HeldOnce

\* A write of one state to one row is a move of the lifecycle.
LEMMA RowMoves ==
    ASSUME TypeOK, NEW t \in Tasks, NEW from, NEW to, task[t].state \in from,
           task'[t].state = to, \A u \in Tasks \ {t} : task'[u] = task[u]
    PROVE  Lifecycle!Move(t, from, to)
<1> DEFINE st == [u \in Tasks |-> task[u].state]
<1>1. st[t] \in from
  OBVIOUS
<1>2. [u \in Tasks |-> task'[u].state] = [st EXCEPT ![t] = to]
  OBVIOUS
<1> QED
  BY <1>1, <1>2 DEF Lifecycle!Move

\* The updates of one row leave the others alone.
LEMMA OtherRows ==
    ASSUME TypeOK, NEW t \in Tasks,
           \/ \E s : task' = SetState(t, s)
           \/ \E a : task' = Claimed(t, a)
           \/ task' = Requeued(t)
           \/ task' = MarkFailedFromCurrentState(t)
    PROVE  \A u \in Tasks \ {t} : task'[u] = task[u]
BY DEF TypeOK, SetState, Claimed, Requeued, MarkFailedFromCurrentState

\* A dispatcher that enters with a queued or a new task holds it alone.
LEMMA HoldEntered ==
    ASSUME HoldInv, TypeOK', NEW e \in Dispatchers, NEW t \in Tasks,
           task[t].state # "assigned", task'[t].state = "assigned",
           \A u \in Tasks \ {t} : task'[u] = task[u],
           co'[e].task = t, \A c \in Dispatchers \ {e} : co'[c] = co[c]
    PROVE  HoldInv'
<1>1. \A c \in Dispatchers : co[c].task \in Tasks /\ (Active(c) => co[c].task # t)
  BY DEF HoldInv, HeldOnce, TypeOK, Frame
<1> QED
  BY <1>1 DEF HoldInv, HeldOnce, Active

\* A step without a new dispatch, in which nobody but its own dispatcher, who
\* leaves it, touches the row of an assigned task, keeps the holds.
LEMMA HoldKept ==
    ASSUME HoldInv, TypeOK',
           \A c \in Dispatchers : Active(c)' =>
               /\ Active(c) /\ co'[c].task = co[c].task
               /\ task'[co[c].task].state = task[co[c].task].state
    PROVE  HoldInv'
BY DEF HoldInv, HeldOnce

\* Every step keeps the holds, and is a step of the lifecycle or stutters.
LEMMA LifecycleStep ==
    ASSUME OnlyReassigned, HoldInv, [Next]_vars
    PROVE  /\ HoldInv'
           /\ Lifecycle!Next \/ \A t \in Tasks : task'[t].state = task[t].state
<1> DEFINE Same == \A t \in Tasks : task'[t].state = task[t].state
<1>1. TypeOK /\ TypeOK'
  BY TypeStep DEF HoldInv
<1>2. task \in [Tasks -> Row] /\ co \in [Dispatchers -> Frame] /\ \A c \in Dispatchers : co[c].task \in Tasks
  BY <1>1 DEF TypeOK, Frame
<1>3. ASSUME UNCHANGED task, UNCHANGED co
      PROVE  HoldInv' /\ Same
  BY <1>1, <1>3, HoldKept DEF Active
<1>4. CASE SnapshotAgents
  BY <1>3, <1>4 DEF SnapshotAgents
<1>5. CASE ClaimNext
  <2>1. PICK a \in todo : \/ UNCHANGED <<task, co>>
                          \/ \E t \in ReadyTasks : task' = Claimed(t, a) /\ EnterDispatch(Loop, t, a)
    BY <1>5 DEF ClaimNext
  <2>2. ASSUME NEW t \in ReadyTasks, task' = Claimed(t, a), EnterDispatch(Loop, t, a)
        PROVE  HoldInv' /\ Lifecycle!Next
    <3>1. t \in Tasks /\ task[t].state = "queued" /\ Loop \in Dispatchers
      BY DEF ReadyTasks, Ready, Dispatchers
    <3>2. task'[t].state = "assigned" /\ \A u \in Tasks \ {t} : task'[u] = task[u]
      BY <1>1, <1>2, <2>2, <3>1, OtherRows DEF Claimed
    <3>3. co'[Loop].task = t /\ \A c \in Dispatchers \ {Loop} : co'[c] = co[c]
      BY <1>2, <2>2, <3>1 DEF EnterDispatch
    <3>4. Lifecycle!Claim(t)
      BY <1>1, <3>1, <3>2, RowMoves DEF Lifecycle!Claim
    <3> QED
      BY <1>1, <3>1, <3>2, <3>3, <3>4, HoldEntered DEF Lifecycle!Next
  <2> QED
    BY <1>3, <2>1, <2>2
<1>6. CASE Restart
  BY <1>1, <1>6, HoldKept DEF Restart, AtRest, Active
<1>7. ASSUME NEW t \in Tasks, Enqueue(t)
      PROVE  HoldInv' /\ Lifecycle!Next
  <2>1. /\ task[t].state = "absent" /\ task'[t].state = "queued"
        /\ \A u \in Tasks \ {t} : task'[u] = task[u]
        /\ co' = co
    BY <1>2, <1>7 DEF Enqueue
  <2>2. HoldInv'
    BY <1>1, <1>2, <2>1, HoldKept DEF HoldInv, HeldOnce, Active
  <2>3. Lifecycle!Enqueue(t)
    BY <1>1, <2>1, RowMoves DEF Lifecycle!Enqueue
  <2> QED
    BY <2>2, <2>3 DEF Lifecycle!Next
<1>8. ASSUME NEW t \in Tasks, Api(t)
      PROVE  HoldInv' /\ Lifecycle!Next
  <2>1. Reassign(t)
    BY <1>8 DEF OnlyReassigned, Api, Cancel, Checkin, Complete, Fail, Ask, PatchState
  <2>2. /\ task[t].state \in {"failed", "timeout"} /\ task'[t].state = "queued" /\ co' = co
        /\ \A u \in Tasks \ {t} : task'[u] = task[u]
    BY <1>1, <1>2, <2>1, OtherRows DEF Reassign, Requeued, ApiUnchanged
  <2>3. HoldInv'
    BY <1>1, <1>2, <2>2, HoldKept DEF HoldInv, HeldOnce, Active
  <2>4. Lifecycle!Reassign(t)
    BY <1>1, <2>2, RowMoves DEF Lifecycle!Reassign
  <2> QED
    BY <2>3, <2>4 DEF Lifecycle!Next
<1>9. ASSUME NEW p \in Planners, NEW t \in Tasks, PlannerDispatch(p, t)
      PROVE  HoldInv' /\ Lifecycle!Next
  <2>1. p \in Dispatchers /\ task[t].state = "absent"
    BY <1>9 DEF PlannerDispatch, Dispatchers
  <2>2. task'[t].state = "assigned" /\ \A u \in Tasks \ {t} : task'[u] = task[u]
    BY <1>2, <1>9 DEF PlannerDispatch
  <2>3. co'[p].task = t /\ \A c \in Dispatchers \ {p} : co'[c] = co[c]
    BY <1>2, <1>9, <2>1 DEF PlannerDispatch, EnterDispatch
  <2>4. Lifecycle!EnqueueClaimed(t)
    BY <1>1, <2>1, <2>2, RowMoves DEF Lifecycle!EnqueueClaimed
  <2> QED
    BY <1>1, <2>1, <2>2, <2>3, <2>4, HoldEntered DEF Lifecycle!Next
<1>10. ASSUME NEW c \in Dispatchers, DispatchStep(c)
       PROVE  HoldInv' /\ (Lifecycle!Next \/ Same)
  <2>0. PICK t \in Tasks : t = co[c].task
    BY <1>2
  <2>1. StepOf(c)
    BY <1>1, <1>10, DispatcherStep
  <2>2. task[t].state = "assigned" /\ \A d \in Dispatchers \ {c} : Active(d) => co[d].task # t
    BY <2>0, <2>1 DEF StepOf, HoldInv, HeldOnce
  <2>3. CASE MovesOn(c)
    <3>1. HoldInv'
      BY <1>1, <2>1, <2>3, HoldKept DEF StepOf, MovesOn, Active
    <3> QED
      BY <2>3, <3>1 DEF MovesOn
  <2>4. CASE Ends(c)
    <3>1. ASSUME \A u \in Tasks \ {t} : task'[u] = task[u]
          PROVE  HoldInv'
      BY <1>1, <1>2, <2>0, <2>1, <2>2, <2>4, <3>1, HoldKept DEF StepOf, Ends, AtRest, Active
    <3>2. CASE task' = task
      BY <3>1, <3>2
    <3>3. CASE task' = MarkFailedFromCurrentState(t)
      <4>1. task'[t].state = "failed" /\ \A u \in Tasks \ {t} : task'[u] = task[u]
        BY <1>1, <1>2, <2>2, <3>3, OtherRows DEF MarkFailedFromCurrentState, SetState, Terminal
      <4>2. Lifecycle!GiveUp(t)
        BY <1>1, <2>2, <4>1, RowMoves DEF Lifecycle!GiveUp
      <4> QED
        BY <3>1, <4>1, <4>2 DEF Lifecycle!Next
    <3>4. CASE task' = Requeued(t)
      <4>1. task'[t].state = "queued" /\ \A u \in Tasks \ {t} : task'[u] = task[u]
        BY <1>1, <1>2, <3>4, OtherRows DEF Requeued
      <4>2. Lifecycle!Requeue(t)
        BY <1>1, <2>2, <4>1, RowMoves DEF Lifecycle!Requeue
      <4> QED
        BY <3>1, <4>1, <4>2 DEF Lifecycle!Next
    <3>5. CASE Starts(c)
      <4>1. task'[t].state = "in_progress" /\ \A u \in Tasks \ {t} : task'[u] = task[u]
        BY <1>1, <1>2, <2>0, <3>5, OtherRows DEF Starts, SetState
      <4>2. Lifecycle!Start(t)
        BY <1>1, <2>2, <4>1, RowMoves DEF Lifecycle!Start
      <4> QED
        BY <3>1, <4>1, <4>2 DEF Lifecycle!Next
    <3> QED
      BY <2>0, <2>4, <3>2, <3>3, <3>4, <3>5 DEF Ends
  <2> QED
    BY <2>1, <2>3, <2>4 DEF StepOf
<1>11. ASSUME NEW a \in Agents, AgentRow(a) \/ AgentFinishes(a)
       PROVE  HoldInv' /\ Same
  BY <1>3, <1>11 DEF AgentRow, AgentFinishes
<1>12. CASE UNCHANGED vars
  BY <1>3, <1>12 DEF vars
<1> QED
  BY <1>4, <1>5, <1>6, <1>7, <1>8, <1>9, <1>10, <1>11, <1>12 DEF Next

\* The dispatch core, planners, failing sends and restarts included, implements
\* the lifecycle that TaskQueue documents, as long as reassign is the only call
\* that touches tasks.
THEOREM ImplementsLifecycle == OnlyReassigned => (Spec => FollowsLifecycle)
<1> SUFFICES ASSUME OnlyReassigned PROVE Spec => FollowsLifecycle
  OBVIOUS
<1>1. Init => HoldInv /\ Lifecycle!Init
  BY StartsAtRest DEF HoldInv, HeldOnce, Active, Init, Lifecycle!Init
<1>2. HoldInv /\ [Next]_vars => HoldInv'
  BY LifecycleStep
<1>3. HoldInv /\ [Next]_vars
          => Lifecycle!Next \/ UNCHANGED [t \in Tasks |-> task[t].state]
  BY LifecycleStep
<1> QED
  BY <1>1, <1>2, <1>3, PTL DEF Spec, FollowsLifecycle, Lifecycle!Spec

-----------------------------------------------------------------------------
(* The dispatch loop by itself.                                            *)

\* No planner dispatches beside the loop.
LoopAlone == Planners = {}

\* The agent of a check-in or of a PATCH need not be the one the prompt went to.
StartedByLoop == \A t \in Tasks : {"checkin", "patch"} \cap ApiOps[t] = {}

\* No call takes a finished task back, but those of its own dispatcher.
StaysFinished == \A t \in Tasks : {"checkin", "fail", "ask", "patch"} \cap ApiOps[t] = {}

\* What every step does, as far as the loop is concerned.
LEMMA LoopStep ==
    ASSUME LoopAlone, TypeOK, [Next]_vars
    PROVE  \/ UNCHANGED <<task, co, typed, got>> /\ busy' \subseteq busy
           \/ StepOf(Loop)
           \/ /\ UNCHANGED <<typed, got, busy>>
              /\ \/ \E t \in ReadyTasks, a \in Agents : task' = Claimed(t, a) /\ EnterDispatch(Loop, t, a)
                 \/ co'[Loop] = AtRest /\ UNCHANGED task
                 \/ UNCHANGED co /\ \E t \in Tasks : Enqueue(t) \/ Api(t)
<1>1. Dispatchers = {Loop} /\ Loop \in Dispatchers
  BY DEF LoopAlone, Dispatchers
<1>2. CASE SnapshotAgents
  BY <1>2 DEF SnapshotAgents
<1>3. CASE ClaimNext
  BY <1>3 DEF ClaimNext, TypeOK
<1>4. CASE Restart
  BY <1>1, <1>4 DEF Restart
<1>5. ASSUME NEW t \in Tasks, Enqueue(t) \/ Api(t)
      PROVE  UNCHANGED <<co, typed, got, busy>>
  BY <1>5 DEF Enqueue, Api, Cancel, Checkin, Complete, Fail, Ask, Reassign, PatchState, ApiUnchanged
<1>6. ASSUME NEW c \in Dispatchers, DispatchStep(c)
      PROVE  StepOf(Loop)
  BY <1>1, <1>6, DispatcherStep
<1>7. ASSUME NEW a \in Agents, AgentRow(a) \/ AgentFinishes(a)
      PROVE  UNCHANGED <<task, co, typed, got>> /\ busy' \subseteq busy
  BY <1>7 DEF AgentRow, AgentFinishes
<1>8. CASE UNCHANGED vars
  BY <1>8 DEF vars
<1> QED
  BY <1>2, <1>3, <1>4, <1>5, <1>6, <1>7, <1>8 DEF Next, LoopAlone

\* From the idle check to the first Enter the agent of the loop's pane rests:
\* only an Enter sets an agent to work, and the loop is the one who types.
THEOREM TypesWhenIdle == LoopAlone => (Spec => []TypesIntoIdlePane)
<1> SUFFICES ASSUME LoopAlone PROVE Spec => []TypesIntoIdlePane
  OBVIOUS
<1>1. Init => TypeOK /\ TypesIntoIdlePane
  BY StartsAtRest DEF TypesIntoIdlePane
<1>2. TypeOK /\ TypesIntoIdlePane /\ [Next]_vars => TypeOK' /\ TypesIntoIdlePane'
  <2> SUFFICES ASSUME TypeOK, TypesIntoIdlePane, [Next]_vars,
                      co'[Loop].at \in {"text", "enter"}
               PROVE  co'[Loop].agent \notin busy'
    BY TypeStep DEF TypesIntoIdlePane, LoopAlone, Dispatchers
  <2>1. Loop \in Dispatchers
    BY DEF Dispatchers
  <2>2. CASE UNCHANGED co /\ busy' \subseteq busy
    BY <2>1, <2>2 DEF TypesIntoIdlePane
  <2>3. CASE StepOf(Loop)
    BY <2>1, <2>3 DEF StepOf, MovesOn, Ends, AtRest, TypesIntoIdlePane
  <2>4. ASSUME NEW t \in ReadyTasks, NEW a \in Agents, EnterDispatch(Loop, t, a)
        PROVE  FALSE
    BY <2>1, <2>4 DEF EnterDispatch, TypeOK
  <2>5. co'[Loop] # AtRest
    BY DEF AtRest
  <2> QED
    BY <2>2, <2>3, <2>4, <2>5, LoopStep
<1> QED
  BY <1>1, <1>2, PTL DEF Spec

\* The row of an assigned task names the agent that the loop types to, and when
\* the loop is about to press Enter its prompt stands in that agent's pane.
PromptInv ==
    /\ TypeOK /\ PromptReachedAssignee
    /\ Active(Loop) /\ task[co[Loop].task].state = "assigned"
          => task[co[Loop].task].agent = co[Loop].agent
    /\ co[Loop].at \in {"enter", "file_enter"} => co[Loop].task \in typed[co[Loop].agent]

\* The claims and the calls of the API keep that, as neither check-in nor PATCH
\* may mark the task.
LEMMA PromptKept ==
    ASSUME LoopAlone, StartedByLoop, PromptInv, [Next]_vars
    PROVE  PromptInv'
<1>1. TypeOK /\ TypeOK' /\ Loop \in Dispatchers
  BY TypeStep DEF PromptInv, Dispatchers
<1>2. /\ task \in [Tasks -> Row] /\ co \in [Dispatchers -> Frame]
      /\ co[Loop].task \in Tasks /\ co[Loop].agent \in Agents
      /\ typed \in [Agents -> SUBSET Tasks] /\ got \in [Agents -> SUBSET Tasks]
  BY <1>1 DEF TypeOK, Frame
<1>3. CASE UNCHANGED <<task, co, typed, got>>
  BY <1>1, <1>3 DEF PromptInv, PromptReachedAssignee, Active
<1>4. CASE StepOf(Loop)
  <2> DEFINE t == co[Loop].task
             a == co[Loop].agent
  <2>1. \A b \in Agents : got[b] \subseteq got'[b]
    BY <1>4 DEF StepOf, Keystrokes
  <2>2. CASE MovesOn(Loop)
    <3>1. PromptReachedAssignee'
      BY <1>2, <2>1, <2>2 DEF MovesOn, PromptInv, PromptReachedAssignee, TypeOK, Row
    <3> QED
      BY <1>1, <1>4, <2>2, <3>1 DEF MovesOn, StepOf, PromptInv, Active
  <2>3. CASE Ends(Loop)
    <3>1. co'[Loop].at = "rest"
      BY <2>3 DEF Ends, AtRest
    <3>2. ASSUME NEW u \in Tasks, task'[u].state = "in_progress"
          PROVE  task'[u].agent # Nobody /\ u \in got'[task'[u].agent]
      <4>1. CASE Starts(Loop) /\ u = t
        <5>1. task'[u].agent = a /\ t \in typed[a] /\ typed[a] \subseteq got'[a]
          BY <1>2, <1>4, <4>1 DEF Starts, SetState, PromptInv, StepOf
        <5> QED
          BY <1>2, <4>1, <5>1
      <4>2. CASE ~ (Starts(Loop) /\ u = t)
        <5>1. ASSUME u # t PROVE task'[u] = task[u]
          <6>1. \/ task' = task
                \/ task' \in {SetState(t, "in_progress"), Requeued(t), MarkFailedFromCurrentState(t)}
            BY <2>3 DEF Ends, Starts
          <6> QED
            BY <1>1, <1>2, <3>2, <5>1, <6>1, OtherRows
        <5>2. ASSUME u = t PROVE task'[u] = task[u]
          BY <1>2, <2>3, <3>2, <4>2, <5>2 DEF Ends, Requeued, MarkFailedFromCurrentState, SetState, Row
        <5>3. task'[u] = task[u]
          BY <5>1, <5>2
        <5>4. task[u].agent \in Agents /\ task[u].agent # Nobody /\ u \in got[task[u].agent]
          BY <1>2, <3>2, <5>3 DEF PromptInv, PromptReachedAssignee, Row
        <5> QED
          BY <2>1, <5>3, <5>4
      <4> QED
        BY <4>1, <4>2
    <3> QED
      BY <1>1, <3>1, <3>2 DEF PromptInv, PromptReachedAssignee, Active
  <2> QED
    BY <1>4, <2>2, <2>3 DEF StepOf
<1>5. ASSUME NEW t \in ReadyTasks, NEW a \in Agents, task' = Claimed(t, a), EnterDispatch(Loop, t, a),
             UNCHANGED got
      PROVE  PromptInv'
  <2>1. t \in Tasks /\ task'[t].state = "assigned" /\ task'[t].agent = a
    BY <1>2, <1>5 DEF ReadyTasks, Claimed
  <2>2. \A u \in Tasks \ {t} : task'[u] = task[u]
    BY <1>2, <1>5 DEF Claimed
  <2>3. co'[Loop].task = t /\ co'[Loop].agent = a /\ co'[Loop].at \in {"wait", "resolve"}
    BY <1>1, <1>2, <1>5 DEF EnterDispatch
  <2> QED
    BY <1>1, <1>5, <2>1, <2>2, <2>3 DEF PromptInv, PromptReachedAssignee
<1>6. CASE co'[Loop] = AtRest /\ UNCHANGED <<task, got>>
  BY <1>1, <1>6 DEF PromptInv, PromptReachedAssignee, AtRest, Active
<1>7. ASSUME NEW t \in Tasks, Enqueue(t) \/ Api(t), UNCHANGED <<co, typed, got>>
      PROVE  PromptInv'
  <2> DEFINE Elsewhere == /\ task'[t].state \notin {"assigned", "in_progress"}
                          /\ \A u \in Tasks \ {t} : task'[u] = task[u]
  <2>a. ASSUME Enqueue(t) PROVE Elsewhere
    BY <1>2, <2>a DEF Enqueue
  <2>b. ASSUME Api(t) PROVE Elsewhere
    <3>1. (\E s \in {"cancelled", "done", "failed", "blocked"} : task' = SetState(t, s)) \/ task' = Requeued(t)
      BY <2>b DEF StartedByLoop, Api, Cancel, Checkin, Complete, Fail, Ask, Reassign, PatchState
    <3>2. \A u \in Tasks \ {t} : task'[u] = task[u]
      BY <1>1, <3>1, OtherRows
    <3>3. task'[t].state \notin {"assigned", "in_progress"}
      <4>1. ASSUME NEW s \in {"cancelled", "done", "failed", "blocked"}, task' = SetState(t, s)
            PROVE  task'[t].state = s
        BY <1>2, <4>1 DEF SetState
      <4>2. ASSUME task' = Requeued(t)
            PROVE  task'[t].state = "queued"
        BY <1>2, <4>2 DEF Requeued
      <4> QED
        BY <3>1, <4>1, <4>2
    <3> QED
      BY <3>2, <3>3
  <2>1. Elsewhere
    BY <1>7, <2>a, <2>b
  <2> QED
    BY <1>1, <1>2, <1>7, <2>1 DEF PromptInv, PromptReachedAssignee, Active
<1> QED
  BY <1>1, <1>3, <1>4, <1>5, <1>6, <1>7, LoopStep

\* A task that the loop has marked as in progress was handed to the agent its
\* row names, whatever fails between typing and Enter and whoever cancels,
\* completes, fails or reassigns the task meanwhile.
THEOREM PromptsReachAssignees == LoopAlone /\ StartedByLoop => (Spec => []PromptReachedAssignee)
<1> SUFFICES ASSUME LoopAlone, StartedByLoop PROVE Spec => []PromptReachedAssignee
  OBVIOUS
<1>1. Init => PromptInv
  <2> SUFFICES ASSUME Init PROVE PromptInv
    OBVIOUS
  <2>1. TypeOK /\ co[Loop].at = "rest"
    BY StartsAtRest DEF Dispatchers
  <2>2. PromptReachedAssignee
    BY DEF Init, PromptReachedAssignee
  <2> QED
    BY <2>1, <2>2 DEF PromptInv, Active
<1>2. PromptInv /\ [Next]_vars => PromptInv'
  BY PromptKept
<1>3. PromptInv => PromptReachedAssignee
  BY DEF PromptInv
<1> QED
  BY <1>1, <1>2, <1>3, PTL DEF Spec

-----------------------------------------------------------------------------
(* The order of the dependencies.                                          *)

\* The panes have a task's prompt, typed or submitted.
Shown(t) == \E a \in Agents : t \in typed[a] \cup got[a]

\* What is shown has its dependencies done; so has the task of the loop, and no
\* task that depends on that one is shown, so that it may go back to the queue.
OrderInv ==
    /\ TypeOK
    /\ \A t \in Tasks : Shown(t) => DependenciesDone(t)
    /\ Active(Loop) =>
         /\ DependenciesDone(co[Loop].task) /\ co[Loop].task \notin DependsOn[co[Loop].task]
         /\ \A t \in Tasks : Shown(t) => co[Loop].task \notin DependsOn[t]

\* Dependencies stay done when the only row written is none of them.
LEMMA DoneElsewhere ==
    ASSUME NEW t \in Tasks, \A u \in Tasks \ {t} : task'[u] = task[u],
           NEW v \in Tasks, t \notin DependsOn[v], DependenciesDone(v)
    PROVE  DependenciesDone(v)'
BY DEF DependenciesDone

\* The calls of the API that are left do not take a finished task back.
LEMMA CallsKeepDone ==
    ASSUME StaysFinished, TypeOK, NEW t \in Tasks, Enqueue(t) \/ Api(t), NEW v \in Tasks, DependenciesDone(v)
    PROVE  DependenciesDone(v)'
<1>1. task \in [Tasks -> Row]
  BY DEF TypeOK
<1>2. ASSUME NEW s \in {"cancelled", "done"}, task' = SetState(t, s), s = "done" \/ task[t].state # "done"
      PROVE  \A u \in Tasks : task[u].state = "done" => task'[u].state = "done"
  BY <1>1, <1>2 DEF SetState, Row
<1>3. ASSUME task[t].state # "done", task' = Requeued(t) \/ Enqueue(t)
      PROVE  \A u \in Tasks : task[u].state = "done" => task'[u].state = "done"
  BY <1>1, <1>3 DEF Requeued, Enqueue
<1>4. \/ \E s \in {"cancelled", "done"} : task' = SetState(t, s) /\ (s = "done" \/ task[t].state # "done")
      \/ task[t].state # "done" /\ (task' = Requeued(t) \/ Enqueue(t))
  BY DEF StaysFinished, Enqueue, Api, Cancel, Checkin, Complete, Fail, Ask, Reassign, PatchState, Terminal
<1> QED
  BY <1>2, <1>3, <1>4 DEF DependenciesDone

\* The order is kept.
LEMMA OrderKept ==
    ASSUME LoopAlone, StaysFinished, OrderInv, [Next]_vars
    PROVE  OrderInv'
<1>1. TypeOK /\ TypeOK' /\ Loop \in Dispatchers
  BY TypeStep DEF OrderInv, Dispatchers
<1>2. /\ task \in [Tasks -> Row] /\ co \in [Dispatchers -> Frame] /\ co[Loop].task \in Tasks
  BY <1>1 DEF TypeOK, Frame
<1>3. CASE UNCHANGED <<task, co, typed, got>>
  BY <1>1, <1>3 DEF OrderInv, Shown, DependenciesDone, Active
<1>4. CASE StepOf(Loop)
  <2>1. PICK t \in Tasks : t = co[Loop].task
    BY <1>2
  <2>2. /\ DependenciesDone(t) /\ t \notin DependsOn[t]
        /\ \A v \in Tasks : Shown(v) => DependenciesDone(v) /\ t \notin DependsOn[v]
    BY <1>4, <2>1 DEF OrderInv, StepOf
  <2>3. \A u \in Tasks \ {t} : task'[u] = task[u]
    <3>1. \/ task' = task
          \/ task' \in {SetState(t, "in_progress"), Requeued(t), MarkFailedFromCurrentState(t)}
      BY <1>4, <2>1 DEF StepOf, MovesOn, Ends, Starts
    <3> QED
      BY <1>1, <3>1, OtherRows
  <2>4. \A v \in Tasks : Shown(v)' => Shown(v) \/ v = t
    BY <1>4, <2>1 DEF StepOf, Keystrokes, Shown
  <2>5. \A v \in Tasks : Shown(v)' => DependenciesDone(v)' /\ t \notin DependsOn[v]
    BY <2>2, <2>3, <2>4, DoneElsewhere
  <2>6. DependenciesDone(t)'
    BY <2>2, <2>3, DoneElsewhere
  <2>7. Active(Loop)' => co'[Loop].task = t
    BY <1>4, <2>1 DEF StepOf, MovesOn, Ends, AtRest, Active
  <2> QED
    BY <1>1, <2>2, <2>5, <2>6, <2>7 DEF OrderInv
<1>5. ASSUME NEW t \in ReadyTasks, NEW a \in Agents, task' = Claimed(t, a), EnterDispatch(Loop, t, a),
             UNCHANGED <<typed, got>>
      PROVE  OrderInv'
  <2>1. t \in Tasks /\ task[t].state # "done" /\ DependenciesDone(t)
    BY DEF ReadyTasks, Ready
  <2>2. \A u \in Tasks \ {t} : task'[u] = task[u]
    BY <1>1, <1>5, <2>1, OtherRows
  <2>3. \A v \in Tasks : DependenciesDone(v) => t \notin DependsOn[v]
    BY <2>1 DEF DependenciesDone
  <2>4. \A v \in Tasks : DependenciesDone(v) => DependenciesDone(v)'
    BY <2>1, <2>2, <2>3, DoneElsewhere
  <2>5. co'[Loop].task = t
    BY <1>1, <1>2, <1>5 DEF EnterDispatch
  <2>6. \A v \in Tasks : Shown(v)' <=> Shown(v)
    BY <1>5 DEF Shown
  <2> QED
    BY <1>1, <2>1, <2>3, <2>4, <2>5, <2>6 DEF OrderInv
<1>6. CASE co'[Loop] = AtRest /\ UNCHANGED <<task, typed, got>>
  BY <1>1, <1>6 DEF OrderInv, Shown, DependenciesDone, AtRest, Active
<1>7. ASSUME NEW t \in Tasks, Enqueue(t) \/ Api(t), UNCHANGED <<co, typed, got>>
      PROVE  OrderInv'
  <2>1. \A v \in Tasks : DependenciesDone(v) => DependenciesDone(v)'
    BY <1>1, <1>7, CallsKeepDone
  <2>2. \A v \in Tasks : Shown(v)' <=> Shown(v)
    BY <1>7 DEF Shown
  <2> QED
    BY <1>1, <1>2, <1>7, <2>1, <2>2 DEF OrderInv, Active
<1> QED
  BY <1>1, <1>3, <1>4, <1>5, <1>6, <1>7, LoopStep

\* No agent gets the prompt of a task before its dependencies are done, and
\* they stay done: the loop may put a finished task back into the queue, but
\* only one that it was dispatching itself, on which nothing shown depends.
THEOREM PromptsInOrder == LoopAlone /\ StaysFinished => (Spec => []WorkOrder)
<1> SUFFICES ASSUME LoopAlone, StaysFinished PROVE Spec => []WorkOrder
  OBVIOUS
<1>1. Init => OrderInv
  <2> SUFFICES ASSUME Init PROVE OrderInv
    OBVIOUS
  <2>1. TypeOK /\ ~ Active(Loop)
    BY StartsAtRest DEF Dispatchers, Active
  <2>2. \A t \in Tasks : ~ Shown(t)
    BY DEF Init, Shown
  <2> QED
    BY <2>1, <2>2 DEF OrderInv
<1>2. OrderInv /\ [Next]_vars => OrderInv'
  BY OrderKept
<1>3. OrderInv => WorkOrder
  BY DEF OrderInv, TypeOK, Shown, WorkOrder
<1> QED
  BY <1>1, <1>2, <1>3, PTL DEF Spec
=============================================================================
