--------------------------- MODULE ServicesProofs ---------------------------
(***************************************************************************)
(* Ten of the services, for any size of each.                              *)
(*                                                                         *)
(* An activation that several processes run, retry and leave half-way      *)
(* (Provisioning): a process writes on what it has read before, so the     *)
(* invariant says what it knows wherever it is (Placed): what it skips was *)
(* done, so was every step before the one in hand, and the count it will   *)
(* write is allowed.  An agent that is stopped while it starts and answers *)
(* (AgentRuntime).  A provider that keeps failing, whose breaker counts    *)
(* what late answers tell it (LlmRouter).  An issue and settings that      *)
(* overlapping requests write from older copies (ProjectBoard).            *)
(*                                                                         *)
(* Rows of tasks that two requests write from older answers                *)
(* (TaskRegistry), messages audited after what they were decided on has    *)
(* changed (RuntimeMessaging), logins on a seat that changes under them    *)
(* (SeatSessions), sweeps that overlap and die half-way, of which each     *)
(* true one brings a component up to date (HealthMonitor), and the chain   *)
(* of the audit trail, with rules that change while they are evaluated     *)
(* (Governance).  Calls of several statements on the one connection of all *)
(* threads (AgentEnrollment): what a call still has to do says what its    *)
(* tables lack (Lacking).                                                  *)
(***************************************************************************)
EXTENDS Services, Integers, FiniteSetTheorems, SequenceTheorems, WellFoundedInduction, TLAPS

Frames == [at : {"free", "count", "read", "begin", "step", "effect", "success", "failed", "save", "saved"},
           step : Nat, skip : SUBSET StepNames, seen : {"none", "failed"}, count : Nat, run : Nat]
Rows == [run : Nat, name : StepNames, status : {"running", "failed", "success"}]

Types ==
    /\ prec \in [status : {"none", "running", "failed", "completed"}, count : Nat]
    /\ steps \subseteq Rows
    /\ effects \subseteq StepNames
    /\ proc \in [Processes -> Frames]
    /\ runs \in Nat /\ stops \in Nat

Placed(p) ==
    /\ p.skip \subseteq effects
    /\ p.at \in {"effect", "success", "failed"} => p.step \in DOMAIN Steps
    /\ p.at \in {"step", "effect", "success"} =>
         p.step >= 1 /\ \A j \in DOMAIN Steps : j < p.step => Steps[j] \in effects
    /\ p.at = "success" => Steps[p.step] \in effects
    /\ p.at = "count" => p.count < MaxRetries
    /\ p.at = "saved" => p.count <= MaxRetries

InOrder == \A i \in 2 .. Len(Steps) : Steps[i] \in effects => Steps[i - 1] \in effects
Finished == prec.status = "completed" => StepNames \subseteq effects
Attended == prec.status = "running" /\ stops = 0 => \E v \in Processes : InRun(v)

Inv ==
    /\ Types
    /\ \A v \in Processes : Placed(proc[v])
    /\ Succeeded \subseteq effects
    /\ InOrder /\ Finished /\ Attended
    /\ prec.count <= MaxRetries

-----------------------------------------------------------------------------
LEMMA InvHolds == ProvisioningAssumption /\ Inv => TypeOK /\ ActivationHolds
<1> SUFFICES ASSUME Inv PROVE TypeOK /\ ActivationHolds
  OBVIOUS
<1>1. TypeOK
  BY DEF Inv, Types, TypeOK, Frames, Rows
<1>2. ActivationHolds
  BY DEF Inv, ActivationHolds, InOrder, Finished, Attended
<1> QED
  BY <1>1, <1>2

LEMMA InitInv == ProvisioningAssumption /\ Init => Inv
<1> SUFFICES ASSUME ProvisioningAssumption, Init PROVE Inv
  OBVIOUS
<1>1. Types
  BY DEF Init, Types, Frames, Free
<1>2. \A v \in Processes : Placed(proc[v])
  BY DEF Init, Placed, Free
<1>3. Succeeded \subseteq effects /\ InOrder /\ Finished /\ Attended /\ prec.count <= MaxRetries
  BY DEF Init, Succeeded, InOrder, Finished, Attended, ProvisioningAssumption
<1> QED
  BY <1>1, <1>2, <1>3 DEF Inv

LEMMA FreeFrame == Free \in Frames /\ Free.skip = {}
  BY DEF Free, Frames

\* One process moves to q, and the others know what they knew, whatever has
\* been done since.
LEMMA ProcMoves ==
    ASSUME Inv, NEW w \in Processes, NEW q \in Frames, proc' = [proc EXCEPT ![w] = q],
           effects \subseteq effects', Placed(q)'
    PROVE  proc' \in [Processes -> Frames] /\ \A v \in Processes : Placed(proc[v])'
<1>1. proc \in [Processes -> Frames] /\ \A v \in Processes : Placed(proc[v])
  BY DEF Inv, Types
<1>2. proc' \in [Processes -> Frames] /\ proc'[w] = q
  BY <1>1
<1>3. ASSUME NEW v \in Processes, v # w PROVE Placed(proc[v])'
  <2>1. proc'[v] = proc[v] /\ Placed(proc[v])
    BY <1>1, <1>3
  <2> QED
    BY <2>1 DEF Placed
<1>4. Placed(proc[w])'
  BY <1>2 DEF Placed
<1> QED
  BY <1>2, <1>3, <1>4

\* Who is at work on a record that is running, when w moves to q.
LEMMA StillAttended ==
    ASSUME Inv, NEW w \in Processes, NEW q \in Frames, proc' = [proc EXCEPT ![w] = q],
           prec'.status = "running" /\ stops' = 0 =>
             \/ q.at \notin {"free", "count", "read", "begin"}
             \/ prec.status = "running" /\ stops = 0 /\ ~ InRun(w)
    PROVE  Attended'
<1>1. /\ proc'[w] = q
      /\ \A v \in Processes : v # w => proc'[v] = proc[v]
  BY DEF Inv, Types
<1>2. CASE q.at \notin {"free", "count", "read", "begin"}
  BY <1>1, <1>2 DEF Attended, InRun
<1>3. CASE q.at \in {"free", "count", "read", "begin"}
  BY <1>1, <1>3 DEF Attended, InRun, Inv
<1> QED
  BY <1>2, <1>3

\* A step in which w only reads: what has been written stays.
LEMMA ReadingStep ==
    ASSUME Inv, NEW w \in Processes, NEW q \in Frames, proc' = [proc EXCEPT ![w] = q],
           UNCHANGED <<prec, steps, effects, stops>>, runs' \in Nat,
           Placed(q), ~ InRun(w) \/ q.at \notin {"free", "count", "read", "begin"}
    PROVE  Inv'
<1>1. proc' \in [Processes -> Frames] /\ \A v \in Processes : Placed(proc[v])'
  <2>1. Placed(q)'
    BY DEF Placed
  <2> QED
    BY <2>1, ProcMoves
<1>2. Types'
  BY <1>1 DEF Inv, Types
<1>3. Attended'
  BY StillAttended
<1>4. (Succeeded \subseteq effects /\ InOrder /\ Finished /\ prec.count <= MaxRetries)'
  BY DEF Inv, Succeeded, InOrder, Finished
<1> QED
  BY <1>1, <1>2, <1>3, <1>4 DEF Inv

\* activate, retry, the first reads, a skipped step and the read of a failure.
LEMMA Reads ==
    ASSUME ProvisioningAssumption, Inv, NEW w \in Processes,
           \/ Activate(w) \/ RetryReads(w) \/ ReadRecord(w) \/ SkipStep(w) \/ FailureReads(w)
    PROVE  Inv'
<1>0. proc[w] \in Frames /\ Placed(proc[w]) /\ runs + 1 \in Nat /\ runs \in Nat /\ prec.count \in Nat
  BY DEF Inv, Types
<1>1. CASE Activate(w)
  <2>1. PICK q : q = [Free EXCEPT !.at = "read", !.run = runs + 1]
    OBVIOUS
  <2>2. q \in Frames /\ Placed(q)
    <3>1. q \in Frames
      BY <1>0, <2>1, FreeFrame DEF Frames
    <3>2. q.at = "read" /\ q.skip = {}
      BY <2>1, FreeFrame DEF Frames
    <3> QED
      BY <3>1, <3>2 DEF Placed
  <2>3. ~ InRun(w)
    BY <1>1 DEF Activate, Starts, Free, InRun
  <2>5. proc' = [proc EXCEPT ![w] = q] /\ runs' \in Nat /\ UNCHANGED <<prec, steps, effects, stops>>
    BY <1>0, <1>1, <2>1 DEF Activate, Starts
  <2> QED
    BY <2>2, <2>3, <2>5, ReadingStep
<1>2. CASE RetryReads(w)
  <2>1. PICK q : q = [Free EXCEPT !.at = "count", !.count = prec.count, !.run = runs + 1]
    OBVIOUS
  <2>2. q \in Frames
    BY <1>0, <2>1, FreeFrame DEF Frames
  <2>3. Placed(q)
    <3>1. q.at = "count" /\ q.skip = {} /\ q.count = prec.count
      BY <2>1, FreeFrame DEF Frames
    <3> QED
      BY <1>2, <3>1 DEF Placed, RetryReads, RetryAllowed
  <2>4. ~ InRun(w)
    BY <1>2 DEF RetryReads, Starts, Free, InRun
  <2>6. proc' = [proc EXCEPT ![w] = q] /\ runs' \in Nat /\ UNCHANGED <<prec, steps, effects, stops>>
    BY <1>0, <1>2, <2>1 DEF RetryReads, Starts
  <2> QED
    BY <2>2, <2>3, <2>4, <2>6, ReadingStep
<1>3. CASE ReadRecord(w)
  <2>0. ~ InRun(w)
    BY <1>3 DEF ReadRecord, InRun
  <2>1. CASE prec.status \in {"none", "failed"}
    <3>1. PICK q : q = [proc[w] EXCEPT !.at = "begin", !.seen = prec.status, !.skip = Succeeded]
      OBVIOUS
    <3>2. Succeeded \subseteq effects /\ effects \subseteq StepNames
      BY DEF Inv, Types
    <3>3. q \in Frames
      BY <1>0, <2>1, <3>1, <3>2 DEF Frames
    <3>4. Placed(q)
      BY <1>0, <3>1, <3>2 DEF Placed, Frames
    <3>5. proc' = [proc EXCEPT ![w] = q]
      BY <1>3, <2>1, <3>1 DEF ReadRecord
    <3> QED
      BY <1>0, <1>3, <2>0, <3>3, <3>4, <3>5, ReadingStep DEF ReadRecord
  <2>2. CASE prec.status \notin {"none", "failed"}
    <3>1. Free \in Frames /\ Placed(Free)
      BY DEF Frames, Free, Placed
    <3>2. proc' = [proc EXCEPT ![w] = Free]
      BY <1>3, <2>2 DEF ReadRecord
    <3> QED
      BY <1>0, <1>3, <2>0, <3>1, <3>2, ReadingStep DEF ReadRecord
  <2> QED
    BY <2>1, <2>2
<1>4. CASE SkipStep(w)
  <2>1. PICK q : q = [proc[w] EXCEPT !.step = @ + 1]
    OBVIOUS
  <2>0. proc[w].step + 1 \in Nat
    BY <1>0 DEF Frames
  <2>2. q \in Frames
    BY <1>0, <2>0, <2>1 DEF Frames
  <2>3. Steps[proc[w].step] \in effects /\ proc[w].step >= 1 /\ proc[w].at = "step"
    BY <1>0, <1>4 DEF SkipStep, Current, Placed
  <2>4. Placed(q)
    <3>1. proc[w].step \in Nat
      BY <1>0 DEF Frames
    <3>2. \A j \in DOMAIN Steps : j \in Nat /\ (j < proc[w].step + 1 => j < proc[w].step \/ j = proc[w].step)
      BY <3>1 DEF ProvisioningAssumption
    <3> QED
      BY <1>0, <2>1, <2>3, <3>1, <3>2 DEF Placed, Frames
  <2>5. proc' = [proc EXCEPT ![w] = q]
    BY <1>4, <2>1 DEF SkipStep
  <2>6. q.at = "step"
    BY <1>0, <2>1, <2>3 DEF Frames
  <2> QED
    BY <1>0, <1>4, <2>2, <2>4, <2>5, <2>6, ReadingStep DEF SkipStep
<1>5. CASE FailureReads(w)
  <2>1. PICK q : q = [proc[w] EXCEPT !.at = "saved", !.count = prec.count]
    OBVIOUS
  <2>2. q \in Frames /\ q.at = "saved"
    BY <1>0, <2>1 DEF Frames
  <2>3. Placed(q)
    BY <1>0, <2>1 DEF Placed, Frames, Inv
  <2>4. proc' = [proc EXCEPT ![w] = q]
    BY <1>5, <2>1 DEF FailureReads
  <2> QED
    BY <1>0, <1>5, <2>2, <2>3, <2>4, ReadingStep DEF FailureReads
<1> QED
  BY <1>1, <1>2, <1>3, <1>4, <1>5

\* A retry counts itself, or a process is killed.
LEMMA CountStep ==
    ASSUME ProvisioningAssumption, Inv, NEW w \in Processes, RetryCounts(w)
    PROVE  Inv'
<1>0. proc[w] \in Frames /\ Placed(proc[w]) /\ proc[w].at = "count"
  BY DEF Inv, Types, RetryCounts
<1>1. PICK q : q = [proc[w] EXCEPT !.at = "read"]
  OBVIOUS
<1>2. q \in Frames /\ Placed(q)' /\ proc' = [proc EXCEPT ![w] = q]
  BY <1>0, <1>1 DEF Frames, Placed, RetryCounts
<1>3. proc' \in [Processes -> Frames] /\ \A v \in Processes : Placed(proc[v])'
  BY <1>2, ProcMoves DEF RetryCounts
<1>4. prec'.status = prec.status /\ prec'.count = proc[w].count + 1
  BY DEF RetryCounts, Inv, Types
<1>5. proc[w].count \in Nat /\ proc[w].count < MaxRetries
  BY <1>0 DEF Frames, Placed
<1>6. Types'
  BY <1>3, <1>5 DEF Inv, Types, RetryCounts
<1>7. Attended'
  <2>1. ~ InRun(w)
    BY <1>0 DEF InRun
  <2> QED
    BY <1>2, <1>4, <2>1, StillAttended DEF RetryCounts
<1>8. prec'.count <= MaxRetries
  BY <1>4, <1>5 DEF ProvisioningAssumption
<1>9. (Succeeded \subseteq effects /\ InOrder /\ Finished)'
  BY <1>4 DEF Inv, Succeeded, InOrder, Finished, RetryCounts
<1> QED
  BY <1>3, <1>6, <1>7, <1>8, <1>9 DEF Inv

LEMMA StopStep ==
    ASSUME Inv, NEW w \in Processes, Stop(w)
    PROVE  Inv'
<1>1. Free \in Frames /\ Placed(Free)'
  BY DEF Frames, Free, Placed
<1>2. proc' = [proc EXCEPT ![w] = Free]
  BY DEF Stop
<1>3. proc' \in [Processes -> Frames] /\ \A v \in Processes : Placed(proc[v])'
  BY <1>1, <1>2, ProcMoves DEF Stop
<1>4. stops' \in Nat /\ stops' # 0
  BY DEF Stop, Inv, Types
<1>5. Types' /\ Attended'
  BY <1>3, <1>4 DEF Inv, Types, Attended, Stop
<1>6. (Succeeded \subseteq effects /\ InOrder /\ Finished /\ prec.count <= MaxRetries)'
  BY DEF Inv, Succeeded, InOrder, Finished, Stop
<1> QED
  BY <1>3, <1>5, <1>6 DEF Inv

\* A record of the run is written, new or again.
LEMMA BeginStep ==
    ASSUME ProvisioningAssumption, Inv, NEW w \in Processes, BeginRun(w)
    PROVE  Inv'
<1>0. proc[w] \in Frames /\ Placed(proc[w]) /\ proc[w].at = "begin" /\ ~ InRun(w)
  BY DEF Inv, Types, BeginRun, InRun
<1>1. PICK q : q = [proc[w] EXCEPT !.at = "step", !.step = 1]
  OBVIOUS
<1>2. q \in Frames /\ q.at = "step"
  BY <1>0, <1>1 DEF Frames
<1>3. Placed(q)'
  <2>1. \A j \in DOMAIN Steps : ~ (j < 1)
    BY DEF ProvisioningAssumption
  <2> QED
    BY <1>0, <1>1, <2>1 DEF Placed, Frames, BeginRun
<1>4. Free \in Frames /\ Placed(Free)'
  BY DEF Frames, Free, Placed
<1>5. (InOrder /\ effects \subseteq StepNames /\ runs \in Nat /\ stops \in Nat)'
  BY DEF Inv, Types, InOrder, BeginRun
<1>6. CASE proc' = [proc EXCEPT ![w] = q]
  <2>1. \/ prec' = [status |-> "running", count |-> 0] /\ steps' = steps
        \/ prec' = [prec EXCEPT !.status = "running"] /\ steps' = {r \in steps : r.status = "success"}
    <3>1. q # Free
      BY <1>2 DEF Free
    <3>2. proc'[w] = q
      BY <1>6 DEF Inv, Types
    <3>3. CASE proc[w].seen = "none" /\ prec.status # "none"
      <4>1. proc' = [proc EXCEPT ![w] = Free]
        BY <3>3 DEF BeginRun
      <4>2. proc'[w] = Free
        BY <4>1 DEF Inv, Types
      <4> QED
        BY <3>1, <3>2, <4>2
    <3>4. CASE proc[w].seen = "none" /\ prec.status = "none"
      BY <3>4 DEF BeginRun
    <3>5. CASE proc[w].seen # "none"
      BY <3>5 DEF BeginRun
    <3> QED
      BY <3>3, <3>4, <3>5
  <2>2. /\ prec' \in [status : {"none", "running", "failed", "completed"}, count : Nat]
        /\ prec'.status = "running" /\ prec'.count <= MaxRetries
    BY <2>1 DEF Inv, Types, ProvisioningAssumption
  <2>3. steps' \subseteq steps
    BY <2>1
  <2>4. proc' \in [Processes -> Frames] /\ \A v \in Processes : Placed(proc[v])'
    BY <1>2, <1>3, <1>6, ProcMoves DEF BeginRun
  <2>5. Types'
    BY <1>5, <2>2, <2>3, <2>4 DEF Inv, Types
  <2>6. (Succeeded \subseteq effects)'
    BY <2>3 DEF Inv, Succeeded, BeginRun
  <2>7. Finished' /\ Attended'
    BY <1>2, <1>6, <2>2, StillAttended DEF Finished
  <2> QED
    BY <1>5, <2>2, <2>4, <2>5, <2>6, <2>7 DEF Inv
<1>7. CASE proc' # [proc EXCEPT ![w] = q]
  <2>1. proc' = [proc EXCEPT ![w] = Free] /\ prec' = prec /\ steps' = steps
    BY <1>1, <1>7 DEF BeginRun
  <2>2. proc' \in [Processes -> Frames] /\ \A v \in Processes : Placed(proc[v])'
    BY <1>4, <2>1, ProcMoves DEF BeginRun
  <2>3. Types'
    BY <1>5, <2>1, <2>2 DEF Inv, Types
  <2>4. Attended'
    BY <1>0, <1>4, <2>1, StillAttended DEF BeginRun
  <2>5. (Succeeded \subseteq effects /\ Finished /\ prec.count <= MaxRetries)'
    BY <2>1 DEF Inv, Succeeded, Finished, BeginRun
  <2> QED
    BY <1>5, <2>2, <2>3, <2>4, <2>5 DEF Inv
<1> QED
  BY <1>6, <1>7

-----------------------------------------------------------------------------
(* A step of the activation and what becomes of its row.                   *)

\* The row of a step is written as running.
LEMMA StartStep ==
    ASSUME ProvisioningAssumption, Inv, NEW w \in Processes, StepStarts(w)
    PROVE  Inv'
<1>0. proc[w] \in Frames /\ Placed(proc[w]) /\ proc[w].at = "step" /\ proc[w].step <= Len(Steps)
  BY DEF Inv, Types, StepStarts
<1>1. PICK q : q = [proc[w] EXCEPT !.at = "effect"]
  OBVIOUS
<1>2. q \in Frames /\ q.at = "effect" /\ proc' = [proc EXCEPT ![w] = q]
  BY <1>0, <1>1 DEF Frames, StepStarts
<1>3. proc[w].step \in DOMAIN Steps /\ Current(w) \in StepNames
  <2>1. proc[w].step \in Nat /\ proc[w].step >= 1
    BY <1>0 DEF Frames, Placed
  <2> QED
    BY <1>0, <2>1 DEF ProvisioningAssumption, Current, StepNames
<1>4. Placed(q)'
  BY <1>0, <1>1, <1>3 DEF Placed, Frames, StepStarts
<1>5. proc' \in [Processes -> Frames] /\ \A v \in Processes : Placed(proc[v])'
  BY <1>2, <1>4, ProcMoves DEF StepStarts
<1>6. Row(w, "running") \in Rows
  BY <1>0, <1>3 DEF Row, Rows, Frames
<1>7. Types'
  BY <1>5, <1>6 DEF Inv, Types, StepStarts
<1>8. (Succeeded \subseteq effects)'
  BY DEF Inv, Succeeded, StepStarts, Row
<1>9. (InOrder /\ Finished /\ prec.count <= MaxRetries)'
  BY DEF Inv, InOrder, Finished, StepStarts
<1>10. Attended'
  BY <1>2, StillAttended DEF StepStarts
<1> QED
  BY <1>5, <1>7, <1>8, <1>9, <1>10 DEF Inv

\* The step takes effect, or raises with or without having done so.
LEMMA RunStep ==
    ASSUME ProvisioningAssumption, Inv, NEW w \in Processes, StepRuns(w)
    PROVE  Inv'
<1>0. proc[w] \in Frames /\ Placed(proc[w]) /\ proc[w].at = "effect"
  BY DEF Inv, Types, StepRuns
<1>1. proc[w].step \in DOMAIN Steps /\ Current(w) = Steps[proc[w].step] /\ Current(w) \in StepNames
  BY <1>0 DEF Placed, Current, StepNames
<1>2. /\ effects' = effects \/ effects' = effects \cup {Current(w)}
      /\ UNCHANGED <<prec, steps, runs, stops>>
  BY DEF StepRuns
<1>3. PICK q \in Frames : /\ proc' = [proc EXCEPT ![w] = q]
                          /\ q.at \in {"success", "failed"} /\ q.step = proc[w].step /\ q.skip = proc[w].skip
                          /\ q.at = "success" => Current(w) \in effects'
  <2>1. CASE proc' = [proc EXCEPT ![w].at = "success"] /\ effects' = effects \cup {Current(w)}
    <3>1. PICK q : q = [proc[w] EXCEPT !.at = "success"]
      OBVIOUS
    <3>2. q \in Frames /\ q.at = "success" /\ q.step = proc[w].step /\ q.skip = proc[w].skip
      BY <1>0, <3>1 DEF Frames
    <3>3. proc' = [proc EXCEPT ![w] = q] /\ Current(w) \in effects'
      BY <2>1, <3>1
    <3> QED
      BY <3>2, <3>3
  <2>2. CASE proc' = [proc EXCEPT ![w].at = "failed"]
    <3>1. PICK q : q = [proc[w] EXCEPT !.at = "failed"]
      OBVIOUS
    <3>2. q \in Frames /\ q.at = "failed" /\ q.step = proc[w].step /\ q.skip = proc[w].skip
      BY <1>0, <3>1 DEF Frames
    <3>3. proc' = [proc EXCEPT ![w] = q]
      BY <2>2, <3>1
    <3> QED
      BY <3>2, <3>3
  <2> QED
    BY <2>1, <2>2 DEF StepRuns
<1>4. Placed(q)'
  BY <1>0, <1>1, <1>2, <1>3 DEF Placed
<1>5. proc' \in [Processes -> Frames] /\ \A v \in Processes : Placed(proc[v])'
  BY <1>2, <1>3, <1>4, ProcMoves
<1>6. Types'
  BY <1>1, <1>2, <1>5 DEF Inv, Types
<1>7. InOrder'
  <2>1. ASSUME NEW i \in 2 .. Len(Steps), Steps[i] \in effects' PROVE Steps[i - 1] \in effects'
    <3>1. i \in DOMAIN Steps /\ i - 1 \in DOMAIN Steps /\ i - 1 < i
      BY DEF ProvisioningAssumption
    <3>2. CASE Steps[i] \in effects
      BY <1>2, <3>2 DEF Inv, InOrder
    <3>3. CASE Steps[i] = Current(w)
      <4>1. i = proc[w].step
        BY <1>1, <3>1, <3>3 DEF ProvisioningAssumption
      <4> QED
        BY <1>0, <1>2, <3>1, <4>1 DEF Placed
    <3> QED
      BY <1>2, <2>1, <3>2, <3>3
  <2> QED
    BY <2>1 DEF InOrder
<1>8. (Succeeded \subseteq effects /\ Finished /\ prec.count <= MaxRetries)'
  BY <1>2 DEF Inv, Succeeded, Finished
<1>9. Attended'
  BY <1>3, StillAttended
<1> QED
  BY <1>5, <1>6, <1>7, <1>8, <1>9 DEF Inv

\* The row becomes success or failed, unless another run has deleted it.
LEMMA UpdateStep ==
    ASSUME ProvisioningAssumption, Inv, NEW w \in Processes, StepSucceeds(w) \/ StepFails(w)
    PROVE  Inv'
<1>0. proc[w] \in Frames /\ Placed(proc[w]) /\ proc[w].at \in {"success", "failed"}
  BY DEF Inv, Types, StepSucceeds, StepFails
<1>1. proc[w].step \in DOMAIN Steps /\ Current(w) = Steps[proc[w].step] /\ Current(w) \in StepNames
  BY <1>0 DEF Placed, Current, StepNames
<1>2. UNCHANGED <<prec, effects, runs, stops>>
  BY DEF StepSucceeds, StepFails
<1>3. PICK q \in Frames : proc' = [proc EXCEPT ![w] = q] /\ q.at \in {"step", "save"} /\ Placed(q)
  <2>1. CASE StepSucceeds(w)
    <3>1. PICK q : q = [proc[w] EXCEPT !.at = "step", !.step = @ + 1]
      OBVIOUS
    <3>0. proc[w].step \in Nat /\ proc[w].step + 1 \in Nat
      BY <1>0 DEF Frames
    <3>2. q \in Frames
      BY <1>0, <3>0, <3>1 DEF Frames
    <3>8. proc' = [proc EXCEPT ![w] = q]
      BY <2>1, <3>1 DEF StepSucceeds
    <3>3. q.at = "step" /\ q.skip = proc[w].skip /\ q.step = proc[w].step + 1 /\ proc[w].step \in Nat
      BY <1>0, <3>0, <3>1 DEF Frames
    <3>4. \A j \in DOMAIN Steps : j \in Nat
      BY DEF ProvisioningAssumption
    <3>5. \A j \in DOMAIN Steps : j < q.step => Steps[j] \in effects
      <4>1. proc[w].at = "success"
        BY <2>1 DEF StepSucceeds
      <4>2. Steps[proc[w].step] \in effects /\ \A j \in DOMAIN Steps : j < proc[w].step => Steps[j] \in effects
        BY <1>0, <4>1 DEF Placed
      <4> QED
        BY <3>3, <3>4, <4>2
    <3>6. q.step >= 1
      BY <3>3
    <3>7. Placed(q)
      BY <1>0, <3>3, <3>5, <3>6 DEF Placed
    <3> QED
      BY <3>2, <3>3, <3>7, <3>8
  <2>2. CASE StepFails(w)
    <3>1. PICK q : q = [proc[w] EXCEPT !.at = "save"]
      OBVIOUS
    <3>2. q \in Frames /\ q.at = "save" /\ proc' = [proc EXCEPT ![w] = q]
      BY <1>0, <2>2, <3>1 DEF Frames, StepFails
    <3>3. Placed(q)
      BY <1>0, <3>1 DEF Placed, Frames
    <3> QED
      BY <3>2, <3>3
  <2> QED
    BY <2>1, <2>2
<1>4. proc' \in [Processes -> Frames] /\ \A v \in Processes : Placed(proc[v])'
  <2>1. Placed(q)'
    BY <1>2, <1>3 DEF Placed
  <2> QED
    BY <1>2, <1>3, <2>1, ProcMoves
<1>5. PICK status \in {"success", "failed"} : Update(w, status) /\ (status = "success" => Current(w) \in effects)
  <2>1. CASE StepSucceeds(w)
    BY <1>0, <1>1, <2>1 DEF StepSucceeds, Placed
  <2>2. CASE StepFails(w)
    BY <2>2 DEF StepFails
  <2> QED
    BY <2>1, <2>2
<1>6. \A x \in steps' : x \in steps \/ x = Row(w, status)
  BY <1>5 DEF Update
<1>7. Row(w, status) \in Rows /\ Row(w, status).name = Current(w) /\ Row(w, status).status = status
  BY <1>0, <1>1, <1>5 DEF Row, Rows, Frames
<1>8. Types'
  BY <1>2, <1>4, <1>6, <1>7 DEF Inv, Types
<1>9. (Succeeded \subseteq effects)'
  BY <1>2, <1>5, <1>6, <1>7 DEF Inv, Succeeded
<1>10. (InOrder /\ Finished /\ prec.count <= MaxRetries)'
  BY <1>2 DEF Inv, InOrder, Finished
<1>11. Attended'
  BY <1>3, StillAttended
<1> QED
  BY <1>4, <1>8, <1>9, <1>10, <1>11 DEF Inv

\* The record is completed, or saved as failed with the count read before.
LEMMA LastStep ==
    ASSUME ProvisioningAssumption, Inv, NEW w \in Processes, Completes(w) \/ SaveFailure(w)
    PROVE  Inv'
<1>0. proc[w] \in Frames /\ Placed(proc[w])
  BY DEF Inv, Types
<1>1. /\ proc' = [proc EXCEPT ![w] = Free] /\ UNCHANGED <<steps, effects, runs, stops>>
      /\ Free \in Frames /\ Placed(Free)'
  BY FreeFrame DEF Completes, SaveFailure, Placed, Free
<1>2. proc' \in [Processes -> Frames] /\ \A v \in Processes : Placed(proc[v])'
  BY <1>1, ProcMoves
<1>3. /\ prec' \in [status : {"completed", "failed"}, count : Nat]
      /\ prec'.count <= MaxRetries
      /\ prec'.status = "completed" => StepNames \subseteq effects
  <2>1. CASE Completes(w)
    <3>1. proc[w].step > Len(Steps) /\ proc[w].at = "step"
      BY <2>1 DEF Completes
    <3>2. \A j \in DOMAIN Steps : Steps[j] \in effects
      <4>1. proc[w].step \in Nat /\ \A j \in DOMAIN Steps : j \in Nat /\ j <= Len(Steps) /\ Len(Steps) \in Nat
        BY <1>0 DEF ProvisioningAssumption, Frames
      <4> QED
        BY <1>0, <3>1, <4>1 DEF Placed
    <3>3. StepNames \subseteq effects
      BY <3>2 DEF StepNames
    <3> QED
      BY <2>1, <3>3 DEF Completes, Inv, Types
  <2>2. CASE SaveFailure(w)
    BY <1>0, <2>2 DEF SaveFailure, Placed, Frames
  <2> QED
    BY <2>1, <2>2
<1>4. Types'
  BY <1>1, <1>2, <1>3 DEF Inv, Types
<1>5. Finished' /\ Attended' /\ prec'.count <= MaxRetries
  BY <1>1, <1>3 DEF Finished, Attended
<1>6. (Succeeded \subseteq effects /\ InOrder)'
  BY <1>1 DEF Inv, Succeeded, InOrder
<1> QED
  BY <1>2, <1>4, <1>5, <1>6 DEF Inv

-----------------------------------------------------------------------------
LEMMA NextInv == ProvisioningAssumption /\ Inv /\ [Next]_provVars => Inv'
<1> SUFFICES ASSUME ProvisioningAssumption, Inv, [Next]_provVars PROVE Inv'
  OBVIOUS
<1>1. ASSUME NEW w \in Processes,
             Activate(w) \/ RetryReads(w) \/ ReadRecord(w) \/ SkipStep(w) \/ FailureReads(w)
      PROVE  Inv'
  BY <1>1, Reads
<1>2. ASSUME NEW w \in Processes, RetryCounts(w) PROVE Inv'
  BY <1>2, CountStep
<1>3. ASSUME NEW w \in Processes, BeginRun(w) PROVE Inv'
  BY <1>3, BeginStep
<1>4. ASSUME NEW w \in Processes, StepStarts(w) PROVE Inv'
  BY <1>4, StartStep
<1>5. ASSUME NEW w \in Processes, StepRuns(w) PROVE Inv'
  BY <1>5, RunStep
<1>6. ASSUME NEW w \in Processes, StepSucceeds(w) \/ StepFails(w) PROVE Inv'
  BY <1>6, UpdateStep
<1>7. ASSUME NEW w \in Processes, Completes(w) \/ SaveFailure(w) PROVE Inv'
  BY <1>7, LastStep
<1>8. ASSUME NEW w \in Processes, Stop(w) PROVE Inv'
  BY <1>8, StopStep
<1>9. CASE UNCHANGED provVars
  BY <1>9 DEF provVars, Inv, Types, Placed, Succeeded, InOrder, Finished, Attended, InRun
<1> QED
  BY <1>1, <1>2, <1>3, <1>4, <1>5, <1>6, <1>7, <1>8, <1>9 DEF Next

\* Whatever several processes, retries, kills and races do to an activation, a
\* row of success stands for a step that was done, the steps are done in their
\* order, a completed record lacks none, the retries stay within their limit, and
\* only a kill leaves a record running with nobody at work on it
\* (activation.py:68-392, failure_handler.py:125-198).
THEOREM ActivationsHold == ProvisioningAssumption /\ Spec => [](TypeOK /\ ActivationHolds)
<1> SUFFICES ASSUME ProvisioningAssumption PROVE Spec => [](TypeOK /\ ActivationHolds)
  OBVIOUS
<1>1. Init => Inv
  BY InitInv
<1>2. Inv /\ [Next]_provVars => Inv'
  BY NextInv
<1>3. Inv => TypeOK /\ ActivationHolds
  BY InvHolds
<1> QED
  BY <1>1, <1>2, <1>3, PTL DEF Spec

-----------------------------------------------------------------------------
(* Agents that are stopped (AgentRuntime).                                 *)


Messages == [role : {"user", "assistant"}, n : Nat]
ManagedAgents == [status : {"none", "pending", "running"} \cup Agent!Terminal, messages : Seq(Messages),
                  stopped : BOOLEAN, opened : BOOLEAN]
AgentTypes ==
    /\ agent \in [Agents -> ManagedAgents]
    /\ spawning \subseteq Agents
    /\ sending \in [Senders -> [to : SUBSET Agents, n : Nat]]

\* What has been stopped, and not been opened again by the end of its spawn,
\* is in a state in which messages are refused and no second stop has effect.
ShutInv ==
    /\ AgentTypes
    /\ \A a \in Agents :
         Agent!Shut(a) => agent[a].status \in {"stopped", "error"}

LEMMA UserIsNat == ASSUME AgentTypes, NEW a \in Agents PROVE Agent!User(a) \in Nat
<1>1. agent[a].messages \in Seq(Messages)
  BY DEF AgentTypes, ManagedAgents
<1>2. PICK n \in Nat : DOMAIN agent[a].messages = 1 .. n
  BY <1>1
<1>3. IsFiniteSet(1 .. n)
  BY <1>2, FS_Interval
<1>4. PICK S : S = {i \in DOMAIN agent[a].messages : agent[a].messages[i].role = "user"}
  OBVIOUS
<1>5. IsFiniteSet(S)
  BY <1>2, <1>3, <1>4, FS_Subset
<1>6. Agent!Cardinality(S) = Cardinality(S)
  BY DEF Agent!Cardinality, Cardinality
<1> QED
  BY <1>4, <1>5, <1>6, FS_CardinalityType DEF Agent!User

\* An answer that is appended leaves the number of users' messages.
LEMMA RepliesUncounted ==
    ASSUME AgentTypes, NEW a \in Agents, NEW n,
           agent'[a].messages = Append(agent[a].messages, [role |-> "assistant", n |-> n])
    PROVE  Agent!User(a)' = Agent!User(a)
<1>1. PICK s : s = agent[a].messages
  OBVIOUS
<1>2. s \in Seq(Messages)
  BY <1>1 DEF AgentTypes, ManagedAgents
<1>3. PICK t : t = Append(s, [role |-> "assistant", n |-> n])
  OBVIOUS
<1>4. /\ DOMAIN s = 1 .. Len(s) /\ Len(s) \in Nat /\ DOMAIN t = 1 .. Len(s) + 1
      /\ t[Len(s) + 1].role = "assistant"
      /\ \A i \in 1 .. Len(s) : t[i] = s[i]
  BY <1>2, <1>3
<1>5. {i \in DOMAIN t : t[i].role = "user"} = {i \in DOMAIN s : s[i].role = "user"}
  BY <1>4
<1>6. agent'[a].messages = t
  BY <1>1, <1>3
<1> QED
  BY <1>1, <1>5, <1>6 DEF Agent!User

LEMMA ShutInit == Agent!Init => ShutInv
<1> SUFFICES ASSUME Agent!Init PROVE ShutInv
  OBVIOUS
<1>1. Agent!NoAgent \in ManagedAgents /\ Agent!NoSend \in [to : SUBSET Agents, n : Nat]
  BY DEF Agent!NoAgent, Agent!NoSend, ManagedAgents
<1>2. AgentTypes
  BY <1>1 DEF Agent!Init, AgentTypes
<1>3. \A a \in Agents : ~ agent[a].stopped
  BY DEF Agent!Init, Agent!NoAgent
<1> QED
  BY <1>2, <1>3 DEF ShutInv, Agent!Shut

\* What a step does to an agent x: nothing, or one of the operations; whoever is
\* shut stays so and gets no message.
LEMMA ShutStep ==
    ASSUME ShutInv, Agent!Next
    PROVE  /\ ShutInv'
           /\ \A x \in Agents : Agent!KeptShut(x)
<1>0. AgentTypes /\ \A x \in Agents : agent[x] \in ManagedAgents
  BY DEF ShutInv, AgentTypes
<1>1. ASSUME NEW a \in Agents, Agent!SpawnAgent(a) PROVE ShutInv' /\ \A x \in Agents : Agent!KeptShut(x)
  <2>1. PICK q : q = [agent[a] EXCEPT !.status = "pending"]
    OBVIOUS
  <2>2. q \in ManagedAgents /\ q.messages = agent[a].messages /\ agent' = [agent EXCEPT ![a] = q]
    BY <1>0, <1>1, <2>1 DEF Agent!SpawnAgent, ManagedAgents
  <2>3. AgentTypes'
    BY <1>0, <1>1, <2>2 DEF Agent!SpawnAgent, AgentTypes
  <2>4. ~ agent[a].stopped
    BY <1>1 DEF Agent!SpawnAgent, Agent!NoAgent
  <2>5. \A x \in Agents : x # a => agent'[x] = agent[x]
    BY <1>0, <2>2 DEF AgentTypes
  <2>7. \A x \in Agents : x # a => Agent!User(x)' = Agent!User(x)
    BY <2>5 DEF Agent!User
  <2> QED
    BY <1>0, <1>1, <2>3, <2>4, <2>5, <2>7 DEF Agent!SpawnAgent, ShutInv, Agent!KeptShut, Agent!Shut
<1>2. ASSUME NEW a \in Agents, Agent!SpawnReturns(a) PROVE ShutInv' /\ \A x \in Agents : Agent!KeptShut(x)
  <2>1. PICK q : q = [agent[a] EXCEPT !.status = "running", !.opened = agent[a].stopped]
    OBVIOUS
  <2>2. q \in ManagedAgents /\ q.opened = q.stopped /\ agent' = [agent EXCEPT ![a] = q]
    BY <1>0, <1>2, <2>1 DEF Agent!SpawnReturns, ManagedAgents
  <2>3. AgentTypes'
    BY <1>0, <1>2, <2>2 DEF Agent!SpawnReturns, AgentTypes
  <2>5. \A x \in Agents : x # a => agent'[x] = agent[x]
    BY <1>0, <2>2 DEF AgentTypes
  <2>7. \A x \in Agents : x # a => Agent!User(x)' = Agent!User(x)
    BY <2>5 DEF Agent!User
  <2>6. agent'[a] = q /\ a \in spawning /\ spawning' = spawning \ {a}
    BY <1>0, <1>2, <2>2 DEF AgentTypes, Agent!SpawnReturns
  <2> QED
    BY <1>0, <2>2, <2>3, <2>5, <2>6, <2>7 DEF ShutInv, Agent!KeptShut, Agent!Shut
<1>3. ASSUME NEW a \in Agents, Agent!StopAgent(a) PROVE ShutInv' /\ \A x \in Agents : Agent!KeptShut(x)
  <2>1. PICK q : q = [agent[a] EXCEPT !.status = "stopped", !.stopped = TRUE, !.opened = FALSE]
    OBVIOUS
  <2>2. q \in ManagedAgents /\ q.status = "stopped" /\ agent' = [agent EXCEPT ![a] = q]
    BY <1>0, <1>3, <2>1 DEF Agent!StopAgent, ManagedAgents, Agent!Terminal
  <2>3. AgentTypes'
    BY <1>0, <1>3, <2>2 DEF Agent!StopAgent, AgentTypes
  <2>5. \A x \in Agents : x # a => agent'[x] = agent[x]
    BY <1>0, <2>2 DEF AgentTypes
  <2>7. \A x \in Agents : x # a => Agent!User(x)' = Agent!User(x)
    BY <2>5 DEF Agent!User
  <2>6. agent'[a] = q /\ agent[a].status \notin {"stopped", "error"} /\ spawning' = spawning
    BY <1>0, <1>3, <2>2 DEF AgentTypes, Agent!StopAgent, Agent!Terminal
  <2> QED
    BY <1>0, <2>2, <2>3, <2>5, <2>6, <2>7 DEF ShutInv, Agent!KeptShut, Agent!Shut
<1>4. ASSUME NEW s \in Senders, NEW a \in Agents, Agent!Send(s, a) PROVE ShutInv' /\ \A x \in Agents : Agent!KeptShut(x)
  <2>0. Agent!User(a) + 1 \in Nat
    BY <1>0, UserIsNat
  <2>1. PICK q : q = [agent[a] EXCEPT !.messages = Append(@, [role |-> "user", n |-> Agent!User(a) + 1])]
    OBVIOUS
  <2>2. /\ q \in ManagedAgents /\ agent' = [agent EXCEPT ![a] = q]
        /\ q.status = agent[a].status /\ q.stopped = agent[a].stopped /\ q.opened = agent[a].opened
    <3>1. Append(agent[a].messages, [role |-> "user", n |-> Agent!User(a) + 1]) \in Seq(Messages)
      BY <1>0, <2>0 DEF ManagedAgents, Messages
    <3>2. agent' = [agent EXCEPT ![a] = q]
      BY <1>4, <2>1 DEF Agent!Send
    <3> QED
      BY <1>0, <2>1, <3>1, <3>2 DEF ManagedAgents
  <2>3. AgentTypes'
    BY <1>0, <1>4, <2>0, <2>2 DEF Agent!Send, AgentTypes
  <2>5. \A x \in Agents : x # a => agent'[x] = agent[x]
    BY <1>0, <2>2 DEF AgentTypes
  <2>7. \A x \in Agents : x # a => Agent!User(x)' = Agent!User(x)
    BY <2>5 DEF Agent!User
  <2>6. agent'[a] = q /\ agent[a].status \notin {"stopped", "error"} /\ spawning' = spawning
    BY <1>0, <1>4, <2>2 DEF AgentTypes, Agent!Send, Agent!Refusing
  <2> QED
    BY <1>0, <2>2, <2>3, <2>5, <2>6, <2>7 DEF ShutInv, Agent!KeptShut, Agent!Shut
<1>5. ASSUME NEW s \in Senders, Agent!Reply(s) PROVE ShutInv' /\ \A x \in Agents : Agent!KeptShut(x)
  <2>0. PICK a \in Agents : /\ agent' = [agent EXCEPT ![a].messages = Append(@, [role |-> "assistant", n |-> sending[s].n])]
                            /\ sending' = [sending EXCEPT ![s] = Agent!NoSend]
                            /\ spawning' = spawning
    BY <1>0, <1>5 DEF Agent!Reply, AgentTypes
  <2>1. PICK q : q = [agent[a] EXCEPT !.messages = Append(@, [role |-> "assistant", n |-> sending[s].n])]
    OBVIOUS
  <2>2. /\ q \in ManagedAgents /\ agent' = [agent EXCEPT ![a] = q]
        /\ q.messages = Append(agent[a].messages, [role |-> "assistant", n |-> sending[s].n])
        /\ q.status = agent[a].status /\ q.stopped = agent[a].stopped /\ q.opened = agent[a].opened
    <3>1. Append(agent[a].messages, [role |-> "assistant", n |-> sending[s].n]) \in Seq(Messages)
      BY <1>0 DEF ManagedAgents, Messages, AgentTypes
    <3>2. agent' = [agent EXCEPT ![a] = q]
      BY <2>0, <2>1
    <3> QED
      BY <1>0, <2>1, <3>1, <3>2 DEF ManagedAgents
  <2>3. AgentTypes'
    BY <1>0, <2>0, <2>2 DEF AgentTypes, Agent!NoSend
  <2>5. agent'[a] = q /\ \A x \in Agents : x # a => agent'[x] = agent[x]
    BY <1>0, <2>2 DEF AgentTypes
  <2>7. \A x \in Agents : x # a => Agent!User(x)' = Agent!User(x)
    BY <2>5 DEF Agent!User
  <2>6. Agent!User(a)' = Agent!User(a)
    BY <1>0, <2>2, <2>5, RepliesUncounted
  <2> QED
    BY <1>0, <2>0, <2>2, <2>3, <2>5, <2>6, <2>7 DEF ShutInv, Agent!KeptShut, Agent!Shut
<1>6. ASSUME NEW s \in Senders, Agent!ResponderFails(s) PROVE ShutInv' /\ \A x \in Agents : Agent!KeptShut(x)
  <2>0. PICK a \in Agents : /\ agent' = [agent EXCEPT ![a].status = "error", ![a].stopped = TRUE, ![a].opened = FALSE]
                            /\ sending' = [sending EXCEPT ![s] = Agent!NoSend]
                            /\ spawning' = spawning
    BY <1>0, <1>6 DEF Agent!ResponderFails, AgentTypes
  <2>1. PICK q : q = [agent[a] EXCEPT !.status = "error", !.stopped = TRUE, !.opened = FALSE]
    OBVIOUS
  <2>2. q \in ManagedAgents /\ q.status = "error" /\ q.messages = agent[a].messages /\ agent' = [agent EXCEPT ![a] = q]
    BY <1>0, <2>0, <2>1 DEF ManagedAgents, Agent!Terminal
  <2>3. AgentTypes'
    BY <1>0, <2>0, <2>2 DEF AgentTypes, Agent!NoSend
  <2>5. agent'[a] = q /\ \A x \in Agents : x # a => agent'[x] = agent[x]
    BY <1>0, <2>2 DEF AgentTypes
  <2>7. \A x \in Agents : x # a => Agent!User(x)' = Agent!User(x)
    BY <2>5 DEF Agent!User
  <2>8. Agent!User(a)' = Agent!User(a)
    BY <2>2, <2>5 DEF Agent!User
  <2> QED
    BY <1>0, <2>0, <2>2, <2>3, <2>5, <2>7, <2>8 DEF ShutInv, Agent!KeptShut, Agent!Shut
<1> QED
  BY <1>1, <1>2, <1>3, <1>4, <1>5, <1>6 DEF Agent!Next

\* What has been stopped, and is not opened again by a spawn that was under way,
\* stays stopped or failed and takes no message of a user, whoever sends, spawns
\* or answers meanwhile (runtime.py:243-352).
THEOREM StoppedStaysShut == Agent!Spec => Agent!StaysShut
<1>1. Agent!Init => ShutInv
  BY ShutInit
<1>2. ShutInv /\ [Agent!Next]_Agent!agentVars => ShutInv'
  <2> SUFFICES ASSUME ShutInv, UNCHANGED Agent!agentVars PROVE ShutInv'
    BY ShutStep
  <2> QED
    BY DEF ShutInv, AgentTypes, Agent!agentVars, Agent!Shut
<1>3. ShutInv /\ [Agent!Next]_Agent!agentVars => [\A a \in Agents : Agent!KeptShut(a)]_Agent!agentVars
  BY ShutStep
<1> QED
  BY <1>1, <1>2, <1>3, PTL DEF Agent!Spec, Agent!StaysShut

-----------------------------------------------------------------------------
(* Breakers that are open (LlmRouter).                                     *)


Results == Seq([ok : BOOLEAN, time : Nat])
Breakers == [failures : Nat, last : Nat]
RouterTypes ==
    /\ time \in Nat
    /\ breaker \in [Providers -> Breakers]
    /\ results \in [Providers -> Results]
    /\ request \in [Requests -> [at : {"none", "next", "waits", "answered", "exhausted"},
                                 chain : Seq(Providers), node : Nat \ {0}, stream : BOOLEAN]]

\* The last k of the results res are failures.
LastFailed(res, k) == k <= Len(res) /\ \A i \in Len(res) - k + 1 .. Len(res) : ~ res[i].ok

\* A breaker b counts at least the failures that came last, as far as it
\* matters, unless it has rested since the latest of them, at time t.
Latest(b, res) == LastFailed(res, 1) => b.last = res[Len(res)].time
Below(b, res) == \A k \in Nat : k < Threshold /\ LastFailed(res, k) => b.failures >= k
Full(b, res, t) == LastFailed(res, Threshold) => b.failures >= Threshold \/ t - b.last > Recovery
Counts(b, res, t) == Latest(b, res) /\ Below(b, res) /\ Full(b, res, t)

RouterInv ==
    /\ RouterTypes
    /\ \A r \in Requests : request[r].at = "waits" => Llm!Provider(r) \in Providers
    /\ \A p \in Providers : Counts(breaker[p], results[p], time)

LEMMA ResultAdded ==
    ASSUME NEW res \in Results, NEW x \in [ok : BOOLEAN, time : Nat]
    PROVE  /\ Append(res, x) \in Results /\ Len(Append(res, x)) = Len(res) + 1
           /\ Append(res, x)[Len(res) + 1] = x
           /\ \A i \in 1 .. Len(res) : Append(res, x)[i] = res[i]
  BY DEF Results

LEMMA CountsTick ==
    ASSUME Llm!RouterAssumption, NEW b \in Breakers, NEW res \in Results, NEW t \in Nat, Counts(b, res, t)
    PROVE  Counts(b, res, t + 1)
<1>1. b.last \in Nat /\ Recovery \in Nat
  BY DEF Breakers, Llm!RouterAssumption
<1>2. t - b.last > Recovery => (t + 1) - b.last > Recovery
  BY <1>1
<1>3. Full(b, res, t + 1)
  <2>1. Full(b, res, t)
    BY DEF Counts
  <2>2. LastFailed(res, Threshold) => b.failures >= Threshold \/ t - b.last > Recovery
    BY <2>1 DEF Full
  <2>3. LastFailed(res, Threshold) => b.failures >= Threshold \/ (t + 1) - b.last > Recovery
    BY <1>2, <2>2, Zenon
  <2> QED
    BY <2>3, Zenon DEF Full
<1> QED
  BY <1>3 DEF Counts

LEMMA CountsAsked ==
    ASSUME Llm!RouterAssumption, NEW b \in Breakers, NEW res \in Results, NEW t \in Nat, Counts(b, res, t),
           b.failures >= Threshold, ~ (t - b.last <= Recovery),
           NEW c \in Breakers, c.failures = Threshold - 1, c.last = b.last
    PROVE  Counts(c, res, t)
<1>1. b.last \in Nat /\ Recovery \in Nat /\ Threshold \in Nat \ {0}
  BY DEF Breakers, Llm!RouterAssumption
<1>2. t - c.last > Recovery
  BY <1>1
<1>3. \A k \in Nat : k < Threshold => c.failures >= k
  BY <1>1
<1>4. Full(c, res, t) /\ Below(c, res)
  BY <1>2, <1>3 DEF Full, Below
<1>5. Latest(c, res)
  BY DEF Counts, Latest
<1> QED
  BY <1>4, <1>5 DEF Counts

LEMMA CountsAnswer ==
    ASSUME Llm!RouterAssumption, NEW b \in Breakers, NEW res \in Results, NEW t \in Nat,
           NEW c \in Breakers, c.failures = 0, NEW s, s = Append(res, [ok |-> TRUE, time |-> t])
    PROVE  Counts(c, s, t)
<1>1. Len(s) = Len(res) + 1 /\ s[Len(res) + 1].ok /\ Len(res) \in Nat
  BY ResultAdded DEF Results
<1>2. ASSUME NEW k \in Nat, k # 0 PROVE ~ LastFailed(s, k)
  <2>1. Len(s) \in Len(s) - k + 1 .. Len(s) /\ Len(s) = Len(res) + 1
    BY <1>1, <1>2
  <2> QED
    BY <1>1, <2>1 DEF LastFailed
<1>3. Threshold \in Nat /\ Threshold # 0
  BY DEF Llm!RouterAssumption
<1>4. ~ LastFailed(s, 1) /\ ~ LastFailed(s, Threshold)
  <2>1. 1 \in Nat /\ 1 # 0
    OBVIOUS
  <2> QED
    BY <1>2, <1>3, <2>1, Zenon
<1>5. \A k \in Nat : LastFailed(s, k) => c.failures >= k
  <2>1. \A k \in Nat : LastFailed(s, k) => k = 0
    BY <1>2
  <2>2. 0 >= 0
    OBVIOUS
  <2> QED
    BY <2>1, <2>2, Zenon
<1> QED
  BY <1>4, <1>5, Zenon DEF Counts, Latest, Below, Full

LEMMA CountsFailure ==
    ASSUME Llm!RouterAssumption, NEW b \in Breakers, NEW res \in Results, NEW t \in Nat, Counts(b, res, t),
           NEW c \in Breakers, c.failures = b.failures + 1, c.last = t,
           NEW s, s = Append(res, [ok |-> FALSE, time |-> t])
    PROVE  Counts(c, s, t)
<1>1. /\ Len(s) = Len(res) + 1 /\ s[Len(res) + 1] = [ok |-> FALSE, time |-> t] /\ Len(res) \in Nat
      /\ \A i \in 1 .. Len(res) : s[i] = res[i]
  BY ResultAdded DEF Results
<1>2. b.failures \in Nat /\ Threshold \in Nat \ {0}
  BY DEF Breakers, Llm!RouterAssumption
<1>3. ASSUME NEW k \in Nat, k # 0, LastFailed(s, k) PROVE LastFailed(res, k - 1)
  <2>1. k <= Len(res) + 1 /\ \A i \in Len(res) + 1 - k + 1 .. Len(res) + 1 : ~ s[i].ok
    BY <1>1, <1>3 DEF LastFailed
  <2>2. ASSUME NEW i \in Len(res) - (k - 1) + 1 .. Len(res) PROVE ~ res[i].ok
    <3>1. i \in Len(res) + 1 - k + 1 .. Len(res) + 1 /\ i \in 1 .. Len(res)
      BY <1>1, <2>1, <2>2
    <3> QED
      BY <1>1, <2>1, <3>1
  <2>3. k - 1 <= Len(res)
    BY <1>1, <2>1
  <2> QED
    BY <2>2, <2>3 DEF LastFailed
<1>4. ASSUME NEW k \in Nat, k <= Threshold, LastFailed(s, k) PROVE c.failures >= k
  <2>1. CASE k = 0
    BY <1>2, <2>1
  <2>2. CASE k # 0
    <3>1. k - 1 \in Nat /\ k - 1 < Threshold
      BY <1>2, <1>4, <2>2
    <3>3. LastFailed(res, k - 1)
      BY <1>3, <1>4, <2>2
    <3>4. \A j \in Nat : j < Threshold /\ LastFailed(res, j) => b.failures >= j
      BY DEF Counts, Below
    <3>2. b.failures >= k - 1
      BY <3>1, <3>3, <3>4
    <3> QED
      BY <1>2, <3>2
  <2> QED
    BY <2>1, <2>2
<1>5. c.last = s[Len(s)].time
  BY <1>1
<1>6. Latest(c, s)
  BY <1>5 DEF Latest
<1>7. Below(c, s)
  <2>1. \A k \in Nat : k < Threshold => k <= Threshold
    BY <1>2
  <2> QED
    BY <1>4, <2>1 DEF Below
<1>8. Full(c, s, t)
  <2>1. Threshold \in Nat /\ Threshold <= Threshold
    BY <1>2
  <2> QED
    BY <1>4, <2>1 DEF Full
<1> QED
  BY <1>6, <1>7, <1>8 DEF Counts

\* A provider that keeps failing has an open breaker.
LEMMA OpenWhenFailing ==
    ASSUME Llm!RouterAssumption, RouterInv, NEW p \in Providers, Llm!KeepsFailing(p)
    PROVE  Llm!Open(p)
<1>1. PICK n : n = Len(results[p])
  OBVIOUS
<1>2. /\ n >= Threshold /\ \A i \in n - Threshold + 1 .. n : ~ results[p][i].ok
      /\ time - results[p][n].time <= Recovery
  BY <1>1 DEF Llm!KeepsFailing
<1>3. n \in Nat /\ Threshold \in Nat \ {0} /\ Recovery \in Nat /\ time \in Nat /\ breaker[p].last \in Nat
  BY <1>1 DEF RouterInv, RouterTypes, Results, Breakers, Llm!RouterAssumption
<1>4. LastFailed(results[p], Threshold) /\ LastFailed(results[p], 1)
  <2>1. \A i \in n - 1 + 1 .. n : i \in n - Threshold + 1 .. n
    BY <1>3
  <2> QED
    BY <1>1, <1>2, <1>3, <2>1 DEF LastFailed
<1>5. breaker[p].last = results[p][n].time /\ (breaker[p].failures >= Threshold \/ time - breaker[p].last > Recovery)
  BY <1>1, <1>4 DEF RouterInv, Counts, Latest, Full
<1> QED
  BY <1>2, <1>3, <1>5 DEF Llm!Open

\* A step moves one request to q and one provider's breaker and results to c
\* and res, or leaves those.
LEMMA RequestMoves ==
    ASSUME RouterTypes, \A x \in Requests : request[x].at = "waits" => Llm!Provider(x) \in Providers,
           NEW r \in Requests, NEW q, request' = [request EXCEPT ![r] = q],
           q \in [at : {"none", "next", "waits", "answered", "exhausted"},
                  chain : Seq(Providers), node : Nat \ {0}, stream : BOOLEAN],
           q.at = "waits" => q.chain[q.node] \in Providers
    PROVE  /\ request' \in [Requests -> [at : {"none", "next", "waits", "answered", "exhausted"},
                                         chain : Seq(Providers), node : Nat \ {0}, stream : BOOLEAN]]
           /\ \A x \in Requests : request'[x].at = "waits" => Llm!Provider(x)' \in Providers
<1>1. /\ request'[r] = q /\ \A x \in Requests : x # r => request'[x] = request[x]
      /\ request' \in [Requests -> [at : {"none", "next", "waits", "answered", "exhausted"},
                                    chain : Seq(Providers), node : Nat \ {0}, stream : BOOLEAN]]
  BY DEF RouterTypes
<1> QED
  BY <1>1 DEF Llm!Provider

LEMMA BreakerMoves ==
    ASSUME RouterTypes, \A p \in Providers : Counts(breaker[p], results[p], time), time' = time,
           NEW p \in Providers, NEW c \in Breakers, NEW res \in Results, Counts(c, res, time),
           breaker' = [breaker EXCEPT ![p] = c], results' = [results EXCEPT ![p] = res]
    PROVE  /\ breaker' \in [Providers -> Breakers] /\ results' \in [Providers -> Results]
           /\ \A x \in Providers : Counts(breaker[x], results[x], time)'
<1>1. /\ breaker'[p] = c /\ results'[p] = res
      /\ \A x \in Providers : x # p => breaker'[x] = breaker[x] /\ results'[x] = results[x]
      /\ breaker' \in [Providers -> Breakers] /\ results' \in [Providers -> Results]
  BY DEF RouterTypes
<1>2. ASSUME NEW x \in Providers PROVE Counts(breaker'[x], results'[x], time')
  <2>1. CASE x = p
    BY <1>1, <2>1, Zenon
  <2>2. CASE x # p
    BY <1>1, <2>2, Zenon
  <2> QED
    BY <2>1, <2>2
<1> QED
  BY <1>1, <1>2 DEF Counts, Latest, Below, Full

LEMMA RouterInit == Llm!RouterAssumption /\ Llm!Init => RouterInv
<1> SUFFICES ASSUME Llm!RouterAssumption, Llm!Init PROVE RouterInv
  OBVIOUS
<1>1. RouterTypes
  BY DEF Llm!Init, Llm!NotSent, RouterTypes, Breakers, Results
<1>2. \A r \in Requests : request[r].at # "waits"
  BY DEF Llm!Init, Llm!NotSent
<1>3. ASSUME NEW p \in Providers PROVE Counts(breaker[p], results[p], time)
  <2>1. breaker[p].failures = 0 /\ results[p] = <<>> /\ Threshold \in Nat \ {0}
    BY DEF Llm!Init, Llm!RouterAssumption
  <2>2. \A k \in Nat : k <= Len(results[p]) => k = 0
    BY <2>1
  <2>3. \A k \in Nat : LastFailed(results[p], k) => k = 0
    BY <2>2 DEF LastFailed
  <2>4. ~ LastFailed(results[p], 1) /\ ~ LastFailed(results[p], Threshold)
    BY <2>1, <2>2 DEF LastFailed
  <2>5. Below(breaker[p], results[p])
    <3>1. 0 >= 0
      OBVIOUS
    <3> QED
      BY <2>1, <2>3, <3>1, Zenon DEF Below
  <2> QED
    BY <2>4, <2>5 DEF Counts, Latest, Full
<1> QED
  BY <1>1, <1>2, <1>3 DEF RouterInv

Requested == [at : {"none", "next", "waits", "answered", "exhausted"},
              chain : Seq(Providers), node : Nat \ {0}, stream : BOOLEAN]

\* The provider in hand is one of the chain.
LEMMA InChain ==
    ASSUME RouterTypes, NEW r \in Requests, Llm!More(r)
    PROVE  Llm!Provider(r) \in Providers
<1>1. request[r].chain \in Seq(Providers) /\ request[r].node \in Nat \ {0}
  BY DEF RouterTypes
<1> QED
  BY <1>1 DEF Llm!More, Llm!Provider

\* A step of a request keeps the invariant, and is not sent to a provider that
\* keeps failing.
LEMMA RequestStep ==
    ASSUME Llm!RouterAssumption, RouterInv, NEW r \in Requests,
           \/ \E c \in Chains, s \in BOOLEAN : Llm!RouteRequest(r, c, s)
           \/ Llm!StreamCut(r) \/ Llm!SkipOpen(r) \/ Llm!Exhausted(r)
    PROVE  /\ RouterInv'
           /\ \A x \in Requests : ~ Llm!Sent(x)
<1>0. /\ RouterTypes /\ request[r] \in Requested /\ request \in [Requests -> Requested]
      /\ \A x \in Requests : request[x].at = "waits" => Llm!Provider(x) \in Providers
  BY DEF RouterInv, RouterTypes, Requested
<1>1. PICK q \in Requested : request' = [request EXCEPT ![r] = q] /\ q.at # "waits"
  <2>1. CASE \E c \in Chains, s \in BOOLEAN : Llm!RouteRequest(r, c, s)
    <3>1. PICK c \in Chains, s \in BOOLEAN : Llm!RouteRequest(r, c, s)
      BY <2>1
    <3>2. PICK q : q = [at |-> "next", chain |-> c, node |-> 1, stream |-> s]
      OBVIOUS
    <3>3. q \in Requested /\ q.at # "waits"
      BY <3>2 DEF Llm!RouterAssumption, Requested
    <3> QED
      BY <3>1, <3>2, <3>3 DEF Llm!RouteRequest
  <2>2. CASE Llm!StreamCut(r)
    <3>1. PICK q : q = [request[r] EXCEPT !.at = "answered"]
      OBVIOUS
    <3>2. q \in Requested /\ q.at # "waits"
      BY <1>0, <3>1 DEF Requested
    <3> QED
      BY <2>2, <3>1, <3>2 DEF Llm!StreamCut
  <2>3. CASE Llm!SkipOpen(r)
    <3>1. PICK q : q = [request[r] EXCEPT !.at = "next", !.node = @ + 1]
      OBVIOUS
    <3>2. request[r].node + 1 \in Nat \ {0}
      BY <1>0 DEF Requested
    <3>3. q \in Requested /\ q.at # "waits"
      BY <1>0, <3>1, <3>2 DEF Requested
    <3> QED
      BY <2>3, <3>1, <3>3 DEF Llm!SkipOpen, Llm!Onwards
  <2>4. CASE Llm!Exhausted(r)
    <3>1. PICK q : q = [request[r] EXCEPT !.at = "exhausted"]
      OBVIOUS
    <3>2. q \in Requested /\ q.at # "waits"
      BY <1>0, <3>1 DEF Requested
    <3> QED
      BY <2>4, <3>1, <3>2 DEF Llm!Exhausted
  <2> QED
    BY <2>1, <2>2, <2>3, <2>4
<1>2. UNCHANGED <<time, breaker, results>>
  BY DEF Llm!RouteRequest, Llm!StreamCut, Llm!SkipOpen, Llm!Exhausted
<1>3. /\ request' \in [Requests -> Requested]
      /\ \A x \in Requests : request'[x].at = "waits" => Llm!Provider(x)' \in Providers
  BY <1>0, <1>1, RequestMoves DEF Requested
<1>4. \A p \in Providers : Counts(breaker[p], results[p], time)'
  BY <1>2 DEF RouterInv, Counts, Latest, Below, Full
<1>5. RouterInv'
  BY <1>0, <1>2, <1>3, <1>4 DEF RouterInv, RouterTypes, Requested
<1>6. request'[r] = q /\ \A x \in Requests : x # r => request'[x] = request[x]
  BY <1>0, <1>1
<1>7. \A x \in Requests : ~ Llm!Sent(x)
  BY <1>1, <1>6 DEF Llm!Sent
<1> QED
  BY <1>5, <1>7

\* A provider is asked whose breaker is closed, or has rested.
LEMMA CompleteStep ==
    ASSUME Llm!RouterAssumption, RouterInv, NEW r \in Requests, Llm!Complete(r)
    PROVE  /\ RouterInv'
           /\ \A x \in Requests : Llm!Sent(x) => ~ Llm!KeepsFailing(Llm!Provider(x))
<1>0. /\ RouterTypes /\ request[r] \in Requested /\ request \in [Requests -> Requested]
      /\ \A x \in Requests : request[x].at = "waits" => Llm!Provider(x) \in Providers
      /\ \A x \in Providers : Counts(breaker[x], results[x], time)
      /\ time \in Nat
  BY DEF RouterInv, RouterTypes, Requested
<1>1. PICK p \in Providers : p = Llm!Provider(r)
  BY <1>0, InChain DEF Llm!Complete
<1>2. PICK q : q = [request[r] EXCEPT !.at = "waits"]
  OBVIOUS
<1>3. /\ q \in Requested /\ q.chain[q.node] = p /\ request' = [request EXCEPT ![r] = q]
      /\ ~ Llm!Open(p) /\ breaker' = Llm!Asked(p) /\ UNCHANGED <<time, results>>
  BY <1>0, <1>1, <1>2 DEF Llm!Complete, Requested, Llm!Provider
<1>4. /\ request' \in [Requests -> Requested]
      /\ \A x \in Requests : request'[x].at = "waits" => Llm!Provider(x)' \in Providers
  BY <1>0, <1>1, <1>3, RequestMoves DEF Requested
<1>5. results' = [results EXCEPT ![p] = results[p]] /\ results[p] \in Results /\ breaker[p] \in Breakers
  BY <1>0, <1>3 DEF RouterTypes
<1>6. PICK c \in Breakers : breaker' = [breaker EXCEPT ![p] = c] /\ Counts(c, results[p], time)
  <2>1. CASE breaker[p].failures >= Threshold
    <3>1. PICK c : c = [breaker[p] EXCEPT !.failures = Threshold - 1]
      OBVIOUS
    <3>2. Threshold - 1 \in Nat
      BY DEF Llm!RouterAssumption
    <3>3. c \in Breakers /\ c.failures = Threshold - 1 /\ c.last = breaker[p].last
      BY <1>5, <3>1, <3>2 DEF Breakers
    <3>4. ~ (time - breaker[p].last <= Recovery)
      BY <1>3, <2>1 DEF Llm!Open
    <3>5. Counts(c, results[p], time)
      BY <1>0, <1>5, <2>1, <3>3, <3>4, CountsAsked
    <3>6. breaker' = [breaker EXCEPT ![p] = c]
      BY <1>3, <2>1, <3>1 DEF Llm!Asked
    <3> QED
      BY <3>3, <3>5, <3>6
  <2>2. CASE ~ (breaker[p].failures >= Threshold)
    <3>1. breaker' = breaker
      BY <1>3, <2>2 DEF Llm!Asked
    <3>2. breaker' = [breaker EXCEPT ![p] = breaker[p]]
      BY <1>0, <3>1 DEF RouterTypes
    <3> QED
      BY <1>0, <1>5, <3>2
  <2> QED
    BY <2>1, <2>2
<1>7. /\ breaker' \in [Providers -> Breakers] /\ results' \in [Providers -> Results]
      /\ \A x \in Providers : Counts(breaker[x], results[x], time)'
  BY <1>0, <1>3, <1>5, <1>6, BreakerMoves
<1>8. RouterInv'
  BY <1>0, <1>3, <1>4, <1>7 DEF RouterInv, RouterTypes, Requested
<1>9. \A x \in Requests : Llm!Sent(x) => ~ Llm!KeepsFailing(Llm!Provider(x))
  <2>1. \A x \in Requests : x # r => request'[x] = request[x]
    BY <1>0, <1>3
  <2>2. \A x \in Requests : Llm!Sent(x) => x = r
    BY <2>1 DEF Llm!Sent
  <2>3. ~ Llm!KeepsFailing(p)
    BY <1>3, OpenWhenFailing
  <2> QED
    BY <1>1, <2>2, <2>3
<1> QED
  BY <1>8, <1>9

\* The result of a call is recorded, however late.
LEMMA ResultStep ==
    ASSUME Llm!RouterAssumption, RouterInv, NEW r \in Requests, Llm!Answered(r) \/ Llm!ProviderFails(r)
    PROVE  /\ RouterInv'
           /\ \A x \in Requests : ~ Llm!Sent(x)
<1>0. /\ RouterTypes /\ request[r] \in Requested /\ request \in [Requests -> Requested]
      /\ \A x \in Requests : request[x].at = "waits" => Llm!Provider(x) \in Providers
      /\ \A x \in Providers : Counts(breaker[x], results[x], time)
      /\ time \in Nat
  BY DEF RouterInv, RouterTypes, Requested
<1>1. PICK p \in Providers : p = Llm!Provider(r)
  BY <1>0 DEF Llm!Answered, Llm!ProviderFails
<1>2. results[p] \in Results /\ breaker[p] \in Breakers
  BY <1>0 DEF RouterTypes
<1>3. PICK q \in Requested : request' = [request EXCEPT ![r] = q] /\ q.at # "waits"
  <2>1. PICK y : y = [request[r] EXCEPT !.at = "answered"]
    OBVIOUS
  <2>2. PICK z : z = [request[r] EXCEPT !.at = "next", !.node = @ + 1]
    OBVIOUS
  <2>3. request[r].node + 1 \in Nat \ {0}
    BY <1>0 DEF Requested
  <2>4. y \in Requested /\ y.at # "waits"
    BY <1>0, <2>1 DEF Requested
  <2>5. z \in Requested /\ z.at # "waits"
    BY <1>0, <2>2, <2>3 DEF Requested
  <2>6. request' = [request EXCEPT ![r] = y] \/ request' = [request EXCEPT ![r] = z]
    <3>1. CASE Llm!Answered(r)
      BY <2>1, <3>1 DEF Llm!Answered
    <3>2. CASE Llm!ProviderFails(r)
      BY <2>1, <2>2, <3>2 DEF Llm!ProviderFails, Llm!Onwards
    <3> QED
      BY <3>1, <3>2
  <2> QED
    BY <2>4, <2>5, <2>6
<1>4. /\ request' \in [Requests -> Requested]
      /\ \A x \in Requests : request'[x].at = "waits" => Llm!Provider(x)' \in Providers
  BY <1>0, <1>3, RequestMoves DEF Requested
<1>5. PICK c \in Breakers, res \in Results :
        /\ breaker' = [breaker EXCEPT ![p] = c] /\ results' = [results EXCEPT ![p] = res]
        /\ Counts(c, res, time)
  <2>1. CASE Llm!Answered(r)
    <3>1. PICK c : c = [breaker[p] EXCEPT !.failures = 0]
      OBVIOUS
    <3>2. c \in Breakers /\ c.failures = 0 /\ breaker' = [breaker EXCEPT ![p] = c]
      BY <1>1, <1>2, <2>1, <3>1 DEF Breakers, Llm!Answered
    <3>3. PICK res : res = Append(results[p], [ok |-> TRUE, time |-> time])
      OBVIOUS
    <3>4. res \in Results /\ results' = [results EXCEPT ![p] = res]
      BY <1>0, <1>1, <1>2, <2>1, <3>3, ResultAdded DEF Llm!Answered, Llm!Recorded
    <3>5. Counts(c, res, time)
      BY <1>0, <1>2, <3>2, <3>3, CountsAnswer
    <3> QED
      BY <3>2, <3>4, <3>5
  <2>2. CASE Llm!ProviderFails(r)
    <3>1. PICK c : c = [failures |-> breaker[p].failures + 1, last |-> time]
      OBVIOUS
    <3>2. c \in Breakers /\ c.failures = breaker[p].failures + 1 /\ c.last = time
      BY <1>0, <1>2, <3>1 DEF Breakers
    <3>6. breaker' = [breaker EXCEPT ![p] = c]
      BY <1>1, <2>2, <3>1 DEF Llm!ProviderFails
    <3>3. PICK res : res = Append(results[p], [ok |-> FALSE, time |-> time])
      OBVIOUS
    <3>4. res \in Results /\ results' = [results EXCEPT ![p] = res]
      BY <1>0, <1>1, <1>2, <2>2, <3>3, ResultAdded DEF Llm!ProviderFails, Llm!Recorded
    <3>5. Counts(c, res, time)
      BY <1>0, <1>2, <3>2, <3>3, CountsFailure
    <3> QED
      BY <3>2, <3>4, <3>5, <3>6
  <2> QED
    BY <2>1, <2>2
<1>6. time' = time
  BY DEF Llm!Answered, Llm!ProviderFails
<1>7. /\ breaker' \in [Providers -> Breakers] /\ results' \in [Providers -> Results]
      /\ \A x \in Providers : Counts(breaker[x], results[x], time)'
  BY <1>0, <1>5, <1>6, BreakerMoves
<1>8. RouterInv'
  BY <1>0, <1>4, <1>6, <1>7 DEF RouterInv, RouterTypes, Requested
<1>9. request'[r] = q /\ \A x \in Requests : x # r => request'[x] = request[x]
  BY <1>0, <1>3
<1>10. \A x \in Requests : ~ Llm!Sent(x)
  BY <1>3, <1>9 DEF Llm!Sent
<1> QED
  BY <1>8, <1>10

LEMMA TickStep ==
    ASSUME Llm!RouterAssumption, RouterInv, Llm!Tick
    PROVE  /\ RouterInv'
           /\ \A x \in Requests : ~ Llm!Sent(x)
<1>1. RouterTypes' /\ time' = time + 1 /\ UNCHANGED <<breaker, request, results>>
  BY DEF RouterInv, RouterTypes, Llm!Tick
<1>2. ASSUME NEW p \in Providers PROVE Counts(breaker[p], results[p], time + 1)
  <2>1. breaker[p] \in Breakers /\ results[p] \in Results /\ time \in Nat /\ Counts(breaker[p], results[p], time)
    BY DEF RouterInv, RouterTypes
  <2> QED
    BY <2>1, CountsTick
<1>3. \A p \in Providers : Counts(breaker[p], results[p], time)'
  BY <1>1, <1>2 DEF Counts, Latest, Below, Full
<1>4. \A r \in Requests : request'[r].at = "waits" => Llm!Provider(r)' \in Providers
  BY <1>1 DEF RouterInv, Llm!Provider
<1> QED
  BY <1>1, <1>3, <1>4 DEF RouterInv, Llm!Sent

\* A provider whose last Threshold results were failures, the latest within the
\* recovery time, is sent nothing, whichever requests the results came from
\* (router.py:67-97).
THEOREM FailingIsNotAsked == Llm!RouterAssumption /\ Llm!Spec => Llm!BreakersHold
<1> SUFFICES ASSUME Llm!RouterAssumption PROVE Llm!Spec => Llm!BreakersHold
  OBVIOUS
<1>1. Llm!Init => RouterInv
  BY RouterInit
<1>2. RouterInv /\ [Llm!Next]_Llm!llmVars => RouterInv'
  <2>1. ASSUME RouterInv, Llm!Next PROVE RouterInv'
    BY <2>1, TickStep, RequestStep, CompleteStep, ResultStep DEF Llm!Next
  <2>2. ASSUME RouterInv, UNCHANGED Llm!llmVars PROVE RouterInv'
    BY <2>2 DEF RouterInv, RouterTypes, Counts, Latest, Below, Full, Llm!llmVars, Llm!Provider
  <2> QED
    BY <2>1, <2>2
<1>3. RouterInv /\ [Llm!Next]_Llm!llmVars => [\A r \in Requests : Llm!Sent(r) => ~Llm!KeepsFailing(Llm!Provider(r))]_Llm!llmVars
  BY TickStep, RequestStep, CompleteStep, ResultStep DEF Llm!Next
<1> QED
  BY <1>1, <1>2, <1>3, PTL DEF Llm!Spec, Llm!BreakersHold

-----------------------------------------------------------------------------
(* An issue and the settings of a tenant, written by several at a time     *)
(* (ProjectBoard).                                                         *)


Notes == [notes : Nat, told : {"none", "done", "blocked", "in_progress"}]
Outcomes == {"none", "done", "blocked", "in_progress"}
AtWork == {d \in [at : {"new", "read", "running", "finishing", "ended", "raised"}, copy : Notes, result : Outcomes] :
             d.at = "finishing" => d.result # "none"}
Issues == [is : {"absent", "live", "deleted"}, meta : Notes,
           status : PatchStatuses \cup {"backlog", "in_progress", "done", "blocked"}]

\* What a status that no client has set may stand for: a dispatch is under way,
\* has raised or has come to it; done and blocked stand for one that has ended so.
Explained(i, ds, p) ==
    i.is = "live" /\ i.status \notin p.set =>
        /\ i.status \in {"done", "blocked"} => \E d \in Dispatches : ds[d].at = "ended" /\ ds[d].result = i.status
        /\ \E d \in Dispatches :
             ds[d].at \in {"read", "running", "finishing", "raised"} \/ ds[d].result = i.status

\* The metadata, and every copy that will be written, lack a patch only if it
\* came while a dispatch held an older copy.
Noted(i, ds, p) ==
    /\ i.meta.notes # p.count => raced
    /\ \A d \in Dispatches : ds[d].at \in {"read", "running", "finishing"} /\ ds[d].copy.notes # p.count => raced

IssueInv ==
    /\ issue \in Issues /\ dispatch \in [Dispatches -> AtWork]
    /\ patches \in [count : Nat, set : SUBSET PatchStatuses] /\ raced \in BOOLEAN
    /\ Explained(issue, dispatch, patches)
    /\ Noted(issue, dispatch, patches)

Writes == [route : {"settings", "profile", "integrations"}, key : Seq(STRING), json : BOOLEAN]

\* A key of a request that has begun is still to be written, or holds the value
\* of a request that had not ended before.
WrittenSince(w) ==
    \A i \in DOMAIN WritesOf[w] :
        \/ \E j \in DOMAIN writer[w].left : writer[w].left[j] = WritesOf[w][i]
        \/ \E r \in settings : r.key = WritesOf[w][i].key /\ r.by \notin writer[w].before

SettingsInv ==
    /\ writer \in [Writers -> [at : {"new", "writing", "ended"}, left : Seq(Writes), before : SUBSET Writers]]
    /\ \A r \in settings : r.by \in Writers
    /\ \A w \in Writers, u \in Writers : u \in writer[w].before => writer[u].at = "ended"
    /\ \A w \in Writers : writer[w].at = "new" => writer[w].left = WritesOf[w]
    /\ \A w \in Writers : writer[w].at # "new" => WrittenSince(w)
    /\ \A w \in Writers : \A j \in DOMAIN writer[w].left :
         \E i \in DOMAIN WritesOf[w] : writer[w].left[j] = WritesOf[w][i]
    /\ \A r \in settings : r.key[1] = "integrations" /\ ~ r.json => Board!Request(r.by) = "settings"

LEMMA BoardInit == Board!BoardAssumption /\ Board!Init => IssueInv /\ SettingsInv
<1> SUFFICES ASSUME Board!BoardAssumption, Board!Init PROVE IssueInv /\ SettingsInv
  OBVIOUS
<1>1. IssueInv
  <2>1. Board!NoMetadata \in Notes /\ Board!NoMetadata.notes = 0
    BY DEF Board!NoMetadata, Notes
  <2>2. issue \in Issues /\ dispatch \in [Dispatches -> AtWork]
    BY <2>1 DEF Board!Init, Issues, AtWork, Outcomes
  <2> QED
    BY <2>1, <2>2 DEF Board!Init, IssueInv, Explained, Noted
<1>2. SettingsInv
  BY DEF Board!Init, SettingsInv, Board!BoardAssumption, Writes
<1> QED
  BY <1>1, <1>2

\* A dispatch moves to q, and has not been holding an older copy unnoticed.
LEMMA DispatchMoves ==
    ASSUME IssueInv, NEW d \in Dispatches, NEW q \in AtWork, dispatch' = [dispatch EXCEPT ![d] = q],
           NEW i \in Issues, issue' = i, UNCHANGED <<patches, raced>>,
           Explained(i, dispatch', patches), i.meta.notes # patches.count => raced,
           q.at \in {"read", "running", "finishing"} /\ q.copy.notes # patches.count => raced
    PROVE  IssueInv'
<1>1. /\ dispatch' \in [Dispatches -> AtWork] /\ dispatch'[d] = q
      /\ \A x \in Dispatches : x # d => dispatch'[x] = dispatch[x]
  BY DEF IssueInv
<1>2. Noted(issue, dispatch, patches)'
  BY <1>1 DEF IssueInv, Noted
<1>3. Explained(issue, dispatch, patches)'
  BY DEF Explained
<1> QED
  BY <1>1, <1>2, <1>3 DEF IssueInv

LEMMA IssueStep ==
    ASSUME Board!BoardAssumption, IssueInv, Board!IssuesNext
    PROVE  IssueInv'
<1>0. /\ issue \in Issues /\ dispatch \in [Dispatches -> AtWork]
      /\ patches \in [count : Nat, set : SUBSET PatchStatuses] /\ raced \in BOOLEAN
      /\ Explained(issue, dispatch, patches) /\ Noted(issue, dispatch, patches)
  BY DEF IssueInv
<1>1. CASE Board!CreateIssue
  <2>1. PICK s \in PatchStatuses : /\ issue' = [issue EXCEPT !.is = "live", !.status = s]
                                   /\ patches' = [patches EXCEPT !.set = @ \cup {s}]
    BY <1>1 DEF Board!CreateIssue
  <2>2. UNCHANGED <<dispatch, raced>>
    BY <1>1 DEF Board!CreateIssue
  <2>3. /\ issue' \in Issues /\ issue'.status = s /\ issue'.meta = issue.meta
        /\ patches' \in [count : Nat, set : SUBSET PatchStatuses]
        /\ s \in patches'.set /\ patches'.count = patches.count
    BY <1>0, <2>1 DEF Issues
  <2> QED
    BY <1>0, <2>2, <2>3 DEF IssueInv, Explained, Noted
<1>2. CASE Board!UpdateIssue
  <2>1. PICK s \in PatchStatuses :
          /\ issue' = [issue EXCEPT !.status = s, !.meta = [issue.meta EXCEPT !.notes = patches.count + 1]]
          /\ patches' = [count |-> patches.count + 1, set |-> patches.set \cup {s}]
    BY <1>2 DEF Board!UpdateIssue, Board!Updated
  <2>2. UNCHANGED dispatch /\ raced' = (raced \/ \E d \in Dispatches : Board!HoldsCopy(d))
    BY <1>2 DEF Board!UpdateIssue
  <2>3. patches.count + 1 \in Nat
    BY <1>0
  <2>4. [issue.meta EXCEPT !.notes = patches.count + 1] \in Notes
    BY <1>0, <2>3 DEF Issues, Notes
  <2>5. /\ issue' \in Issues /\ issue'.status = s
        /\ issue'.meta.notes = patches.count + 1
    BY <1>0, <2>1, <2>4 DEF Issues, Notes
  <2>6. /\ patches' \in [count : Nat, set : SUBSET PatchStatuses]
        /\ s \in patches'.set /\ patches'.count = patches.count + 1
    BY <1>0, <2>1, <2>3
  <2>7. Noted(issue, dispatch, patches)'
    BY <2>2, <2>5, <2>6 DEF Noted, Board!HoldsCopy
  <2>8. raced' \in BOOLEAN
    BY <2>2
  <2> QED
    BY <1>0, <2>2, <2>5, <2>6, <2>7, <2>8 DEF IssueInv, Explained
<1>3. CASE Board!DeleteIssue
  <2>1. issue' \in Issues /\ issue'.is # "live" /\ issue'.meta = issue.meta /\ UNCHANGED <<dispatch, patches, raced>>
    BY <1>0, <1>3 DEF Board!DeleteIssue, Issues
  <2> QED
    BY <1>0, <2>1 DEF IssueInv, Explained, Noted
<1>4. ASSUME NEW d \in Dispatches, Board!Read(d) PROVE IssueInv'
  <2>1. CASE dispatch' = [dispatch EXCEPT ![d].at = "read", ![d].copy = issue.meta]
    <3>1. PICK q : q = [dispatch[d] EXCEPT !.at = "read", !.copy = issue.meta]
      OBVIOUS
    <3>2. /\ q \in AtWork /\ q.at = "read" /\ q.copy = issue.meta /\ q.result = dispatch[d].result
          /\ dispatch' = [dispatch EXCEPT ![d] = q]
      BY <1>0, <2>1, <3>1 DEF AtWork, Issues
    <3>3. Explained(issue, dispatch', patches)
      BY <1>0, <1>4, <3>2 DEF Explained, Board!Read
    <3> QED
      BY <1>0, <1>4, <3>2, <3>3, DispatchMoves DEF Board!Read, Noted
  <2>2. CASE dispatch' = [dispatch EXCEPT ![d].at = "ended"]
    <3>1. PICK q : q = [dispatch[d] EXCEPT !.at = "ended"]
      OBVIOUS
    <3>2. /\ q \in AtWork /\ q.at = "ended" /\ q.result = dispatch[d].result
          /\ dispatch' = [dispatch EXCEPT ![d] = q]
      BY <1>0, <2>2, <3>1 DEF AtWork
    <3>3. Explained(issue, dispatch', patches)
      BY <1>0, <1>4, <3>2 DEF Explained, Board!Read
    <3> QED
      BY <1>0, <1>4, <3>2, <3>3, DispatchMoves DEF Board!Read, Noted
  <2> QED
    BY <1>4, <2>1, <2>2 DEF Board!Read
<1>5. ASSUME NEW d \in Dispatches, Board!Start(d) PROVE IssueInv'
  <2>1. PICK q : q = [dispatch[d] EXCEPT !.at = "running"]
    OBVIOUS
  <2>2. /\ q \in AtWork /\ q.at = "running" /\ q.copy = dispatch[d].copy
        /\ dispatch' = [dispatch EXCEPT ![d] = q] /\ dispatch'[d] = q
        /\ dispatch[d].at = "read" /\ dispatch[d].copy \in Notes
    BY <1>0, <1>5, <2>1 DEF AtWork, Board!Start
  <2>3. PICK i : i = Board!Updated("in_progress", dispatch[d].copy)
    OBVIOUS
  <2>4. i \in Issues /\ (i.meta = issue.meta \/ i.meta = dispatch[d].copy) /\ (i.is = "live" => i.status = "in_progress")
    BY <1>0, <2>2, <2>3 DEF Board!Updated, Issues
  <2>5. Explained(i, dispatch', patches)
    BY <2>2, <2>4 DEF Explained
  <2>6. i.meta.notes # patches.count => raced
    BY <1>0, <2>2, <2>4 DEF Noted
  <2> QED
    BY <1>0, <1>5, <2>2, <2>3, <2>4, <2>5, <2>6, DispatchMoves DEF Board!Start, Noted
<1>6. ASSUME NEW d \in Dispatches, Board!EventsCollected(d) PROVE IssueInv'
  <2>1. PICK x \in {"done", "blocked", "in_progress"} :
          dispatch' = [dispatch EXCEPT ![d].at = "finishing", ![d].result = x]
    BY <1>6 DEF Board!EventsCollected, Board!StatusFromEvents
  <2>2. PICK q : q = [dispatch[d] EXCEPT !.at = "finishing", !.result = x]
    OBVIOUS
  <2>3. /\ q \in AtWork /\ q.at = "finishing" /\ q.copy = dispatch[d].copy
        /\ dispatch' = [dispatch EXCEPT ![d] = q] /\ dispatch'[d] = q
        /\ \A y \in Dispatches : y # d => dispatch'[y] = dispatch[y]
        /\ dispatch[d].at = "running"
    BY <1>0, <1>6, <2>1, <2>2 DEF AtWork, Outcomes, Board!EventsCollected
  <2>4. Explained(issue, dispatch', patches)
    BY <1>0, <2>3 DEF Explained
  <2> QED
    BY <1>0, <1>6, <2>3, <2>4, DispatchMoves DEF Board!EventsCollected, Noted
<1>7. ASSUME NEW d \in Dispatches, Board!Raises(d) PROVE IssueInv'
  <2>1. PICK q : q = [dispatch[d] EXCEPT !.at = "raised"]
    OBVIOUS
  <2>2. /\ q \in AtWork /\ q.at = "raised"
        /\ dispatch' = [dispatch EXCEPT ![d] = q] /\ dispatch'[d] = q
        /\ \A y \in Dispatches : y # d => dispatch'[y] = dispatch[y]
        /\ dispatch[d].at = "running"
    BY <1>0, <1>7, <2>1 DEF AtWork, Board!Raises
  <2>3. Explained(issue, dispatch', patches)
    BY <1>0, <2>2 DEF Explained
  <2> QED
    BY <1>0, <1>7, <2>2, <2>3, DispatchMoves DEF Board!Raises, Noted
<1>8. ASSUME NEW d \in Dispatches, Board!Complete(d) PROVE IssueInv'
  <2>1. PICK q : q = [dispatch[d] EXCEPT !.at = "ended"]
    OBVIOUS
  <2>2. /\ q \in AtWork /\ q.at = "ended" /\ q.result = dispatch[d].result
        /\ dispatch' = [dispatch EXCEPT ![d] = q] /\ dispatch'[d] = q
        /\ \A y \in Dispatches : y # d => dispatch'[y] = dispatch[y]
        /\ dispatch[d].at = "finishing"
        /\ dispatch[d].copy \in Notes /\ dispatch[d].result \in Outcomes \ {"none"}
    BY <1>0, <1>8, <2>1 DEF AtWork, Board!Complete
  <2>3. PICK m : m = [dispatch[d].copy EXCEPT !.told = dispatch[d].result]
    OBVIOUS
  <2>4. m \in Notes /\ m.notes = dispatch[d].copy.notes
    BY <2>2, <2>3 DEF Notes, Outcomes
  <2>5. PICK i : i = Board!Updated(dispatch[d].result, m)
    OBVIOUS
  <2>6. /\ i \in Issues /\ (i.meta = issue.meta \/ i.meta = m)
        /\ i.is = "live" => i.status = dispatch[d].result
    BY <1>0, <2>2, <2>4, <2>5 DEF Board!Updated, Issues, Outcomes
  <2>7. Explained(i, dispatch', patches)
    BY <2>2, <2>6 DEF Explained
  <2>8. i.meta.notes # patches.count => raced
    BY <1>0, <2>2, <2>4, <2>6 DEF Noted
  <2>9. issue' = i /\ UNCHANGED <<patches, raced>>
    BY <1>8, <2>3, <2>5 DEF Board!Complete, Board!Finish
  <2> QED
    BY <1>0, <2>2, <2>6, <2>7, <2>8, <2>9, DispatchMoves DEF Noted
<1> QED
  BY <1>1, <1>2, <1>3, <1>4, <1>5, <1>6, <1>7, <1>8 DEF Board!IssuesNext

\* A request reads who has ended, writes a key, or ends.
LEMMA SettingsStep ==
    ASSUME Board!BoardAssumption, SettingsInv, Board!SettingsNext
    PROVE  SettingsInv'
<1> DEFINE Writing == [at : {"new", "writing", "ended"}, left : Seq(Writes), before : SUBSET Writers]
<1>0. /\ writer \in [Writers -> Writing] /\ WritesOf \in [Writers -> Seq(Writes)]
      /\ \A r \in settings : r.by \in Writers
      /\ \A w \in Writers, u \in Writers : u \in writer[w].before => writer[u].at = "ended"
      /\ \A w \in Writers : writer[w].at = "new" => writer[w].left = WritesOf[w]
      /\ \A w \in Writers : writer[w].at # "new" => WrittenSince(w)
      /\ \A w \in Writers : \A j \in DOMAIN writer[w].left :
           \E i \in DOMAIN WritesOf[w] : writer[w].left[j] = WritesOf[w][i]
      /\ \A r \in settings : r.key[1] = "integrations" /\ ~ r.json => Board!Request(r.by) = "settings"
  BY DEF SettingsInv, Board!BoardAssumption, Writes
<1> HIDE DEF Writing
<1>1. ASSUME NEW w \in Writers, Board!BeginWriting(w) PROVE SettingsInv'
  <2>1. PICK q : q = [writer[w] EXCEPT !.at = "writing", !.before = {u \in Writers : writer[u].at = "ended"}]
    OBVIOUS
  <2>2. /\ q \in Writing /\ q.at = "writing" /\ q.left = writer[w].left /\ writer[w].at = "new"
        /\ q.before = {u \in Writers : writer[u].at = "ended"}
        /\ writer' = [writer EXCEPT ![w] = q] /\ settings' = settings
    BY <1>0, <1>1, <2>1 DEF Board!BeginWriting, Writing
  <2>3. /\ writer' \in [Writers -> Writing] /\ writer'[w] = q
        /\ \A u \in Writers : u # w => writer'[u] = writer[u]
    BY <1>0, <2>2
  <2>4. \A u \in Writers, v \in Writers : v \in writer'[u].before => writer'[v].at = "ended"
    BY <1>0, <2>2, <2>3
  <2>5. \A u \in Writers : u # w => WrittenSince(u)' = WrittenSince(u)
    BY <2>2, <2>3 DEF WrittenSince
  <2>6. WrittenSince(w)'
    BY <1>0, <2>2, <2>3 DEF WrittenSince
  <2>7. /\ \A u \in Writers : writer'[u].at = "new" => writer'[u].left = WritesOf[u]
        /\ \A u \in Writers : \A j \in DOMAIN writer'[u].left :
             \E i \in DOMAIN WritesOf[u] : writer'[u].left[j] = WritesOf[u][i]
    BY <1>0, <2>2, <2>3
  <2>8. \A u \in Writers : writer'[u].at # "new" => WrittenSince(u)'
    BY <1>0, <2>3, <2>5, <2>6
  <2> QED
    BY <1>0, <2>2, <2>3, <2>4, <2>7, <2>8 DEF SettingsInv, Writing, Board!Request
<1>2. ASSUME NEW w \in Writers, Board!WritingEnds(w) PROVE SettingsInv'
  <2>1. PICK q : q = [writer[w] EXCEPT !.at = "ended"]
    OBVIOUS
  <2>2. /\ q \in Writing /\ q.at = "ended" /\ q.left = writer[w].left /\ q.before = writer[w].before
        /\ writer[w].at = "writing"
        /\ writer' = [writer EXCEPT ![w] = q] /\ settings' = settings
    BY <1>0, <1>2, <2>1 DEF Board!WritingEnds, Writing
  <2>3. /\ writer' \in [Writers -> Writing] /\ writer'[w] = q
        /\ \A u \in Writers : u # w => writer'[u] = writer[u]
    BY <1>0, <2>2
  <2>4. \A u \in Writers : writer'[u].left = writer[u].left /\ writer'[u].before = writer[u].before
    BY <2>2, <2>3
  <2>5. \A u \in Writers : WrittenSince(u)' = WrittenSince(u)
    BY <2>2, <2>4 DEF WrittenSince
  <2>6. \A u \in Writers : (writer'[u].at = "new" <=> writer[u].at = "new") /\ (writer[u].at = "ended" => writer'[u].at = "ended")
    BY <2>2, <2>3
  <2> QED
    BY <1>0, <2>2, <2>3, <2>4, <2>5, <2>6 DEF SettingsInv, Writing, Board!Request
<1>3. ASSUME NEW w \in Writers, Board!UpsertSetting(w) PROVE SettingsInv'
  <2>0. PICK row : row = Head(writer[w].left)
    OBVIOUS
  <2>1. PICK q : q = [writer[w] EXCEPT !.left = Tail(@)]
    OBVIOUS
  <2>2. /\ writer[w].left \in Seq(Writes) /\ writer[w].left # <<>> /\ writer[w].at = "writing"
        /\ row \in Writes /\ row = writer[w].left[1] /\ 1 \in DOMAIN writer[w].left
    BY <1>0, <1>3, <2>0 DEF Board!UpsertSetting, Writing
  <2>3. /\ Tail(writer[w].left) \in Seq(Writes)
        /\ \A j \in DOMAIN writer[w].left : j # 1 =>
             j - 1 \in DOMAIN Tail(writer[w].left) /\ Tail(writer[w].left)[j - 1] = writer[w].left[j]
        /\ \A j \in DOMAIN Tail(writer[w].left) :
             j + 1 \in DOMAIN writer[w].left /\ Tail(writer[w].left)[j] = writer[w].left[j + 1]
    BY <2>2
  <2>4. /\ q \in Writing /\ q.at = "writing" /\ q.left = Tail(writer[w].left) /\ q.before = writer[w].before
        /\ writer' = [writer EXCEPT ![w] = q]
    BY <1>0, <1>3, <2>1, <2>2, <2>3 DEF Board!UpsertSetting, Writing
  <2>5. /\ writer' \in [Writers -> Writing] /\ writer'[w] = q
        /\ \A u \in Writers : u # w => writer'[u] = writer[u]
    BY <1>0, <2>4
  <2>6. PICK new : new = [key |-> row.key, json |-> row.json, by |-> w]
    OBVIOUS
  <2>7. settings' = {r \in settings : r.key # row.key} \cup {new}
    BY <1>3, <2>0, <2>6 DEF Board!UpsertSetting, Board!Upserted
  <2>8. new.key = row.key /\ new.json = row.json /\ new.by = w
    BY <2>6
  <2>9. \A u \in Writers : w \notin writer[u].before
    BY <1>0, <2>2
  <2>10. ASSUME NEW u \in Writers, writer'[u].at # "new" PROVE WrittenSince(u)'
    <3>1. WrittenSince(u) /\ writer'[u].before = writer[u].before
      BY <1>0, <2>2, <2>4, <2>5, <2>10
    <3>2. ASSUME NEW i \in DOMAIN WritesOf[u]
          PROVE  \/ \E j \in DOMAIN writer'[u].left : writer'[u].left[j] = WritesOf[u][i]
                 \/ \E r \in settings' : r.key = WritesOf[u][i].key /\ r.by \notin writer'[u].before
      <4>1. CASE \E r \in settings : r.key = WritesOf[u][i].key /\ r.by \notin writer[u].before
        BY <2>7, <2>8, <2>9, <3>1, <4>1
      <4>2. CASE \E j \in DOMAIN writer[u].left : writer[u].left[j] = WritesOf[u][i]
        <5>1. CASE u # w
          BY <2>5, <4>2, <5>1
        <5>2. CASE u = w
          <6>1. PICK j \in DOMAIN writer[w].left : writer[w].left[j] = WritesOf[w][i]
            BY <4>2, <5>2
          <6>2. CASE j = 1
            <7>1. new \in settings' /\ new.by \notin writer'[u].before
              BY <2>7, <2>8, <2>9, <3>1
            <7>2. new.key = WritesOf[u][i].key
              BY <2>2, <2>8, <5>2, <6>1, <6>2
            <7> QED
              BY <7>1, <7>2
          <6>3. CASE j # 1
            <7>1. writer'[u].left = Tail(writer[w].left)
              BY <2>4, <2>5, <5>2
            <7>2. PICK m : m = j - 1
              OBVIOUS
            <7>3. m \in DOMAIN writer'[u].left /\ writer'[u].left[m] = WritesOf[u][i]
              BY <2>3, <5>2, <6>1, <6>3, <7>1, <7>2
            <7> QED
              BY <7>3
          <6> QED
            BY <6>2, <6>3
        <5> QED
          BY <5>1, <5>2
      <4> QED
        BY <3>1, <4>1, <4>2 DEF WrittenSince
    <3> QED
      BY <3>2 DEF WrittenSince
  <2>11. \A u \in Writers : \A j \in DOMAIN writer'[u].left :
           \E i \in DOMAIN WritesOf[u] : writer'[u].left[j] = WritesOf[u][i]
    <3>1. ASSUME NEW j \in DOMAIN writer'[w].left PROVE \E i \in DOMAIN WritesOf[w] : writer'[w].left[j] = WritesOf[w][i]
      <4>1. j + 1 \in DOMAIN writer[w].left /\ writer'[w].left[j] = writer[w].left[j + 1]
        BY <2>3, <2>4, <2>5
      <4>2. PICK i \in DOMAIN WritesOf[w] : writer[w].left[j + 1] = WritesOf[w][i]
        BY <1>0, <4>1
      <4> QED
        BY <4>1, <4>2
    <3>2. ASSUME NEW u \in Writers, u # w
          PROVE  \A j \in DOMAIN writer'[u].left : \E i \in DOMAIN WritesOf[u] : writer'[u].left[j] = WritesOf[u][i]
      BY <1>0, <2>5, <3>2
    <3> QED
      BY <3>1, <3>2
  <2>12. new.key[1] = "integrations" /\ ~ new.json => Board!Request(w) = "settings"
    <3>1. PICK i \in DOMAIN WritesOf[w] : row = WritesOf[w][i]
      BY <1>0, <2>2
    <3> QED
      BY <2>8, <3>1, <1>0 DEF Board!BoardAssumption, Board!Request
  <2>13. /\ \A r \in settings' : r.by \in Writers
         /\ \A r \in settings' : r.key[1] = "integrations" /\ ~ r.json => Board!Request(r.by) = "settings"
    BY <1>0, <2>7, <2>8, <2>12
  <2>14. /\ \A u \in Writers, v \in Writers : v \in writer'[u].before => writer'[v].at = "ended"
         /\ \A u \in Writers : writer'[u].at = "new" => writer'[u].left = WritesOf[u]
    BY <1>0, <2>2, <2>4, <2>5
  <2> QED
    BY <2>5, <2>10, <2>11, <2>13, <2>14 DEF SettingsInv, Writing, Board!Request
<1>4. CASE Board!CreateToken \/ Board!RevokeToken
  <2>1. UNCHANGED <<settings, writer>>
    BY <1>4 DEF Board!CreateToken, Board!RevokeToken
  <2> QED
    BY <2>1 DEF SettingsInv, WrittenSince, Board!Request
<1> QED
  BY <1>1, <1>2, <1>3, <1>4 DEF Board!SettingsNext

LEMMA BoardStep ==
    ASSUME Board!BoardAssumption, IssueInv, SettingsInv, [Board!Next]_Board!boardVars
    PROVE  IssueInv' /\ SettingsInv'
<1>1. ASSUME UNCHANGED Board!settingVars PROVE SettingsInv'
  BY <1>1 DEF SettingsInv, WrittenSince, Board!settingVars, Board!Request
<1>2. ASSUME UNCHANGED <<issue, dispatch, patches, raced>> PROVE IssueInv'
  BY <1>2 DEF IssueInv, Explained, Noted
<1>3. CASE Board!RecordsNext
  <2>1. UNCHANGED <<issue, dispatch, patches, raced>>
    BY <1>3 DEF Board!RecordsNext, Board!Records, Board!CreateProject, Board!UpdateProject, Board!DeleteProject,
                Board!CreateEvent, Board!MarkRead, Board!BulkArchive
  <2> QED
    BY <1>1, <1>2, <1>3, <2>1 DEF Board!RecordsNext
<1>4. CASE Board!DispatchNext
  BY <1>1, <1>4, IssueStep DEF Board!DispatchNext
<1>5. CASE Board!SettingsNext
  BY <1>2, <1>5, SettingsStep DEF Board!SettingsNext, Board!itemVars
<1>6. CASE UNCHANGED Board!boardVars
  BY <1>1, <1>2, <1>6 DEF Board!boardVars, Board!itemVars
<1> QED
  BY <1>3, <1>4, <1>5, <1>6 DEF Board!Next

LEMMA BoardInvTells == Board!BoardAssumption /\ IssueInv /\ SettingsInv => Board!StatusTells /\ Board!SettingsTell
<1> SUFFICES ASSUME Board!BoardAssumption, IssueInv, SettingsInv PROVE Board!StatusTells /\ Board!SettingsTell
  OBVIOUS
<1>1. Board!StatusTells
  BY DEF Board!StatusTells, Board!HoldsCopy, IssueInv, Explained, Noted, AtWork
<1>2. ASSUME NEW w \in Writers, writer[w].at = "ended", writer[w].left = <<>>, NEW k \in Board!KeysOf(w)
      PROVE  \E s \in settings : s.key = k /\ s.by \notin writer[w].before
  <2>1. PICK i \in DOMAIN WritesOf[w] : k = WritesOf[w][i].key
    BY DEF Board!KeysOf
  <2> QED
    BY <1>2, <2>1 DEF SettingsInv, WrittenSince
<1>3. ASSUME Board!ListIntegrations = "failed" PROVE \E s \in Board!Shown("integrations") : Board!Request(s.by) = "settings"
  <2>1. PICK s \in Board!Shown("integrations") : ~ s.json
    BY <1>3 DEF Board!ListIntegrations
  <2>2. s \in settings /\ s.key[1] = "integrations"
    BY DEF Board!Shown, Board!Prefix
  <2> QED
    BY <2>1, <2>2 DEF SettingsInv
<1> QED
  BY <1>1, <1>2, <1>3 DEF Board!SettingsTell

\* However many dispatches, patches and requests overlap: a status that no client
\* set is that of a dispatch, metadata is lost only to an older copy, and the
\* settings of a request in full are not an earlier request's
\* (issues_api/router.py:218-255, settings_api/router.py:108-117).
THEOREM BoardTellsTheTruth == Board!BoardAssumption /\ Board!Spec => [](Board!StatusTells /\ Board!SettingsTell)
<1> SUFFICES ASSUME Board!BoardAssumption PROVE Board!Spec => [](Board!StatusTells /\ Board!SettingsTell)
  OBVIOUS
<1>1. Board!Init => IssueInv /\ SettingsInv
  BY BoardInit
<1>2. IssueInv /\ SettingsInv /\ [Board!Next]_Board!boardVars => (IssueInv /\ SettingsInv)'
  BY BoardStep
<1>3. IssueInv /\ SettingsInv => Board!StatusTells /\ Board!SettingsTell
  BY BoardInvTells
<1> QED
  BY <1>1, <1>2, <1>3, PTL DEF Board!Spec

\* What is deleted, archived or revoked stays so, whatever dispatch or request
\* still runs (issues_api/repository.py, projects_api/repository.py,
\* inbox_api/repository.py).
THEOREM DeletedStays == Board!Spec => Board!FinalRows
<1>1. [Board!Next]_Board!boardVars =>
        [/\ board = "deleted" => UNCHANGED board
         /\ event = "archived" => UNCHANGED event
         /\ issue.is = "deleted" => UNCHANGED issue
         /\ token = "revoked" => UNCHANGED token]_Board!boardVars
  <2> SUFFICES ASSUME Board!Next
               PROVE  /\ board = "deleted" => UNCHANGED board
                      /\ event = "archived" => UNCHANGED event
                      /\ issue.is = "deleted" => UNCHANGED issue
                      /\ token = "revoked" => UNCHANGED token
    OBVIOUS
  <2>1. CASE Board!RecordsNext
    BY <2>1 DEF Board!RecordsNext, Board!settingVars, Board!Records, Board!CreateProject, Board!UpdateProject, Board!DeleteProject,
                Board!CreateEvent, Board!MarkRead, Board!Readable, Board!BulkArchive
  <2>2. CASE Board!DispatchNext
    BY <2>2 DEF Board!DispatchNext, Board!settingVars, Board!IssuesNext, Board!CreateIssue, Board!UpdateIssue, Board!DeleteIssue,
                Board!Read, Board!Start, Board!EventsCollected, Board!Raises, Board!Complete, Board!Finish, Board!Updated
  <2>3. CASE Board!SettingsNext
    BY <2>3 DEF Board!SettingsNext, Board!itemVars, Board!BeginWriting, Board!UpsertSetting, Board!WritingEnds,
                Board!CreateToken, Board!RevokeToken
  <2> QED
    BY <2>1, <2>2, <2>3 DEF Board!Next
<1> QED
  BY <1>1, PTL DEF Board!Spec, Board!FinalRows

-----------------------------------------------------------------------------
(* Rows of the task registry (TaskRegistry).                               *)


Links == HmIds \cup {Unlinked}
RegistryRows == [status : Registry!Statuses \cup {"none"}, link : Links, hm : {"none", "queued", "done"}]
Entries == [status : Registry!Statuses, link : Links]

\* A row that the ledger has listed, linked to what it has been linked to, with
\* a state that one of those rows of HerdMaster has had, or a client patched.
Shown(t, state) == state # "none" => state \in patched[t] \/ Registry!Reached(t, state)
Grounded(t, row) ==
    /\ row \in RegistryRows
    /\ row # Registry!NoRow => row.status # "none" /\ row.link \in linked[t]
    /\ Shown(t, row.hm)

\* What a request holds is as grounded as the rows it was read from.
Listed(copy) == copy \in [RTasks -> RegistryRows] /\ \A t \in RTasks : Grounded(t, copy[t])
Linkable(c) == \A i \in 1 .. Len(c.todo) : c.copy[c.todo[i]].link # Unlinked
RequestOK(c) ==
    /\ c.at \in {"idle", "file", "sync", "get", "upsert"}
    /\ c.todo \in Seq(RTasks)
    /\ c.at = "idle" => c = Registry!Idle
    /\ c.at = "file" => c.copy \in [RTasks -> Entries]
    /\ c.at = "sync" => Listed(c.copy) /\ Linkable(c)
    /\ c.at \in {"get", "upsert"} =>
         /\ c.task \in RTasks
         /\ c.set \in RegistryRows /\ Shown(c.task, c.set.hm)
         /\ c.copy = <<>> \/ (Listed(c.copy) /\ Linkable(c))
    /\ c.at = "upsert" => Grounded(c.task, c.row) /\ c.row # Registry!NoRow

RegistryTypes ==
    /\ ot \in [RTasks -> RegistryRows]
    /\ hmtask \in [HmIds -> 1 .. 3]
    /\ linked \in [RTasks -> SUBSET Links]
    /\ patched \in [RTasks -> SUBSET {"none", "queued", "done"}]
    /\ thread = [w \in Threads |-> thread[w]]
    /\ \A w \in Threads :
         thread[w] = [at |-> thread[w].at, task |-> thread[w].task, todo |-> thread[w].todo,
                      copy |-> thread[w].copy, set |-> thread[w].set, row |-> thread[w].row]
RegistryInv ==
    /\ RegistryTypes
    /\ \A t \in RTasks : Grounded(t, ot[t])
    /\ \A w \in Threads : RequestOK(thread[w])

-----------------------------------------------------------------------------
LEMMA SetToSeqListed ==
    ASSUME NEW D, IsFiniteSet(D)
    PROVE  Registry!SetToSeq(D) \in Seq(D)
<1>1. Registry!Cardinality(D) = Cardinality(D)
  BY DEF Registry!Cardinality, Cardinality
<1>2. PICK n : n = Cardinality(D)
  OBVIOUS
<1>3. n \in Nat /\ ExistsBijection(1 .. n, D)
  BY <1>2, FS_CardinalityType
<1>4. PICK f : f \in Bijection(1 .. n, D)
  BY <1>3 DEF ExistsBijection
<1>5. f \in [1 .. n -> D] /\ Registry!IsInjective(f)
  BY <1>4 DEF Bijection, Injection, IsInjective, Registry!IsInjective
<1>6. Registry!SetToSeq(D) \in [1 .. n -> D]
  BY <1>1, <1>2, <1>5 DEF Registry!SetToSeq
<1> QED
  BY <1>3, <1>6

\* What was grounded stays so: rows of HerdMaster only advance, and what a task
\* was linked to is remembered.
LEMMA GroundedStays ==
    ASSUME RegistryTypes, RegistryTypes',
           \A h \in HmIds : hmtask[h] <= hmtask'[h],
           \A t \in RTasks : linked[t] \subseteq linked'[t] /\ patched[t] \subseteq patched'[t]
    PROVE  /\ \A t \in RTasks : \A s : Shown(t, s) => Shown(t, s)'
           /\ \A t \in RTasks : \A row : Grounded(t, row) => Grounded(t, row)'
           /\ \A c : RequestOK(c) => RequestOK(c)'
<1>1. ASSUME NEW t \in RTasks, NEW s, Shown(t, s) PROVE Shown(t, s)'
  <2> SUFFICES ASSUME s # "none", s \notin patched[t] PROVE Shown(t, s)'
    BY DEF Shown
  <2>1. PICK h \in linked[t] \cap HmIds : \E i \in 1 .. hmtask[h] : Registry!HmStates[i] = s
    BY <1>1 DEF Shown, Registry!Reached
  <2>2. PICK i \in 1 .. hmtask[h] : Registry!HmStates[i] = s
    BY <2>1
  <2>3. hmtask[h] \in Nat /\ hmtask'[h] \in Nat /\ hmtask[h] <= hmtask'[h]
    BY <2>1 DEF RegistryTypes
  <2>4. h \in linked'[t] \cap HmIds /\ i \in 1 .. hmtask'[h]
    BY <2>1, <2>2, <2>3
  <2> QED
    BY <2>2, <2>4 DEF Shown, Registry!Reached
<1>2. ASSUME NEW t \in RTasks, NEW row, Grounded(t, row) PROVE Grounded(t, row)'
  <2>1. Shown(t, row.hm)'
    BY <1>1, <1>2 DEF Grounded
  <2> QED
    BY <1>2, <2>1 DEF Grounded
<1>3. ASSUME NEW copy, Listed(copy) PROVE Listed(copy)'
  BY <1>2, <1>3 DEF Listed
<1>4. ASSUME NEW c, RequestOK(c) PROVE RequestOK(c)'
  BY <1>1, <1>2, <1>3, <1>4 DEF RequestOK, Linkable
<1> QED
  BY <1>1, <1>2, <1>4

LEMMA RegistryInit == Registry!Init => RegistryInv
<1> SUFFICES ASSUME Registry!Init PROVE RegistryInv
  OBVIOUS
<1>1. Registry!NoRow \in RegistryRows /\ Registry!NoRow.hm = "none"
  BY DEF Registry!NoRow, RegistryRows, Links
<1>2. RegistryTypes
  BY <1>1 DEF Registry!Init, Registry!Idle, RegistryTypes
<1>3. \A t \in RTasks : ot[t] = Registry!NoRow
  BY DEF Registry!Init
<1>4. \A t \in RTasks : Grounded(t, ot[t])
  BY <1>1, <1>3 DEF Grounded, Shown
<1>5. RequestOK(Registry!Idle)
  BY DEF RequestOK, Registry!Idle
<1>6. \A w \in Threads : thread[w] = Registry!Idle
  BY DEF Registry!Init
<1> QED
  BY <1>2, <1>4, <1>5, <1>6 DEF RegistryInv

\* A step of one thread, which may write a row that is grounded from then on.
LEMMA RegistryKept ==
    ASSUME RegistryInv, RegistryTypes',
           \A h \in HmIds : hmtask[h] <= hmtask'[h],
           \A t \in RTasks : linked[t] \subseteq linked'[t] /\ patched[t] \subseteq patched'[t],
           \A t \in RTasks : ot'[t] = ot[t] \/ Grounded(t, ot[t])',
           \A v \in Threads : \E d : thread'[v] = d /\ RequestOK(d)
    PROVE  RegistryInv'
<1>1. /\ \A t \in RTasks : \A row : Grounded(t, row) => Grounded(t, row)'
      /\ \A d : RequestOK(d) => RequestOK(d)'
  BY GroundedStays DEF RegistryInv
<1>2. \A t \in RTasks : Grounded(t, ot[t])'
  <2> SUFFICES ASSUME NEW t \in RTasks, ot'[t] = ot[t] PROVE Grounded(t, ot[t])'
    OBVIOUS
  <2>1. PICK row : row = ot[t]
    OBVIOUS
  <2>2. Grounded(t, row)' /\ row = ot'[t]
    BY <1>1, <2>1 DEF RegistryInv
  <2> QED
    BY <2>2
<1>3. \A v \in Threads : RequestOK(thread[v])'
  <2> SUFFICES ASSUME NEW v \in Threads PROVE RequestOK(thread[v])'
    OBVIOUS
  <2>1. PICK d : thread'[v] = d /\ RequestOK(d)
    OBVIOUS
  <2>2. RequestOK(d)'
    BY <1>1, <2>1
  <2> QED
    BY <2>1, <2>2
<1> QED
  BY <1>2, <1>3 DEF RegistryInv

ThreadFrame(c) ==
    c = [at |-> c.at, task |-> c.task, todo |-> c.todo, copy |-> c.copy, set |-> c.set, row |-> c.row]

\* A thread moves on to a frame that is as it should be; the rows stay.
LEMMA ThreadMoves ==
    ASSUME RegistryInv, NEW w \in Threads, NEW c, thread' = [thread EXCEPT ![w] = c],
           ThreadFrame(c), RequestOK(c), UNCHANGED <<ot, hmtask, linked, patched>>
    PROVE  RegistryInv'
<1>1. thread'[w] = c /\ \A v \in Threads : v # w => thread'[v] = thread[v]
  BY DEF RegistryInv, RegistryTypes
<1>2. RegistryTypes'
  BY <1>1 DEF RegistryInv, RegistryTypes, ThreadFrame
<1>3. \A h \in HmIds : hmtask[h] <= hmtask'[h]
  BY DEF RegistryInv, RegistryTypes
<1>4. \A v \in Threads : \E d : thread'[v] = d /\ RequestOK(d)
  BY <1>1 DEF RegistryInv
<1> QED
  BY <1>2, <1>3, <1>4, RegistryKept

\* A thread upserts a row of a task, which is linked to what the row says.
LEMMA UpsertStep ==
    ASSUME RegistryInv, NEW w \in Threads, NEW c, thread' = [thread EXCEPT ![w] = c],
           ThreadFrame(c), RequestOK(c), NEW t \in RTasks, NEW row \in RegistryRows,
           row.status # "none", Shown(t, row.hm), Registry!Upsert(t, row), UNCHANGED <<hmtask, patched>>
    PROVE  RegistryInv'
<1>1. thread'[w] = c /\ \A v \in Threads : v # w => thread'[v] = thread[v]
  BY DEF RegistryInv, RegistryTypes
<1>2. /\ ot' = [ot EXCEPT ![t] = row]
      /\ linked' = [linked EXCEPT ![t] = @ \cup {row.link}]
      /\ row.link \in Links
  BY DEF Registry!Upsert, RegistryRows
<1>3. RegistryTypes'
  BY <1>1, <1>2 DEF RegistryInv, RegistryTypes, ThreadFrame
<1>4. \A h \in HmIds : hmtask[h] <= hmtask'[h]
  BY DEF RegistryInv, RegistryTypes
<1>5. \A x \in RTasks : linked[x] \subseteq linked'[x] /\ patched[x] \subseteq patched'[x]
  BY <1>2 DEF RegistryInv, RegistryTypes
<1>6. \A v \in Threads : \E d : thread'[v] = d /\ RequestOK(d)
  BY <1>1 DEF RegistryInv
<1>7. Shown(t, row.hm)'
  BY <1>3, <1>4, <1>5, GroundedStays DEF RegistryInv
<1>8. Grounded(t, row)'
  BY <1>2, <1>7 DEF Grounded, RegistryInv, RegistryTypes
<1>9. ot'[t] = row /\ \A x \in RTasks : x # t => ot'[x] = ot[x]
  BY <1>2 DEF RegistryInv, RegistryTypes
<1>10. \A x \in RTasks : ot'[x] = ot[x] \/ Grounded(x, ot[x])'
  BY <1>8, <1>9
<1> QED
  BY <1>3, <1>4, <1>5, <1>6, <1>10, RegistryKept

LEMMA AdvanceStep == RegistryInv /\ (\E h \in HmIds : Registry!HerdMasterAdvances(h)) => RegistryInv'
<1> SUFFICES ASSUME RegistryInv, NEW h \in HmIds, Registry!HerdMasterAdvances(h) PROVE RegistryInv'
  OBVIOUS
<1>1. /\ hmtask[h] \in 1 .. 3 /\ hmtask[h] < 3
      /\ hmtask' = [hmtask EXCEPT ![h] = @ + 1] /\ UNCHANGED <<ot, thread, linked, patched>>
  BY DEF RegistryInv, RegistryTypes, Registry!HerdMasterAdvances, Registry!HmStates
<1>2. RegistryTypes' /\ \A x \in HmIds : hmtask[x] <= hmtask'[x]
  BY <1>1 DEF RegistryInv, RegistryTypes
<1>3. \A v \in Threads : \E d : thread'[v] = d /\ RequestOK(d)
  BY <1>1 DEF RegistryInv
<1> QED
  BY <1>1, <1>2, <1>3, RegistryKept

\* What is left to do once the first task is taken.
LEMMA TodoRest ==
    ASSUME NEW todo \in Seq(RTasks), todo # <<>>
    PROVE  /\ Head(todo) \in RTasks /\ Head(todo) = todo[1] /\ 1 \in 1 .. Len(todo)
           /\ Tail(todo) \in Seq(RTasks)
           /\ \A i \in 1 .. Len(Tail(todo)) : \E j \in 1 .. Len(todo) : Tail(todo)[i] = todo[j]
<1>1. /\ Head(todo) \in RTasks /\ Tail(todo) \in Seq(RTasks) /\ Len(Tail(todo)) = Len(todo) - 1
      /\ \A i \in 1 .. Len(Tail(todo)) : Tail(todo)[i] = todo[i + 1]
  BY HeadTailProperties
<1>2. Len(todo) \in Nat \ {0}
  BY EmptySeq
<1>3. \A i \in 1 .. Len(Tail(todo)) : i + 1 \in 1 .. Len(todo)
  BY <1>1, <1>2
<1> QED
  BY <1>1, <1>2, <1>3

LEMMA FileSteps ==
    ASSUME Registry!RegistryAssumption, RegistryInv, NEW w \in Threads,
           Registry!ReadFile(w) \/ Registry!FileUpsert(w) \/ Registry!ListRows(w) \/ Registry!SyncEnds(w)
    PROVE  RegistryInv'
<1>0. RequestOK(thread[w]) /\ RegistryTypes /\ IsFiniteSet(RTasks) /\ ThreadFrame(thread[w])
  BY DEF RegistryInv, RegistryTypes, Registry!RegistryAssumption, Registry!IsFiniteSet, IsFiniteSet, ThreadFrame
<1>1. CASE Registry!ReadFile(w)
  <2>1. PICK copy \in [RTasks -> Entries] :
          thread' = [thread EXCEPT ![w].at = "file", ![w].copy = copy, ![w].todo = Registry!SetToSeq(RTasks)]
    BY <1>1 DEF Registry!ReadFile, Entries, Links
  <2>2. PICK c : c = [thread[w] EXCEPT !.at = "file", !.copy = copy, !.todo = Registry!SetToSeq(RTasks)]
    OBVIOUS
  <2>3. thread' = [thread EXCEPT ![w] = c]
    BY <1>0, <2>1, <2>2 DEF RegistryTypes, ThreadFrame
  <2>4. ThreadFrame(c) /\ c.at = "file" /\ c.copy = copy /\ c.todo = Registry!SetToSeq(RTasks)
    BY <1>0, <2>2 DEF ThreadFrame
  <2>5. RequestOK(c)
    BY <1>0, <2>4, SetToSeqListed DEF RequestOK
  <2> QED
    BY <1>1, <2>3, <2>4, <2>5, ThreadMoves DEF Registry!ReadFile
<1>2. CASE Registry!FileUpsert(w)
  <2>1. thread[w].at = "file" /\ thread[w].todo # <<>> /\ thread[w].todo \in Seq(RTasks)
    BY <1>0, <1>2 DEF Registry!FileUpsert, RequestOK
  <2>2. PICK t : t = Head(thread[w].todo)
    OBVIOUS
  <2>3. t \in RTasks /\ Tail(thread[w].todo) \in Seq(RTasks)
    BY <2>1, <2>2, TodoRest
  <2>4. PICK entry : entry = thread[w].copy[t]
    OBVIOUS
  <2>5. entry \in Entries
    BY <1>0, <2>1, <2>3, <2>4 DEF RequestOK
  <2>6. PICK row : row = [status |-> entry.status, link |-> entry.link, hm |-> "none"]
    OBVIOUS
  <2>7. row \in RegistryRows /\ row.status # "none" /\ Shown(t, row.hm)
    BY <2>5, <2>6 DEF RegistryRows, Entries, Shown, Registry!Statuses
  <2>8. Registry!Upsert(t, row)
    BY <1>2, <2>2, <2>4, <2>6 DEF Registry!FileUpsert
  <2>9. PICK c : c = [thread[w] EXCEPT !.todo = Tail(@)]
    OBVIOUS
  <2>10. thread' = [thread EXCEPT ![w] = c]
    BY <1>0, <1>2, <2>9 DEF RegistryTypes, ThreadFrame, Registry!FileUpsert
  <2>11. ThreadFrame(c) /\ c.at = "file" /\ c.copy = thread[w].copy /\ c.todo = Tail(thread[w].todo)
    BY <1>0, <2>1, <2>9 DEF ThreadFrame
  <2>12. RequestOK(c)
    BY <1>0, <2>1, <2>3, <2>11 DEF RequestOK
  <2> QED
    BY <1>2, <2>3, <2>7, <2>8, <2>10, <2>11, <2>12, UpsertStep DEF Registry!FileUpsert
<1>3. CASE Registry!ListRows(w)
  <2>1. PICK D : D = {t \in RTasks : ot[t].link # Unlinked}
    OBVIOUS
  <2>2. Registry!SetToSeq(D) \in Seq(D) /\ D \subseteq RTasks
    BY <1>0, <2>1, FS_Subset, SetToSeqListed
  <2>3. PICK c : c = [thread[w] EXCEPT !.at = "sync", !.copy = ot, !.todo = Registry!SetToSeq(D)]
    OBVIOUS
  <2>4. thread' = [thread EXCEPT ![w] = c]
    BY <1>0, <1>3, <2>1, <2>3 DEF RegistryTypes, ThreadFrame, Registry!ListRows
  <2>5. ThreadFrame(c) /\ c.at = "sync" /\ c.copy = ot /\ c.todo = Registry!SetToSeq(D)
    BY <1>0, <2>3 DEF ThreadFrame
  <2>6. c.todo \in Seq(RTasks) /\ \A i \in 1 .. Len(c.todo) : c.todo[i] \in D
    BY <2>2, <2>5, SeqMonotonic
  <2>7. Listed(c.copy) /\ Linkable(c)
    BY <2>1, <2>5, <2>6 DEF Listed, Linkable, RegistryInv, RegistryTypes
  <2>8. RequestOK(c)
    BY <2>5, <2>6, <2>7 DEF RequestOK
  <2> QED
    BY <1>3, <2>4, <2>5, <2>8, ThreadMoves DEF Registry!ListRows
<1>4. CASE Registry!SyncEnds(w)
  <2>1. ThreadFrame(Registry!Idle) /\ RequestOK(Registry!Idle)
    BY DEF ThreadFrame, RequestOK, Registry!Idle
  <2> QED
    BY <1>4, <2>1, ThreadMoves DEF Registry!SyncEnds
<1> QED
  BY <1>1, <1>2, <1>3, <1>4

\* A state that has been polled is one that a row of HerdMaster, to which the
\* task was linked when the rows were listed, has reached.
LEMMA PollStep ==
    ASSUME RegistryInv, NEW w \in Threads, Registry!Poll(w)
    PROVE  RegistryInv'
<1>0. RequestOK(thread[w]) /\ RegistryTypes /\ ThreadFrame(thread[w])
  BY DEF RegistryInv, RegistryTypes, ThreadFrame
<1>1. /\ thread[w].at = "sync" /\ thread[w].todo # <<>> /\ thread[w].todo \in Seq(RTasks)
      /\ Listed(thread[w].copy) /\ Linkable(thread[w])
  BY <1>0 DEF Registry!Poll, RequestOK
<1>2. PICK t : t = Head(thread[w].todo)
  OBVIOUS
<1>3. PICK rest : rest = Tail(thread[w].todo)
  OBVIOUS
<1>4. /\ t \in RTasks /\ rest \in Seq(RTasks) /\ thread[w].copy[t].link # Unlinked
      /\ \A i \in 1 .. Len(rest) : thread[w].copy[rest[i]].link # Unlinked
  BY <1>1, <1>2, <1>3, TodoRest DEF Linkable
<1>5. PICK h : h = thread[w].copy[t].link
  OBVIOUS
<1>6. h \in linked[t] \cap HmIds
  BY <1>1, <1>4, <1>5 DEF Listed, Grounded, RegistryRows, Links, Registry!NoRow
<1>7. PICK state : state = Registry!Polled(h)
  OBVIOUS
<1>8. hmtask[h] \in 1 .. 3
  BY <1>0, <1>6 DEF RegistryTypes
<1>9. state \in {"queued", "done"} /\ Shown(t, state)
  <2>1. state \in {"queued", "done"}
    BY <1>7, <1>8 DEF Registry!Polled, Registry!HmStates
  <2>2. hmtask[h] \in 1 .. hmtask[h]
    BY <1>8
  <2> QED
    BY <1>6, <1>7, <2>1, <2>2 DEF Shown, Registry!Reached, Registry!Polled
<1>10. PICK set : set = [Registry!NoRow EXCEPT !.hm = state]
  OBVIOUS
<1>11. set \in RegistryRows /\ set.hm = state
  BY <1>9, <1>10 DEF Registry!NoRow, RegistryRows, Links
<1>12. PICK c1 : c1 = [thread[w] EXCEPT !.at = "get", !.task = t, !.todo = rest, !.set = set]
  OBVIOUS
<1>13. PICK c2 : c2 = [thread[w] EXCEPT !.todo = rest]
  OBVIOUS
<1>14. thread' = [thread EXCEPT ![w] = c1] \/ thread' = [thread EXCEPT ![w] = c2]
  <2>1. \/ thread' = [thread EXCEPT ![w].at = "get", ![w].task = t, ![w].todo = rest, ![w].set = set]
        \/ thread' = [thread EXCEPT ![w].todo = rest]
    BY <1>2, <1>3, <1>5, <1>7, <1>10 DEF Registry!Poll
  <2> QED
    BY <1>0, <1>12, <1>13, <2>1 DEF RegistryTypes
<1>15. /\ ThreadFrame(c1) /\ c1.at = "get" /\ c1.task = t /\ c1.todo = rest /\ c1.set = set
       /\ c1.copy = thread[w].copy
  BY <1>0, <1>12 DEF ThreadFrame
<1>16. ThreadFrame(c2) /\ c2.at = "sync" /\ c2.todo = rest /\ c2.copy = thread[w].copy
  BY <1>0, <1>1, <1>13 DEF ThreadFrame
<1>17. RequestOK(c1)
  BY <1>1, <1>4, <1>9, <1>11, <1>15 DEF RequestOK, Linkable
<1>18. RequestOK(c2)
  BY <1>1, <1>4, <1>16 DEF RequestOK, Linkable
<1> QED
  BY <1>14, <1>15, <1>16, <1>17, <1>18, ThreadMoves DEF Registry!Poll

LEMMA ResumedIsFine ==
    ASSUME RegistryInv, NEW w \in Threads, thread[w].at \in {"get", "upsert"}
    PROVE  ThreadFrame(Registry!Resumed(w)) /\ RequestOK(Registry!Resumed(w))
<1>0. RequestOK(thread[w]) /\ ThreadFrame(thread[w])
  BY DEF RegistryInv, RegistryTypes, ThreadFrame
<1>1. CASE thread[w].copy = <<>>
  BY <1>1 DEF Registry!Resumed, ThreadFrame, RequestOK, Registry!Idle
<1>2. CASE thread[w].copy # <<>>
  <2>1. PICK c : c = [thread[w] EXCEPT !.at = "sync", !.task = "none", !.set = Registry!NoRow, !.row = Registry!NoRow]
    OBVIOUS
  <2>2. ThreadFrame(c) /\ c.at = "sync" /\ c.copy = thread[w].copy /\ c.todo = thread[w].todo
    BY <1>0, <2>1 DEF ThreadFrame
  <2>3. Listed(c.copy) /\ Linkable(c) /\ c.todo \in Seq(RTasks)
    BY <1>0, <1>2, <2>2 DEF RequestOK, Linkable
  <2>4. RequestOK(c)
    BY <2>2, <2>3 DEF RequestOK
  <2> QED
    BY <1>2, <2>1, <2>2, <2>4 DEF Registry!Resumed
<1> QED
  BY <1>1, <1>2

\* A patch, and what an update reads and writes.
LEMMA UpdateSteps ==
    ASSUME RegistryInv, NEW w \in Threads, Registry!Patch(w) \/ Registry!Get(w) \/ Registry!UpdateUpsert(w)
    PROVE  RegistryInv'
<1>0. RequestOK(thread[w]) /\ RegistryTypes /\ ThreadFrame(thread[w])
  BY DEF RegistryInv, RegistryTypes, ThreadFrame
<1>1. CASE Registry!Patch(w)
  <2>1. PICK t \in RTasks, set \in Registry!PatchBodies :
          /\ thread' = [thread EXCEPT ![w].at = "get", ![w].task = t, ![w].set = set]
          /\ patched' = [patched EXCEPT ![t] = @ \cup {set.hm}]
    BY <1>1 DEF Registry!Patch
  <2>2. set \in RegistryRows /\ UNCHANGED <<ot, hmtask, linked>>
    BY <1>1, <2>1 DEF Registry!Patch, Registry!PatchBodies, RegistryRows, Links, Registry!Statuses
  <2>3. PICK c : c = [thread[w] EXCEPT !.at = "get", !.task = t, !.set = set]
    OBVIOUS
  <2>4. thread'[w] = c /\ \A v \in Threads : v # w => thread'[v] = thread[v]
    BY <1>0, <2>1, <2>3 DEF RegistryTypes
  <2>5. thread[w] = Registry!Idle
    BY <1>1 DEF Registry!Patch, Registry!Starts
  <2>6. thread[w].copy = <<>> /\ thread[w].todo = <<>>
    BY <2>5 DEF Registry!Idle
  <2>7. ThreadFrame(c) /\ c.at = "get" /\ c.task = t /\ c.set = set /\ c.copy = <<>> /\ c.todo = <<>>
    BY <1>0, <2>3, <2>6 DEF ThreadFrame
  <2>8. set.hm \in {"none", "queued", "done"}
    BY <2>2 DEF RegistryRows
  <2>9. RegistryTypes'
    BY <1>0, <2>1, <2>2, <2>4, <2>7, <2>8 DEF RegistryTypes, ThreadFrame
  <2>10. /\ \A h \in HmIds : hmtask[h] <= hmtask'[h]
         /\ \A x \in RTasks : linked[x] \subseteq linked'[x] /\ patched[x] \subseteq patched'[x]
         /\ set.hm \in patched'[t]
    BY <1>0, <2>1, <2>2 DEF RegistryTypes
  <2>11. Shown(t, set.hm)' /\ RequestOK(c)'
    BY <2>1, <2>2, <2>7, <2>10 DEF Shown, RequestOK
  <2>12. \A d : RequestOK(d) => RequestOK(d)'
    BY <1>0, <2>9, <2>10, GroundedStays
  <2>13. \A v \in Threads : RequestOK(thread[v])'
    <3> SUFFICES ASSUME NEW v \in Threads PROVE RequestOK(thread[v])'
      OBVIOUS
    <3>1. PICK d : d = thread'[v]
      OBVIOUS
    <3>2. CASE v = w
      BY <2>4, <2>11, <3>2
    <3>3. CASE v # w
      <4>1. RequestOK(d)
        BY <2>4, <3>1, <3>3 DEF RegistryInv
      <4>2. RequestOK(d)'
        BY <2>12, <4>1
      <4> QED
        BY <3>1, <4>2
    <3> QED
      BY <3>2, <3>3
  <2>14. \A x \in RTasks : Grounded(x, ot[x])'
    <3> SUFFICES ASSUME NEW x \in RTasks PROVE Grounded(x, ot[x])'
      OBVIOUS
    <3>1. PICK row : row = ot[x]
      OBVIOUS
    <3>2. Grounded(x, row)'
      BY <1>0, <2>9, <2>10, <3>1, GroundedStays DEF RegistryInv
    <3> QED
      BY <2>2, <3>1, <3>2
  <2> QED
    BY <2>9, <2>13, <2>14 DEF RegistryInv
<1>2. CASE Registry!Get(w)
  <2>0. thread[w].at = "get" /\ thread[w].task \in RTasks
    BY <1>0, <1>2 DEF Registry!Get, RequestOK
  <2>1. CASE ot[thread[w].task] = Registry!NoRow
    <3>1. thread' = [thread EXCEPT ![w] = Registry!Resumed(w)]
      BY <1>2, <2>1 DEF Registry!Get
    <3> QED
      BY <1>2, <2>0, <3>1, ResumedIsFine, ThreadMoves DEF Registry!Get
  <2>2. CASE ot[thread[w].task] # Registry!NoRow
    <3>1. PICK c : c = [thread[w] EXCEPT !.at = "upsert", !.row = ot[thread[w].task]]
      OBVIOUS
    <3>2. thread' = [thread EXCEPT ![w] = c]
      BY <1>0, <1>2, <2>2, <3>1 DEF Registry!Get, RegistryTypes
    <3>3. /\ ThreadFrame(c) /\ c.at = "upsert" /\ c.row = ot[thread[w].task] /\ c.task = thread[w].task
          /\ c.set = thread[w].set /\ c.copy = thread[w].copy /\ c.todo = thread[w].todo
      BY <1>0, <3>1 DEF ThreadFrame
    <3>4. Grounded(c.task, c.row)
      BY <2>0, <3>3 DEF RegistryInv
    <3>5. RequestOK(c)
      BY <1>0, <2>0, <2>2, <3>3, <3>4 DEF RequestOK, Linkable
    <3> QED
      BY <1>2, <3>2, <3>3, <3>5, ThreadMoves DEF Registry!Get
  <2> QED
    BY <2>1, <2>2
<1>3. CASE Registry!UpdateUpsert(w)
  <2>1. PICK c : c = thread[w]
    OBVIOUS
  <2>2. /\ c.at = "upsert" /\ c.task \in RTasks /\ c.set \in RegistryRows /\ Shown(c.task, c.set.hm)
        /\ Grounded(c.task, c.row) /\ c.row # Registry!NoRow
    BY <1>0, <1>3, <2>1 DEF Registry!UpdateUpsert, RequestOK
  <2>3. PICK row : row = [status |-> IF c.set.status = "none" THEN c.row.status ELSE c.set.status,
                          link |-> IF c.set.link = Unlinked THEN c.row.link ELSE c.set.link,
                          hm |-> IF c.set.hm = "none" THEN c.row.hm ELSE c.set.hm]
    OBVIOUS
  <2>4. Registry!Upsert(c.task, row)
    BY <1>3, <2>1, <2>3 DEF Registry!UpdateUpsert, Registry!NoRow
  <2>5. c.row \in RegistryRows /\ c.row.status # "none" /\ Shown(c.task, c.row.hm)
    BY <2>2 DEF Grounded
  <2>6. row \in RegistryRows /\ row.status # "none"
    BY <2>2, <2>3, <2>5 DEF RegistryRows
  <2>7. Shown(c.task, row.hm)
    BY <2>2, <2>3, <2>5
  <2>8. thread' = [thread EXCEPT ![w] = Registry!Resumed(w)] /\ UNCHANGED <<hmtask, patched>>
    BY <1>3 DEF Registry!UpdateUpsert
  <2>9. ThreadFrame(Registry!Resumed(w)) /\ RequestOK(Registry!Resumed(w))
    BY <2>1, <2>2, ResumedIsFine
  <2> QED
    BY <2>2, <2>4, <2>6, <2>7, <2>8, <2>9, UpsertStep
<1> QED
  BY <1>1, <1>2, <1>3

LEMMA RegistryStep ==
    Registry!RegistryAssumption /\ RegistryInv /\ [Registry!Next]_(Registry!registryVars) => RegistryInv'
<1> SUFFICES ASSUME Registry!RegistryAssumption, RegistryInv, [Registry!Next]_(Registry!registryVars) PROVE RegistryInv'
  OBVIOUS
<1>1. CASE UNCHANGED Registry!registryVars
  <2>1. UNCHANGED <<ot, hmtask, thread, linked, patched>>
    BY <1>1 DEF Registry!registryVars
  <2>2. RegistryTypes'
    BY <2>1 DEF RegistryInv, RegistryTypes
  <2>3. \A h \in HmIds : hmtask[h] <= hmtask'[h]
    BY <2>1 DEF RegistryInv, RegistryTypes
  <2>4. \A v \in Threads : \E d : thread'[v] = d /\ RequestOK(d)
    BY <2>1 DEF RegistryInv
  <2> QED
    BY <2>1, <2>2, <2>3, <2>4, RegistryKept
<1> QED
  BY <1>1, AdvanceStep, FileSteps, PollStep, UpdateSteps DEF Registry!Next

\* However the requests that read the ledger, poll HerdMaster and patch a task
\* overlap, a row is one that the ledger has listed, and the state of HerdMaster
\* it shows is one that a row it was linked to has had, or that a client patched
\* into this very task (tasks_api/repository.py:146, reconciler.py:60-170).
THEOREM RegistryIsGrounded == Registry!RegistryAssumption /\ Registry!Spec => [](Registry!RowsAreGrounded /\ Registry!TypeOK)
<1> SUFFICES ASSUME Registry!RegistryAssumption PROVE Registry!Spec => [](Registry!RowsAreGrounded /\ Registry!TypeOK)
  OBVIOUS
<1>1. Registry!Init => RegistryInv
  BY RegistryInit
<1>2. RegistryInv /\ [Registry!Next]_(Registry!registryVars) => RegistryInv'
  BY RegistryStep
<1>3. RegistryInv => Registry!RowsAreGrounded /\ Registry!TypeOK
  <2> SUFFICES ASSUME RegistryInv PROVE Registry!RowsAreGrounded /\ Registry!TypeOK
    OBVIOUS
  <2>1. Registry!RowsAreGrounded
    BY DEF RegistryInv, Grounded, Shown, Registry!RowsAreGrounded
  <2>2. \A t \in RTasks : ot[t].status \in Registry!Statuses \cup {"none"}
    BY DEF RegistryInv, RegistryTypes, RegistryRows
  <2> QED
    BY <2>1, <2>2 DEF RegistryInv, RequestOK, Registry!TypeOK
<1> QED
  BY <1>1, <1>2, <1>3, PTL DEF Registry!Spec

-----------------------------------------------------------------------------
(* Messages between agents (RuntimeMessaging): a message in flight has an   *)
(* edge of the canvas its request has read, and what is said of it at the   *)
(* end is said once.                                                        *)

Stations == {"new", "failed", "denied", "posted", "accepted", "refused", "lost", "routed", "unavailable"}
AuditRows == [message : Sendings, allowed : BOOLEAN]

MessagingTypes ==
    /\ canvas \in Canvases \cup {Rm!NoCanvas}
    /\ bus \in {"up", "down"}
    /\ sending_to \in [Sendings -> [at : Stations, from : Names \cup {""}, to : Names \cup {""},
                                   seen : Canvases \cup {Rm!NoCanvas}]]
    /\ delivered \subseteq Sendings
    /\ audited \subseteq AuditRows

OnEdge(s) == Rm!Drawn(s.seen, s.from, s.to)

\* A message that has left its request follows an edge, and it is on the bus
\* where it says so and nowhere else.
Carried(m, s) ==
    /\ s.at \in {"posted", "accepted", "refused", "lost", "routed"} => OnEdge(s)
    /\ m \in delivered => s.at \in {"accepted", "routed", "unavailable"} /\ OnEdge(s)
    /\ s.at \in {"accepted", "routed"} => m \in delivered

\* A row is of a request that has ended, and allows one that was routed.
Ended(row, s) ==
    /\ s.at \in {"denied", "unavailable", "routed", "lost"}
    /\ row.allowed => s.at = "routed"

MessagingInv ==
    /\ MessagingTypes
    /\ \A m \in Sendings : Carried(m, sending_to[m])
    /\ \A row \in audited : Ended(row, sending_to[row.message])
    /\ \A row, other \in audited : row.message = other.message => row = other

-----------------------------------------------------------------------------
\* The rules derived from a canvas let those its nodes match send along its edges only
\* (mapper.py:22-74).
LEMMA EdgesOnly ==
    ASSUME Rm!MessagingAssumption, NEW c \in Canvases \cup {Rm!NoCanvas}, NEW a \in Names, NEW b \in Names,
           Rm!SendAllowed(Rm!MapToAcl(c), a, b)
    PROVE  Rm!Drawn(c, a, b)
<1> DEFINE acl == Rm!MapToAcl(c)
<1>1. c.nodes \subseteq Patterns /\ c.edges \subseteq Patterns \X Patterns
  BY DEF Rm!MessagingAssumption, Rm!NoCanvas
<1>2. /\ acl.default = "deny"
      /\ \A r \in acl.roles : \E n \in c.nodes :
           /\ r.agents = {n}
           /\ r.sends = {e[2] : e \in {x \in c.edges : x[1] = n}}
           /\ r.receives = {e[1] : e \in {x \in c.edges : x[2] = n}}
  BY DEF Rm!MapToAcl
<1> HIDE DEF acl
<1>3. ASSUME NEW z \in Names, NEW r \in Rm!RolesOf(acl, z)
      PROVE  \E n \in c.nodes :
               /\ Rm!Matches(n, z)
               /\ r.sends = {e[2] : e \in {x \in c.edges : x[1] = n}}
               /\ r.receives = {e[1] : e \in {x \in c.edges : x[2] = n}}
  <2>1. r \in acl.roles /\ \E p \in r.agents : Rm!Matches(p, z)
    BY DEF Rm!RolesOf
  <2>2. PICK n \in c.nodes : /\ r.agents = {n}
                            /\ r.sends = {e[2] : e \in {x \in c.edges : x[1] = n}}
                            /\ r.receives = {e[1] : e \in {x \in c.edges : x[2] = n}}
    BY <1>2, <2>1
  <2> QED
    BY <2>1, <2>2
<1>4. /\ Rm!RolesOf(acl, a) # {}
      /\ \/ \E r \in Rm!RolesOf(acl, a) : \E p \in r.sends : Rm!Matches(p, b)
         \/ \E r \in Rm!RolesOf(acl, b) : \E p \in r.receives : Rm!Matches(p, a)
  BY <1>2 DEF Rm!SendAllowed, acl
<1>5. CASE \E r \in Rm!RolesOf(acl, a) : \E p \in r.sends : Rm!Matches(p, b)
  <2>1. PICK r \in Rm!RolesOf(acl, a) : \E p \in r.sends : Rm!Matches(p, b)
    BY <1>5
  <2>2. PICK p \in r.sends : Rm!Matches(p, b)
    BY <2>1
  <2>3. PICK n \in c.nodes : Rm!Matches(n, a) /\ r.sends = {e[2] : e \in {x \in c.edges : x[1] = n}}
    BY <1>3
  <2>4. PICK e \in c.edges : e[1] = n /\ e[2] = p
    BY <2>2, <2>3
  <2> QED
    BY <2>2, <2>3, <2>4 DEF Rm!Drawn
<1>6. CASE \E r \in Rm!RolesOf(acl, b) : \E p \in r.receives : Rm!Matches(p, a)
  <2>1. PICK r \in Rm!RolesOf(acl, b) : \E p \in r.receives : Rm!Matches(p, a)
    BY <1>6
  <2>2. PICK p \in r.receives : Rm!Matches(p, a)
    BY <2>1
  <2>3. PICK n \in c.nodes : Rm!Matches(n, b) /\ r.receives = {e[1] : e \in {x \in c.edges : x[2] = n}}
    BY <1>3
  <2>4. PICK e \in c.edges : e[2] = n /\ e[1] = p
    BY <2>2, <2>3
  <2>5. \E k \in c.nodes : Rm!Matches(k, a)
    BY <1>3, <1>4
  <2> QED
    BY <2>2, <2>3, <2>4, <2>5 DEF Rm!Drawn
<1> QED
  BY <1>4, <1>5, <1>6

LEMMA MessagingTells == MessagingInv => Rm!AuditTells /\ Rm!TypeOK
<1> SUFFICES ASSUME MessagingInv PROVE Rm!AuditTells /\ Rm!TypeOK
  OBVIOUS
<1>1. Rm!TypeOK
  BY DEF MessagingInv, MessagingTypes, Rm!TypeOK, Stations
<1>2. \A m \in delivered : OnEdge(sending_to[m])
  BY DEF MessagingInv, MessagingTypes, Carried
<1>3. ASSUME NEW row \in audited, row.allowed PROVE row.message \in delivered
  <2>1. row.message \in Sendings
    BY DEF MessagingInv, MessagingTypes, AuditRows
  <2>2. sending_to[row.message].at = "routed"
    BY <1>3 DEF MessagingInv, Ended
  <2> QED
    BY <2>1, <2>2 DEF MessagingInv, Carried
<1>4. ASSUME NEW m \in Sendings PROVE Rm!Cardinality({row \in audited : row.message = m}) <= 1
  <2> DEFINE Mine == {row \in audited : row.message = m}
  <2>1. Mine = {} \/ \E row : Mine = {row}
    BY DEF MessagingInv
  <2>2. Rm!Cardinality(Mine) = Cardinality(Mine)
    BY DEF Rm!Cardinality, Cardinality
  <2>3. Cardinality(Mine) <= 1
    <3>1. CASE Mine = {}
      <4>1. Cardinality(Mine) = 0
        BY <3>1, FS_EmptySet
      <4> QED
        BY <4>1
    <3>2. CASE \E row : Mine = {row}
      <4>1. Cardinality(Mine) = 1
        BY <3>2, FS_Singleton
      <4> QED
        BY <4>1
    <3> QED
      BY <2>1, <3>1, <3>2
  <2> QED
    BY <2>2, <2>3
<1>5. \A m \in Sendings : sending_to[m].at = "denied" => m \notin delivered
  BY DEF MessagingInv, Carried
<1>6. Rm!AuditTells
  BY <1>2, <1>3, <1>4, <1>5 DEF Rm!AuditTells, OnEdge
<1> QED
  BY <1>1, <1>6

LEMMA MessagingInit == Rm!Init => MessagingInv
<1> SUFFICES ASSUME Rm!Init PROVE MessagingInv
  OBVIOUS
<1>1. MessagingTypes
  BY DEF Rm!Init, MessagingTypes, Rm!NotSent, Stations
<1>2. \A m \in Sendings : Carried(m, sending_to[m])
  BY DEF Rm!Init, Carried, Rm!NotSent
<1> QED
  BY <1>1, <1>2 DEF Rm!Init, MessagingInv

\* Request m moves to q: it may be put on the bus, and gets a row of its own if
\* it had none.
LEMMA RmRequestMoves ==
    ASSUME MessagingInv, NEW m \in Sendings, NEW q, NEW row \in AuditRows,
           q \in [at : Stations, from : Names \cup {""}, to : Names \cup {""},
                  seen : Canvases \cup {Rm!NoCanvas}],
           sending_to' = [sending_to EXCEPT ![m] = q],
           UNCHANGED <<canvas, hmacl, bus>>,
           delivered' \in {delivered, delivered \cup {m}},
           Carried(m, q)',
           \/ audited' = audited
           \/ audited' = audited \cup {row} /\ row.message = m /\ Ended(row, q),
           sending_to[m].at \notin {"denied", "unavailable", "routed"},
           sending_to[m].at = "lost" => \A x \in audited : x.message = m => ~ x.allowed,
           sending_to[m].at = "lost" => q.at = "unavailable" /\ audited' = audited
    PROVE  MessagingInv'
<1>1. /\ sending_to'[m] = q
      /\ \A x \in Sendings : x # m => sending_to'[x] = sending_to[x]
  BY DEF MessagingInv, MessagingTypes
<1>2. MessagingTypes'
  BY DEF MessagingInv, MessagingTypes
<1>3. ASSUME NEW x \in Sendings PROVE Carried(x, sending_to[x])'
  <2>1. CASE x = m
    BY <1>1, <2>1 DEF Carried, OnEdge
  <2>2. CASE x # m
    <3>1. Carried(x, sending_to[x]) /\ (x \in delivered' <=> x \in delivered)
      BY <2>2 DEF MessagingInv
    <3> QED
      BY <1>1, <2>2, <3>1 DEF Carried, OnEdge
  <2> QED
    BY <2>1, <2>2
<1>4. ASSUME NEW x \in audited PROVE x.message \in Sendings /\ Ended(x, sending_to[x.message])
  BY DEF MessagingInv, MessagingTypes, AuditRows
<1>5. ASSUME NEW x \in audited' PROVE Ended(x, sending_to[x.message])'
  <2>1. CASE x \in audited /\ x.message # m
    BY <1>1, <1>4, <2>1 DEF Ended
  <2>2. CASE x \in audited /\ x.message = m
    <3>1. sending_to[m].at = "lost"
      BY <1>4, <2>2 DEF Ended
    <3> QED
      BY <1>1, <2>2, <3>1 DEF Ended
  <2>3. CASE x \notin audited
    BY <1>1, <2>3 DEF Ended
  <2> QED
    BY <2>1, <2>2, <2>3
<1>6. ASSUME NEW x \in audited', NEW y \in audited', x.message = y.message PROVE x = y
  <2>1. CASE audited' = audited
    BY <1>6, <2>1 DEF MessagingInv
  <2>2. CASE audited' # audited
    <3>1. sending_to[m].at # "lost" /\ audited' = audited \cup {row} /\ row.message = m
      BY <2>2
    <3>2. \A z \in audited : z.message # m
      BY <1>4, <3>1 DEF Ended
    <3> QED
      BY <1>6, <3>1, <3>2 DEF MessagingInv
  <2> QED
    BY <2>1, <2>2
<1> QED
  BY <1>2, <1>3, <1>5, <1>6 DEF MessagingInv

\* A request that goes nowhere, or to the post, with the canvas it has read.
LEMMA SubmitSteps ==
    ASSUME Rm!MessagingAssumption, MessagingInv, NEW m \in Sendings, NEW a \in Names, NEW b \in Names \ {a},
           Rm!Unmappable(m, a, b) \/ Rm!Denied(m, a, b) \/ Rm!NoBus(m, a, b) \/ Rm!Post(m, a, b)
    PROVE  MessagingInv'
<1>1. PICK at \in {"failed", "denied", "unavailable", "posted"} :
        /\ Rm!Goes(m, at, a, b)
        /\ at = "posted" => Rm!SendAllowed(Rm!MapToAcl(canvas), a, b)
        /\ at \in {"denied", "unavailable"} \/ audited' = audited
        /\ audited' \in {audited, audited \cup {[message |-> m, allowed |-> FALSE]}}
        /\ sending_to[m].at = "new"
        /\ UNCHANGED <<canvas, hmacl, bus, delivered>>
  BY DEF Rm!Unmappable, Rm!Denied, Rm!NoBus, Rm!Post, Rm!Audit
<1>2. PICK q : q = [at |-> at, from |-> a, to |-> b, seen |-> canvas]
  OBVIOUS
<1>3. /\ q \in [at : Stations, from : Names \cup {""}, to : Names \cup {""},
                seen : Canvases \cup {Rm!NoCanvas}]
      /\ q.at = at /\ q.from = a /\ q.to = b /\ q.seen = canvas
  BY <1>2 DEF MessagingInv, MessagingTypes, Stations
<1>4. sending_to' = [sending_to EXCEPT ![m] = q]
  BY <1>1, <1>2 DEF Rm!Goes
<1>5. Carried(m, q)'
  <2>1. m \notin delivered
    BY <1>1 DEF MessagingInv, Carried
  <2>2. at = "posted" => OnEdge(q)
    BY <1>1, <1>3, EdgesOnly DEF OnEdge, MessagingInv, MessagingTypes
  <2> QED
    BY <1>1, <1>3, <2>1, <2>2 DEF Carried, OnEdge
<1>6. PICK row : row = [message |-> m, allowed |-> FALSE]
  OBVIOUS
<1>7. row \in AuditRows /\ row.message = m /\ ~ row.allowed
  BY <1>6 DEF AuditRows
<1>8. audited' = audited \/ (audited' = audited \cup {row} /\ Ended(row, q))
  BY <1>1, <1>3, <1>6, <1>7 DEF Ended
<1> QED
  BY <1>1, <1>3, <1>4, <1>5, <1>7, <1>8, RmRequestMoves

\* What becomes of a message that was posted.
LEMMA PostedSteps ==
    ASSUME MessagingInv, NEW m \in Sendings,
           Rm!HerdMasterReceives(m) \/ Rm!Accepted(m) \/ Rm!DeliveryUnavailable(m) \/ Rm!ReceivedLate(m)
    PROVE  MessagingInv'
<1> DEFINE s == sending_to[m]
<1>1. PICK at \in {"accepted", "refused", "routed", "unavailable", "lost"}, said \in BOOLEAN :
        /\ sending_to' = [sending_to EXCEPT ![m].at = at]
        /\ s.at \in {"posted", "accepted", "refused", "lost"}
        /\ audited' \in {audited, audited \cup {[message |-> m, allowed |-> said]}}
        /\ audited' = audited \/ at \in {"routed", "unavailable", "lost"}
        /\ said => at = "routed"
        /\ s.at = "lost" => at = "unavailable" /\ audited' = audited
        /\ \/ at \in {"accepted", "unavailable"} /\ delivered' = delivered \cup {m}
           \/ at = "routed" /\ s.at = "accepted" /\ delivered' = delivered
           \/ at = "unavailable" /\ delivered' = delivered
           \/ at \in {"refused", "lost"} /\ s.at = "posted" /\ delivered' = delivered
        /\ UNCHANGED <<canvas, hmacl, bus>>
  <2>1. CASE Rm!HerdMasterReceives(m)
    BY <2>1 DEF Rm!HerdMasterReceives
  <2>2. CASE Rm!Accepted(m)
    BY <2>2 DEF Rm!Accepted, Rm!Audit
  <2>3. CASE Rm!DeliveryUnavailable(m)
    BY <2>3 DEF Rm!DeliveryUnavailable, Rm!Audit
  <2>4. CASE Rm!ReceivedLate(m)
    BY <2>4 DEF Rm!ReceivedLate
  <2> QED
    BY <2>1, <2>2, <2>3, <2>4
<1>2. PICK q : q = [s EXCEPT !.at = at]
  OBVIOUS
<1>3. s \in [at : Stations, from : Names \cup {""}, to : Names \cup {""}, seen : Canvases \cup {Rm!NoCanvas}]
  BY DEF MessagingInv, MessagingTypes
<1>4. /\ q \in [at : Stations, from : Names \cup {""}, to : Names \cup {""},
                seen : Canvases \cup {Rm!NoCanvas}]
      /\ q.at = at /\ q.from = s.from /\ q.to = s.to /\ q.seen = s.seen
  BY <1>2, <1>3 DEF Stations
<1>5. sending_to' = [sending_to EXCEPT ![m] = q]
  BY <1>1, <1>2 DEF MessagingInv, MessagingTypes
<1>6. Carried(m, s)
  BY DEF MessagingInv
<1>7. OnEdge(q)
  BY <1>1, <1>4, <1>6 DEF Carried, OnEdge
<1>8. Carried(m, q)'
  <2>1. m \in delivered' => at \in {"accepted", "routed", "unavailable"}
    BY <1>1, <1>6 DEF Carried
  <2>2. at \in {"accepted", "routed"} => m \in delivered'
    BY <1>1, <1>6 DEF Carried
  <2> QED
    BY <1>4, <1>7, <2>1, <2>2 DEF Carried, OnEdge
<1>9. PICK row : row = [message |-> m, allowed |-> said]
  OBVIOUS
<1>10. row \in AuditRows /\ row.message = m /\ row.allowed = said
  BY <1>9 DEF AuditRows
<1>11. audited' = audited \/ (audited' = audited \cup {row} /\ Ended(row, q))
  BY <1>1, <1>4, <1>9, <1>10 DEF Ended
<1>12. s.at = "lost" => \A x \in audited : x.message = m => ~ x.allowed
  BY DEF MessagingInv, Ended
<1>13. delivered' \in {delivered, delivered \cup {m}}
  BY <1>1
<1>14. s.at = "lost" => q.at = "unavailable" /\ audited' = audited
  BY <1>1, <1>4
<1> QED
  BY <1>1, <1>4, <1>5, <1>8, <1>10, <1>11, <1>12, <1>13, <1>14, RmRequestMoves

LEMMA MessagingStep == Rm!MessagingAssumption /\ MessagingInv /\ [Rm!Next]_Rm!rmVars => MessagingInv'
<1> SUFFICES ASSUME Rm!MessagingAssumption, MessagingInv, [Rm!Next]_Rm!rmVars PROVE MessagingInv'
  OBVIOUS
<1>1. ASSUME UNCHANGED <<sending_to, delivered, audited>>, MessagingTypes' PROVE MessagingInv'
  BY <1>1 DEF MessagingInv, Carried, OnEdge, Ended
<1>2. CASE Rm!SaveTopology \/ Rm!ProvisionTopology
  BY <1>1, <1>2 DEF Rm!SaveTopology, Rm!ProvisionTopology, MessagingInv, MessagingTypes
<1>3. CASE Rm!ReloadConfig \/ Rm!RefreshMessageBus
  BY <1>1, <1>3 DEF Rm!ReloadConfig, Rm!RefreshMessageBus, MessagingInv, MessagingTypes
<1>4. ASSUME NEW m \in Sendings,
             \/ \E a \in Names : \E b \in Names \ {a} :
                  Rm!Unmappable(m, a, b) \/ Rm!Denied(m, a, b) \/ Rm!NoBus(m, a, b) \/ Rm!Post(m, a, b)
             \/ Rm!HerdMasterReceives(m) \/ Rm!Accepted(m) \/ Rm!DeliveryUnavailable(m) \/ Rm!ReceivedLate(m)
      PROVE  MessagingInv'
  BY <1>4, SubmitSteps, PostedSteps
<1>5. CASE UNCHANGED Rm!rmVars
  BY <1>1, <1>5 DEF Rm!rmVars, MessagingInv, MessagingTypes
<1> QED
  BY <1>2, <1>3, <1>4, <1>5 DEF Rm!Next

\* A message that reaches HerdMaster's bus follows an edge, drawn from an agent
\* of the canvas that its request has read, whatever is saved, reloaded or lost
\* meanwhile; a row that allows one stands for a delivery, a message has one
\* row at most, and one that the canvas denies is not delivered
\* (messaging/service.py:60-181, mapper.py:22-74).
THEOREM AuditsTell == Rm!MessagingAssumption /\ Rm!Spec => [](Rm!AuditTells /\ Rm!TypeOK)
<1> SUFFICES ASSUME Rm!MessagingAssumption PROVE Rm!Spec => [](Rm!AuditTells /\ Rm!TypeOK)
  OBVIOUS
<1>1. Rm!Init => MessagingInv
  BY MessagingInit
<1>2. MessagingInv /\ [Rm!Next]_Rm!rmVars => MessagingInv'
  BY MessagingStep
<1>3. MessagingInv => Rm!AuditTells /\ Rm!TypeOK
  BY MessagingTells
<1> QED
  BY <1>1, <1>2, <1>3, PTL DEF Rm!Spec

-----------------------------------------------------------------------------
(* Logins on seats (SeatSessions): a login keeps the seat it has read, and a *)
(* change of the seat that was checked is isolated as long as nothing came  *)
(* between.                                                                 *)

Seats == [exists : BOOLEAN, active : BOOLEAN, home : Homes, config : Homes]
Changes == [at : {"new", "checked", "merged", "ended"}, field : Login!Fields, value : Homes, merged : Seats]
Attempts == [at : {"new", "running", "ended"}, seat : Seats]
Sessions == [status : {"none", "pending", "degraded", "expired"}, left : Nat, home : Homes, config : Homes]

LoginTypes ==
    /\ seat \in Seats
    /\ patch \in [Patches -> Changes]
    /\ login \in [Logins -> Attempts]
    /\ session \in [Logins -> Sessions]
    /\ checking \subseteq Logins
    /\ command \in BOOLEAN /\ overlapped \in BOOLEAN

\* What is about to be written is isolated, if nobody came between.
Checked(c, s) ==
    /\ c.at = "checked" => Login!Isolated(Login!Changed(s, c.field, c.value))
    /\ c.at = "merged" => Login!Isolated(c.merged)
SeatHolds == ~overlapped => Login!Isolated(seat) /\ \A p \in Patches : Checked(patch[p], seat)

\* A row is made when its login ends, once.
LoginHolds(l) ==
    /\ login[l].at = "running" => Login!Isolated(login[l].seat)
    /\ session[l].status # "none" => login[l].at = "ended"
    /\ session[l].status = "pending" => Login!Isolated(session[l])
    /\ session[l].status = "expired" => session[l].left = 0
    /\ l \in checking => session[l].status # "none" /\ session[l].left = 0

LoginInv == LoginTypes /\ SeatHolds /\ \A l \in Logins : LoginHolds(l)

-----------------------------------------------------------------------------
LEMMA LoginInvHolds == LoginInv => Login!LoginsIsolated /\ Login!TypeOK
<1> SUFFICES ASSUME LoginInv PROVE Login!LoginsIsolated /\ Login!TypeOK
  OBVIOUS
<1>1. Login!LoginsIsolated
  BY DEF LoginInv, LoginTypes, SeatHolds, LoginHolds, Login!LoginsIsolated
<1>2. Login!TypeOK
  BY DEF LoginInv, LoginTypes, Seats, Changes, Attempts, Sessions, Login!TypeOK
<1> QED
  BY <1>1, <1>2

LEMMA NoSeatTyped ==
    ASSUME Login!SessionAssumption
    PROVE  /\ Login!SomeHome \in Homes
           /\ Login!NoSeat \in Seats /\ Login!Isolated(Login!NoSeat)
           /\ Login!NoPatch \in Changes /\ Login!NoPatch.at = "new"
           /\ Login!Ended \in Changes /\ Login!Ended.at = "ended"
           /\ Login!NoSession \in Sessions /\ Login!NoSession.status = "none"
<1>1. Login!SomeHome \in Homes
  BY DEF Login!SessionAssumption, Login!SomeHome
<1>2. Login!NoSeat \in Seats /\ Login!Isolated(Login!NoSeat)
  BY <1>1 DEF Login!NoSeat, Seats, Login!Isolated
<1>3. Login!NoPatch \in Changes /\ Login!NoPatch.at = "new"
  BY <1>1, <1>2 DEF Login!NoPatch, Changes, Login!Fields
<1>4. Login!Ended \in Changes /\ Login!Ended.at = "ended"
  BY <1>3 DEF Login!Ended, Changes
<1>5. Login!NoSession \in Sessions /\ Login!NoSession.status = "none"
  BY <1>1 DEF Login!NoSession, Sessions
<1> QED
  BY <1>1, <1>2, <1>3, <1>4, <1>5

LEMMA LoginInit == Login!SessionAssumption /\ Login!Init => LoginInv
<1> SUFFICES ASSUME Login!SessionAssumption, Login!Init PROVE LoginInv
  OBVIOUS
<1>1. LoginTypes
  BY NoSeatTyped DEF Login!Init, LoginTypes, Attempts
<1>2. SeatHolds
  BY NoSeatTyped DEF Login!Init, SeatHolds, Checked
<1>3. \A l \in Logins : LoginHolds(l)
  BY NoSeatTyped DEF Login!Init, LoginHolds
<1> QED
  BY <1>1, <1>2, <1>3 DEF LoginInv

LEMMA ChangedTyped ==
    ASSUME NEW s \in Seats, NEW f \in Login!Fields, NEW h \in Homes
    PROVE  Login!Changed(s, f, h) \in Seats /\ Login!Changed(s, f, h).exists = s.exists
  BY DEF Seats, Login!Fields, Login!Changed

\* What is isolated does not depend on whether the seat is there.
LEMMA SeatStep ==
    ASSUME LoginInv, UNCHANGED <<patch, command, login, session, checking>>, Login!Races,
           seat' \in Seats, Login!Isolated(seat) => Login!Isolated(seat')
    PROVE  LoginInv'
<1>1. overlapped' = (overlapped \/ \E p \in Patches : patch[p].at \in {"checked", "merged"})
  BY DEF Login!Races
<1>2. LoginTypes'
  BY <1>1 DEF LoginInv, LoginTypes
<1>3. SeatHolds'
  BY <1>1 DEF LoginInv, SeatHolds, Checked
<1>4. \A l \in Logins : LoginHolds(l)'
  BY DEF LoginInv, LoginHolds
<1> QED
  BY <1>2, <1>3, <1>4 DEF LoginInv

\* The steps of a change; the seat is written by the last one.
LEMMA PatchStep ==
    ASSUME LoginInv, NEW p \in Patches, NEW q \in Changes,
           patch' = [patch EXCEPT ![p] = q], seat' \in Seats, overlapped' \in BOOLEAN,
           UNCHANGED <<command, login, session, checking>>,
           ~ overlapped' => /\ ~ overlapped /\ Login!Isolated(seat') /\ Checked(q, seat')
                            /\ seat' = seat \/ \A o \in Patches \ {p} : patch[o].at \notin {"checked", "merged"}
    PROVE  LoginInv'
<1>1. /\ patch'[p] = q
      /\ \A o \in Patches : o # p => patch'[o] = patch[o]
  BY DEF LoginInv, LoginTypes
<1>2. LoginTypes'
  BY DEF LoginInv, LoginTypes
<1>3. ASSUME ~ overlapped', NEW o \in Patches PROVE Checked(patch[o], seat)'
  <2>1. CASE o = p
    BY <1>1, <1>3, <2>1 DEF Checked
  <2>2. CASE o # p
    BY <1>1, <1>3, <2>2 DEF Checked, LoginInv, SeatHolds
  <2> QED
    BY <2>1, <2>2
<1>4. SeatHolds'
  BY <1>3 DEF SeatHolds
<1>5. \A l \in Logins : LoginHolds(l)'
  BY DEF LoginInv, LoginHolds
<1> QED
  BY <1>2, <1>4, <1>5 DEF LoginInv

LEMMA PatchSteps ==
    ASSUME Login!SessionAssumption, LoginInv, NEW p \in Patches,
           \/ \E f \in FieldsOf[p], h \in Homes : Login!CheckPatch(p, f, h)
           \/ Login!MergePatch(p) \/ Login!WritePatch(p)
    PROVE  LoginInv'
<1>1. patch[p] \in Changes /\ seat \in Seats /\ overlapped \in BOOLEAN
  BY DEF LoginInv, LoginTypes
<1>2. ASSUME NEW f \in FieldsOf[p], NEW h \in Homes, Login!CheckPatch(p, f, h) PROVE LoginInv'
  <2>1. PICK q : q = [at |-> "checked", field |-> f, value |-> h, merged |-> Login!NoSeat]
    OBVIOUS
  <2>2. f \in Login!Fields
    BY DEF Login!SessionAssumption
  <2>3. q \in Changes /\ q.at = "checked" /\ q.field = f /\ q.value = h
    BY <2>1, <2>2, NoSeatTyped DEF Changes
  <2>4. patch' = [patch EXCEPT ![p] = q] /\ seat' = seat /\ overlapped' = overlapped
    BY <1>2, <2>1 DEF Login!CheckPatch
  <2>5. UNCHANGED <<command, login, session, checking>>
    BY <1>2 DEF Login!CheckPatch
  <2>6. Checked(q, seat)
    BY <1>2, <2>3 DEF Login!CheckPatch, Login!PathsAllowed, Checked
  <2>7. ~ overlapped => Login!Isolated(seat)
    BY DEF LoginInv, SeatHolds
  <2> QED
    BY <1>1, <2>3, <2>4, <2>5, <2>6, <2>7, PatchStep
<1>3. CASE Login!MergePatch(p)
  <2>1. PICK q : q = IF seat.exists THEN [Login!NoPatch EXCEPT !.at = "merged",
                        !.merged = Login!Changed(seat, patch[p].field, patch[p].value)] ELSE Login!Ended
    OBVIOUS
  <2>2. Login!Changed(seat, patch[p].field, patch[p].value) \in Seats
    BY <1>1, ChangedTyped DEF Changes
  <2>3. q \in Changes
    BY <2>1, <2>2, NoSeatTyped DEF Changes
  <2>4. patch' = [patch EXCEPT ![p] = q] /\ seat' = seat /\ overlapped' = overlapped
    BY <1>3, <2>1 DEF Login!MergePatch
  <2>5. UNCHANGED <<command, login, session, checking>>
    BY <1>3 DEF Login!MergePatch
  <2>6. ~ overlapped => Checked(q, seat) /\ Login!Isolated(seat)
    <3>1. ~ overlapped => Login!Isolated(Login!Changed(seat, patch[p].field, patch[p].value)) /\ Login!Isolated(seat)
      BY <1>3 DEF Login!MergePatch, LoginInv, SeatHolds, Checked
    <3>2. q.at # "checked"
          /\ (q.at = "merged" => q.merged = Login!Changed(seat, patch[p].field, patch[p].value))
      BY <2>1, NoSeatTyped DEF Changes
    <3> QED
      BY <3>1, <3>2 DEF Checked
  <2> QED
    BY <1>1, <2>3, <2>4, <2>5, <2>6, PatchStep
<1>4. CASE Login!WritePatch(p)
  <2>1. seat' = [patch[p].merged EXCEPT !.exists = TRUE]
        /\ overlapped' = (overlapped \/ \E q \in Patches \ {p} : patch[q].at \in {"checked", "merged"})
        /\ patch' = [patch EXCEPT ![p] = Login!Ended]
        /\ UNCHANGED <<command, login, session, checking>>
    BY <1>4 DEF Login!WritePatch
  <2>2. seat' \in Seats /\ (Login!Isolated(patch[p].merged) => Login!Isolated(seat'))
    BY <1>1, <2>1 DEF Changes, Seats, Login!Isolated
  <2>3. ~ overlapped => Login!Isolated(patch[p].merged)
    BY <1>4 DEF Login!WritePatch, LoginInv, SeatHolds, Checked
  <2>4. Checked(Login!Ended, seat')
    BY NoSeatTyped DEF Checked
  <2> QED
    BY <1>1, <2>1, <2>2, <2>3, <2>4, NoSeatTyped, PatchStep
<1> QED
  BY <1>2, <1>3, <1>4

\* The steps of a login and of its row; the seat stays.
LEMMA SessionStep ==
    ASSUME LoginInv, UNCHANGED <<seat, patch, overlapped>>, command' \in BOOLEAN,
           login' \in [Logins -> Attempts], session' \in [Logins -> Sessions], checking' \subseteq Logins,
           \A l \in Logins : LoginHolds(l)'
    PROVE  LoginInv'
<1>1. LoginTypes'
  BY DEF LoginInv, LoginTypes
<1>2. SeatHolds'
  BY DEF LoginInv, SeatHolds, Checked
<1> QED
  BY <1>1, <1>2 DEF LoginInv

LEMMA MadeHolds ==
    ASSUME Login!SessionAssumption, LoginInv, NEW l \in Logins, NEW status \in {"pending", "degraded"},
           NEW s \in Seats, Login!Made(l, status, s), status = "pending" => Login!Isolated(s),
           login[l].at # "ended", UNCHANGED checking
    PROVE  /\ login' \in [Logins -> Attempts] /\ session' \in [Logins -> Sessions]
           /\ \A o \in Logins : LoginHolds(o)'
<1>1. PICK a : a = [at |-> "ended", seat |-> Login!NoSeat]
  OBVIOUS
<1>2. a \in Attempts /\ a.at = "ended"
  BY <1>1, NoSeatTyped DEF Attempts
<1>3. PICK r : r = Login!Row(status, s)
  OBVIOUS
<1>4. /\ r \in Sessions /\ r.status = status
      /\ r.home = s.home /\ r.config = s.config
  BY <1>3 DEF Login!Row, Sessions, Seats, Login!SessionAssumption
<1>5. login' = [login EXCEPT ![l] = a] /\ session' = [session EXCEPT ![l] = r]
  BY <1>1, <1>3 DEF Login!Made
<1>6. login \in [Logins -> Attempts] /\ session \in [Logins -> Sessions] /\ \A o \in Logins : LoginHolds(o)
  BY DEF LoginInv, LoginTypes
<1>7. login' \in [Logins -> Attempts] /\ session' \in [Logins -> Sessions]
  BY <1>2, <1>4, <1>5, <1>6
<1>8. login'[l] = a /\ session'[l] = r
      /\ \A o \in Logins : o # l => login'[o] = login[o] /\ session'[o] = session[o]
  BY <1>5, <1>6
<1>9. ASSUME NEW o \in Logins, o # l PROVE LoginHolds(o)'
  BY <1>6, <1>8, <1>9 DEF LoginHolds
<1>10. LoginHolds(l)'
  <2>1. l \notin checking
    BY <1>6 DEF LoginHolds
  <2>2. r.status = "pending" => Login!Isolated(r)
    BY <1>4 DEF Login!Isolated
  <2> QED
    BY <1>2, <1>4, <1>8, <2>1, <2>2 DEF LoginHolds
<1> QED
  BY <1>7, <1>9, <1>10

LEMMA LoginSteps ==
    ASSUME Login!SessionAssumption, LoginInv, NEW l \in Logins,
           Login!StartLogin(l) \/ Login!CommandEnds(l) \/ Login!FindExpired(l) \/ Login!SetExpired(l) \/ Login!RenewDegrades(l)
    PROVE  LoginInv'
<1>1. /\ login \in [Logins -> Attempts] /\ session \in [Logins -> Sessions]
      /\ seat \in Seats /\ checking \subseteq Logins /\ command \in BOOLEAN
      /\ \A o \in Logins : LoginHolds(o)
  BY DEF LoginInv, LoginTypes
<1>2. CASE Login!StartLogin(l)
  <2>1. login[l].at = "new" /\ UNCHANGED <<seat, patch, command, checking, overlapped>>
    BY <1>2 DEF Login!StartLogin
  <2>2. CASE Login!Runnable(seat)
    <3>1. PICK a : a = [at |-> "running", seat |-> seat]
      OBVIOUS
    <3>2. a \in Attempts /\ a.at = "running" /\ a.seat = seat /\ Login!Isolated(seat)
      BY <1>1, <2>2, <3>1 DEF Attempts, Login!Runnable
    <3>3. login' = [login EXCEPT ![l] = a] /\ UNCHANGED session
      BY <1>2, <2>2, <3>1 DEF Login!StartLogin
    <3>4. login' \in [Logins -> Attempts] /\ login'[l] = a
          /\ \A o \in Logins : o # l => login'[o] = login[o]
      BY <1>1, <3>2, <3>3
    <3>5. \A o \in Logins : LoginHolds(o)'
      BY <1>1, <2>1, <3>2, <3>3, <3>4 DEF LoginHolds
    <3> QED
      BY <1>1, <2>1, <3>3, <3>4, <3>5, SessionStep
  <2>3. CASE ~ Login!Runnable(seat)
    <3>1. Login!Made(l, "degraded", seat)
      BY <1>2, <2>3 DEF Login!StartLogin
    <3> QED
      BY <1>1, <2>1, <3>1, MadeHolds, SessionStep
  <2> QED
    BY <2>2, <2>3
<1>3. CASE Login!CommandEnds(l)
  <2>1. login[l].at = "running" /\ UNCHANGED <<seat, patch, command, checking, overlapped>>
    BY <1>3 DEF Login!CommandEnds
  <2>2. login[l].seat \in Seats /\ Login!Isolated(login[l].seat)
    BY <1>1, <2>1 DEF LoginHolds, Attempts
  <2>3. CASE \E status \in {"pending", "degraded"} : Login!Made(l, status, login[l].seat)
    BY <1>1, <2>1, <2>2, <2>3, MadeHolds, SessionStep
  <2>4. CASE login' = [login EXCEPT ![l] = [at |-> "ended", seat |-> Login!NoSeat]] /\ UNCHANGED session
    <3>1. PICK a : a = [at |-> "ended", seat |-> Login!NoSeat]
      OBVIOUS
    <3>2. a \in Attempts /\ a.at = "ended"
      BY <3>1, NoSeatTyped DEF Attempts
    <3>3. login' \in [Logins -> Attempts] /\ login'[l] = a
          /\ \A o \in Logins : o # l => login'[o] = login[o]
      BY <1>1, <2>4, <3>1, <3>2
    <3>4. \A o \in Logins : LoginHolds(o)'
      BY <1>1, <2>1, <2>4, <3>2, <3>3 DEF LoginHolds
    <3> QED
      BY <1>1, <2>1, <2>4, <3>3, <3>4, SessionStep
  <2> QED
    BY <1>3, <2>3, <2>4 DEF Login!CommandEnds
<1>4. CASE Login!FindExpired(l)
  <2>1. \A o \in Logins : LoginHolds(o)'
    BY <1>1, <1>4 DEF Login!FindExpired, Login!Expired, LoginHolds
  <2> QED
    BY <1>1, <1>4, <2>1, SessionStep DEF Login!FindExpired
<1>5. ASSUME NEW status \in {"expired", "degraded"}, session' = [session EXCEPT ![l].status = status],
             status = "expired" => l \in checking, checking' \subseteq checking,
             session[l].status # "none", UNCHANGED <<seat, patch, command, login, overlapped>>
      PROVE  LoginInv'
  <2>1. PICK r : r = [session[l] EXCEPT !.status = status]
    OBVIOUS
  <2>2. r \in Sessions /\ r.status = status /\ r.left = session[l].left
    BY <1>1, <2>1 DEF Sessions
  <2>3. session' \in [Logins -> Sessions] /\ session'[l] = r
        /\ \A o \in Logins : o # l => session'[o] = session[o]
    BY <1>1, <1>5, <2>1, <2>2
  <2>4. \A o \in Logins : LoginHolds(o)'
    BY <1>1, <1>5, <2>2, <2>3 DEF LoginHolds
  <2> QED
    BY <1>1, <1>5, <2>3, <2>4, SessionStep
<1>6. CASE Login!SetExpired(l)
  BY <1>1, <1>5, <1>6 DEF Login!SetExpired, LoginHolds
<1>7. CASE Login!RenewDegrades(l)
  BY <1>5, <1>7 DEF Login!RenewDegrades
<1> QED
  BY <1>2, <1>3, <1>4, <1>6, <1>7

LEMMA ClockSteps == ASSUME LoginInv, Login!Tick \/ Login!Reconfigure PROVE LoginInv'
<1>1. /\ login \in [Logins -> Attempts] /\ session \in [Logins -> Sessions]
      /\ checking \subseteq Logins /\ command \in BOOLEAN
      /\ \A o \in Logins : LoginHolds(o)
  BY DEF LoginInv, LoginTypes
<1>2. CASE Login!Tick
  <2>1. UNCHANGED <<seat, patch, command, login, checking, overlapped>>
        /\ session' = [l \in Logins |-> [session[l] EXCEPT !.left = IF @ > 0 THEN @ - 1 ELSE 0]]
    BY <1>2 DEF Login!Tick
  <2>2. ASSUME NEW l \in Logins
        PROVE  /\ session'[l] \in Sessions
               /\ session'[l].status = session[l].status
               /\ session'[l].home = session[l].home /\ session'[l].config = session[l].config
               /\ session[l].left = 0 => session'[l].left = 0
    <3>1. session[l] \in Sessions
      BY <1>1
    <3>2. session'[l] = [session[l] EXCEPT !.left = IF session[l].left > 0 THEN session[l].left - 1 ELSE 0]
      BY <2>1
    <3> QED
      BY <3>1, <3>2 DEF Sessions
  <2>3. session' \in [Logins -> Sessions]
    BY <2>1, <2>2
  <2>4. \A o \in Logins : LoginHolds(o)'
    BY <1>1, <2>1, <2>2 DEF LoginHolds, Login!Isolated
  <2> QED
    BY <1>1, <2>1, <2>3, <2>4, SessionStep
<1>3. CASE Login!Reconfigure
  <2>1. UNCHANGED <<seat, patch, login, session, checking, overlapped>> /\ command' = FALSE
    BY <1>3 DEF Login!Reconfigure
  <2>2. \A o \in Logins : LoginHolds(o)'
    BY <1>1, <2>1 DEF LoginHolds
  <2> QED
    BY <1>1, <2>1, <2>2, SessionStep
<1> QED
  BY <1>2, <1>3

LEMMA LoginNext == Login!SessionAssumption /\ LoginInv /\ [Login!Next]_(Login!sessionVars) => LoginInv'
<1> SUFFICES ASSUME Login!SessionAssumption, LoginInv, [Login!Next]_(Login!sessionVars) PROVE LoginInv'
  OBVIOUS
<1>1. ASSUME NEW h \in Homes, Login!RegisterSeat(h) PROVE LoginInv'
  <2>1. seat' \in Seats /\ Login!Isolated(seat')
    BY <1>1 DEF Login!RegisterSeat, Seats, Login!Isolated
  <2> QED
    BY <1>1, <2>1, SeatStep DEF Login!RegisterSeat
<1>2. CASE Login!RemoveSeat
  <2>1. seat' \in Seats /\ (Login!Isolated(seat) => Login!Isolated(seat'))
    BY <1>2 DEF Login!RemoveSeat, LoginInv, LoginTypes, Seats, Login!Isolated
  <2> QED
    BY <1>2, <2>1, SeatStep DEF Login!RemoveSeat
<1>3. CASE UNCHANGED Login!sessionVars
  <2>1. \A o \in Logins : LoginHolds(o)'
    BY <1>3 DEF Login!sessionVars, LoginInv, LoginHolds
  <2> QED
    BY <1>3, <2>1, SessionStep DEF Login!sessionVars, LoginInv, LoginTypes
<1> QED
  BY <1>1, <1>2, <1>3, ClockSteps, PatchSteps, LoginSteps DEF Login!Next

\* No login runs, or waits for its user, with a configuration outside its home,
\* not even when two changes that were each checked leave such a seat behind;
\* the seat is so only if changes of it have overlapped; and a login is given
\* up as expired only after its time (seats_api/router.py:83-100,
\* sessions_api/service.py:41-160).
THEOREM LoginsStayIsolated == Login!SessionAssumption /\ Login!Spec => [](Login!LoginsIsolated /\ Login!TypeOK)
<1> SUFFICES ASSUME Login!SessionAssumption PROVE Login!Spec => [](Login!LoginsIsolated /\ Login!TypeOK)
  OBVIOUS
<1>1. Login!Init => LoginInv
  BY LoginInit
<1>2. LoginInv /\ [Login!Next]_(Login!sessionVars) => LoginInv'
  BY LoginNext
<1>3. LoginInv => Login!LoginsIsolated /\ Login!TypeOK
  BY LoginInvHolds
<1> QED
  BY <1>1, <1>2, <1>3, PTL DEF Login!Spec

-----------------------------------------------------------------------------
(* Sweeps of the monitor (HealthMonitor): each one whose results are true   *)
(* leaves one component less that is shown wrong.                           *)

Lapses == [time : Nat, components : SUBSET Health!Components]
SweepRecords == [at : {"none", "probes", "alerts"}, seen : Seq(Health!Statuses), pruned : SUBSET Lapses]
HealthTypes ==
    /\ clock \in Nat
    /\ health \in [Health!Components -> Health!Statuses]
    /\ known \in [Health!Components -> Health!Statuses]
    /\ sweep \in [Sweeps -> SweepRecords]
    /\ \A s \in Sweeps : Len(sweep[s].seen) <= Len(Tracked)
    /\ failures \subseteq Lapses
    /\ alert \in BOOLEAN
    /\ settled \in 0 .. Len(Tracked) + 1

CatchesUp == settled > 0 =>
    Cardinality(Health!Wrong) <= (IF settled < Len(Tracked) THEN Len(Tracked) - settled ELSE 0)
Alarmed ==
    settled > Len(Tracked) /\ Cardinality({c \in Health!Components : health[c] = "DOWN"}) >= CascadeSize => alert
HealthInv == HealthTypes /\ CatchesUp /\ Alarmed

-----------------------------------------------------------------------------
\* A set of naturals that is not empty has a least one.
LEMMA LeastNat ==
    ASSUME NEW D \in SUBSET Nat, D # {}
    PROVE  \E x \in D : \A y \in D : x <= y
<1>1. PICK R : R = OpToRel(<, Nat)
  OBVIOUS
<1>2. IsWellFoundedOn(R, Nat)
  BY <1>1, NatLessThanWellFounded
<1>3. \E x \in D : \A y \in D : ~ (<<y, x>> \in R)
  <2>1. D \subseteq Nat
    OBVIOUS
  <2> QED
    BY <1>2, <2>1, WFMin
<1>4. PICK x \in D : \A y \in D : <<y, x>> \notin R
  BY <1>3
<1>5. ASSUME NEW y \in D PROVE x <= y
  <2>1. x \in Nat /\ y \in Nat
    OBVIOUS
  <2>2. y < x => <<y, x>> \in R
    BY <1>1, <2>1 DEF OpToRel
  <2> QED
    BY <1>4, <2>1, <2>2
<1> QED
  BY <1>5

LEMMA MinIsIn == ASSUME NEW D \in SUBSET Nat, D # {} PROVE Health!Min(D) \in D
  BY LeastNat DEF Health!Min

LEMMA LesserOf ==
    ASSUME NEW a \in Int, NEW b \in Int
    PROVE  /\ Health!Min({a, b}) = IF a <= b THEN a ELSE b
           /\ Health!Max({a, b}) = IF a >= b THEN a ELSE b
<1>1. Health!Min({a, b}) = IF a <= b THEN a ELSE b
  <2>1. \E x \in {a, b} : \A y \in {a, b} : x <= y
    OBVIOUS
  <2>2. Health!Min({a, b}) \in {a, b} /\ \A y \in {a, b} : Health!Min({a, b}) <= y
    BY <2>1 DEF Health!Min
  <2> QED
    BY <2>2
<1>2. Health!Max({a, b}) = IF a >= b THEN a ELSE b
  <2>1. \E x \in {a, b} : \A y \in {a, b} : x >= y
    OBVIOUS
  <2>2. Health!Max({a, b}) \in {a, b} /\ \A y \in {a, b} : Health!Max({a, b}) >= y
    BY <2>1 DEF Health!Max
  <2> QED
    BY <2>2
<1> QED
  BY <1>1, <1>2

LEMMA MonitorCardinality == \A D : Health!Cardinality(D) = Cardinality(D)
  BY DEF Health!Cardinality, Cardinality

LEMMA TrackedAreFew ==
    ASSUME Health!MonitorAssumption
    PROVE  /\ Len(Tracked) \in Nat /\ DOMAIN Tracked = 1 .. Len(Tracked)
           /\ Health!Components = {Tracked[i] : i \in 1 .. Len(Tracked)}
           /\ \A D \in SUBSET Health!Components :
                IsFiniteSet(D) /\ Cardinality(D) \in Nat /\ Cardinality(D) <= Len(Tracked)
<1>1. Len(Tracked) \in Nat /\ DOMAIN Tracked = 1 .. Len(Tracked)
  BY DEF Health!MonitorAssumption
<1>2. Health!Components = {Tracked[i] : i \in 1 .. Len(Tracked)}
  BY <1>1 DEF Health!Components, Health!Range
<1>3. PICK n \in Nat : n = Len(Tracked)
  BY <1>1
<1>4. IsFiniteSet(1 .. n) /\ Cardinality(1 .. n) = n
  BY FS_Interval
<1>5. Tracked \in Surjection(1 .. n, Health!Components)
  <2>1. Tracked \in [1 .. n -> Health!Components]
    BY <1>1, <1>2, <1>3 DEF Health!MonitorAssumption
  <2>2. \A c \in Health!Components : \E i \in 1 .. n : Tracked[i] = c
    BY <1>2, <1>3
  <2> QED
    BY <2>1, <2>2 DEF Surjection
<1>6. IsFiniteSet(Health!Components) /\ Cardinality(Health!Components) <= n
  BY <1>4, <1>5, FS_Surjection
<1>7. ASSUME NEW D \in SUBSET Health!Components
      PROVE  IsFiniteSet(D) /\ Cardinality(D) \in Nat /\ Cardinality(D) <= Len(Tracked)
  <2>1. IsFiniteSet(D) /\ Cardinality(D) <= Cardinality(Health!Components)
    BY <1>6, FS_Subset
  <2>2. Cardinality(D) \in Nat /\ Cardinality(Health!Components) \in Nat
    BY <1>6, <2>1, FS_CardinalityType
  <2> QED
    BY <1>3, <1>6, <2>1, <2>2
<1> QED
  BY <1>1, <1>2, <1>7

LEMMA HealthShows ==
    ASSUME Health!MonitorAssumption, HealthInv
    PROVE  Health!ShowsTruth /\ Health!TypeOK
<1>1. Len(Tracked) \in Nat /\ settled \in Nat /\ Cardinality(Health!Wrong) \in Nat
      /\ IsFiniteSet(Health!Wrong) /\ Cardinality(Health!Wrong) <= Len(Tracked)
  BY TrackedAreFew DEF HealthInv, HealthTypes, Health!Wrong
<1>2. settled > 0 => Health!Cardinality(Health!Wrong) + settled <= Health!Max({Len(Tracked), settled})
  <2>1. Health!Cardinality(Health!Wrong) = Cardinality(Health!Wrong)
    BY MonitorCardinality
  <2>2. Health!Max({Len(Tracked), settled}) = IF Len(Tracked) >= settled THEN Len(Tracked) ELSE settled
    <3>1. PICK n \in Int, k \in Int : n = Len(Tracked) /\ k = settled
      BY <1>1
    <3> QED
      BY <3>1, LesserOf
  <2>3. settled > 0 => Cardinality(Health!Wrong) <= (IF settled < Len(Tracked) THEN Len(Tracked) - settled ELSE 0)
    BY DEF HealthInv, CatchesUp
  <2> QED
    BY <1>1, <2>1, <2>2, <2>3
<1>3. settled >= Len(Tracked) => Health!Wrong = {}
  <2>1. settled >= Len(Tracked) => Cardinality(Health!Wrong) = 0
    BY <1>1 DEF HealthInv, CatchesUp
  <2> QED
    BY <1>1, <2>1, FS_EmptySet
<1>4. Health!ShowsTruth
  <2>1. Health!Cardinality({c \in Health!Components : health[c] = "DOWN"})
          = Cardinality({c \in Health!Components : health[c] = "DOWN"})
    BY MonitorCardinality
  <2> QED
    BY <1>2, <1>3, <2>1 DEF HealthInv, Alarmed, Health!ShowsTruth
<1>5. Health!TypeOK
  BY DEF HealthInv, HealthTypes, Health!TypeOK
<1> QED
  BY <1>4, <1>5

LEMMA HealthInit == Health!MonitorAssumption /\ Health!Init => HealthInv
<1> SUFFICES ASSUME Health!MonitorAssumption, Health!Init PROVE HealthInv
  OBVIOUS
<1>1. Health!NoSweep \in SweepRecords /\ Len(Health!NoSweep.seen) = 0
  BY DEF Health!NoSweep, SweepRecords
<1>2. HealthTypes
  <2>1. settled \in 0 .. Len(Tracked) + 1
    BY TrackedAreFew DEF Health!Init
  <2>2. \A s \in Sweeps : Len(sweep[s].seen) <= Len(Tracked)
    BY <1>1, TrackedAreFew DEF Health!Init
  <2> QED
    BY <1>1, <2>1, <2>2 DEF Health!Init, HealthTypes, Health!Statuses
<1> QED
  BY <1>2, TrackedAreFew DEF Health!Init, HealthInv, CatchesUp, Alarmed

\* The results of a sweep that still hold when they are read.
LEMMA TrueSweep ==
    ASSUME Health!MonitorAssumption, HealthInv, NEW s \in Sweeps, Health!ApplySweep(s),
           \A i \in DOMAIN sweep[s].seen : sweep[s].seen[i] = health[Tracked[i]]
    PROVE  CatchesUp' /\ Alarmed'
<1>1. PICK seen \in Seq(Health!Statuses) : seen = sweep[s].seen
  BY DEF HealthInv, HealthTypes, SweepRecords
<1>2. PICK n \in Nat : n = Len(Tracked) /\ Len(seen) = n
  BY <1>1, TrackedAreFew DEF Health!ApplySweep
<1>3. /\ DOMAIN seen = 1 .. n
      /\ \A c \in Health!Components : \E i \in 1 .. n : c = Tracked[i]
      /\ \A i \in 1 .. n : Tracked[i] \in Health!Components /\ seen[i] = health[Tracked[i]]
  BY <1>1, <1>2, TrackedAreFew
<1>4. settled \in 0 .. n + 1 /\ health' = health
      /\ settled' = IF settled < n THEN settled + 1 ELSE n + 1
  <2>1. settled' = Health!Min({settled + 1, Len(Tracked) + 1}) /\ health' = health
    BY DEF Health!ApplySweep
  <2>2. settled \in 0 .. n + 1
    BY <1>2 DEF HealthInv, HealthTypes
  <2> QED
    BY <1>2, <2>1, <2>2, LesserOf
<1>5. known' = Health!Committed(seen)
  BY <1>1 DEF Health!ApplySweep
<1>6. CASE Health!Differs(seen) = {}
  <2>1. known' = known
    BY <1>5, <1>6 DEF Health!Committed
  <2>2. \A c \in Health!Components : known[c] = health[c]
    BY <1>3, <1>6 DEF Health!Differs
  <2>3. Health!Wrong' = {}
    BY <1>4, <2>1, <2>2 DEF Health!Wrong
  <2>4. CatchesUp'
    BY <1>2, <1>4, <2>3, FS_EmptySet DEF CatchesUp
  <2>5. ASSUME settled' > n, Cardinality({c \in Health!Components : health[c] = "DOWN"}) >= CascadeSize
        PROVE  alert'
    <3>1. PICK down : down = {Tracked[i] : i \in {j \in DOMAIN seen : seen[j] = "DOWN"}}
      OBVIOUS
    <3>2. down = {c \in Health!Components : health[c] = "DOWN"}
      <4>1. \A c \in down : c \in Health!Components /\ health[c] = "DOWN"
        BY <1>3, <3>1
      <4>2. ASSUME NEW c \in Health!Components, health[c] = "DOWN" PROVE c \in down
        BY <1>3, <3>1, <4>2
      <4> QED
        BY <4>1, <4>2
    <3>3. down # {} /\ IsFiniteSet(down) /\ Cardinality(down) \in Nat /\ CascadeSize \in Nat \ {0}
      BY <2>5, <3>2, TrackedAreFew, FS_EmptySet DEF Health!MonitorAssumption
    <3>4. PICK log : log = failures \cup {[time |-> clock, components |-> down]}
      OBVIOUS
    <3>5. alert' = (alert \/ Health!Cardinality(Health!Failing(log)) >= CascadeSize)
      BY <1>1, <1>6, <3>1, <3>3, <3>4 DEF Health!ApplySweep
    <3>6. Health!Failing(log) \subseteq Health!Components
      BY <3>2, <3>4 DEF Health!Failing, Health!Recent, HealthInv, HealthTypes, Lapses
    <3>7. down \subseteq Health!Failing(log)
      <4>1. clock - clock < Remembered
        BY DEF HealthInv, HealthTypes, Health!MonitorAssumption
      <4>2. [time |-> clock, components |-> down] \in Health!Recent(log)
        BY <3>4, <4>1 DEF Health!Recent
      <4> QED
        BY <4>2 DEF Health!Failing
    <3>8. IsFiniteSet(Health!Failing(log)) /\ Cardinality(Health!Failing(log)) \in Nat
      BY <3>6, TrackedAreFew
    <3>9. Cardinality(down) <= Cardinality(Health!Failing(log))
      BY <3>7, <3>8, FS_Subset
    <3>10. Health!Cardinality(Health!Failing(log)) = Cardinality(Health!Failing(log))
      BY MonitorCardinality
    <3>11. Cardinality(down) >= CascadeSize
      BY <2>5, <3>2
    <3>12. Health!Cardinality(Health!Failing(log)) >= CascadeSize
      BY <3>3, <3>8, <3>9, <3>10, <3>11
    <3> QED
      BY <3>5, <3>12, Zenon
  <2>6. Alarmed'
    BY <1>2, <1>4, <2>5 DEF Alarmed
  <2> QED
    BY <2>4, <2>6
<1>7. CASE Health!Differs(seen) # {}
  <2>1. PICK i : i = Health!Min(Health!Differs(seen))
    OBVIOUS
  <2>2. i \in 1 .. n /\ seen[i] # known[Tracked[i]]
    <3>1. Health!Differs(seen) \in SUBSET Nat
      BY <1>3 DEF Health!Differs
    <3> QED
      BY <1>3, <1>7, <2>1, <3>1, MinIsIn DEF Health!Differs
  <2>3. PICK c \in Health!Components : c = Tracked[i]
    BY <1>3, <2>2
  <2>4. known' = [known EXCEPT ![c] = health[c]] /\ known[c] # health[c]
    BY <1>3, <1>5, <1>7, <2>1, <2>2, <2>3 DEF Health!Committed
  <2>5. Health!Wrong' = Health!Wrong \ {c} /\ c \in Health!Wrong
    BY <1>4, <2>4 DEF Health!Wrong, HealthInv, HealthTypes
  <2>6. IsFiniteSet(Health!Wrong) /\ Cardinality(Health!Wrong) \in Nat /\ Cardinality(Health!Wrong) <= n
    BY <1>2, TrackedAreFew DEF Health!Wrong
  <2>7. Cardinality(Health!Wrong') = Cardinality(Health!Wrong) - 1 /\ Cardinality(Health!Wrong) # 0
    BY <2>5, <2>6, FS_RemoveElement, FS_EmptySet
  <2>8. settled < n
    BY <1>2, <1>4, <2>2, <2>6, <2>7 DEF HealthInv, CatchesUp
  <2>9. CatchesUp'
    BY <1>2, <1>4, <2>6, <2>7, <2>8 DEF HealthInv, CatchesUp
  <2>10. Alarmed'
    BY <1>2, <1>4, <2>8 DEF Alarmed
  <2> QED
    BY <2>9, <2>10
<1> QED
  BY <1>6, <1>7

LEMMA SweepApplied ==
    ASSUME Health!MonitorAssumption, HealthInv, NEW s \in Sweeps, Health!ApplySweep(s)
    PROVE  HealthInv'
<1>1. PICK seen \in Seq(Health!Statuses) : seen = sweep[s].seen
  BY DEF HealthInv, HealthTypes, SweepRecords
<1>2. PICK n \in Nat : n = Len(Tracked) /\ Len(seen) = n
  BY <1>1, TrackedAreFew DEF Health!ApplySweep
<1>3. DOMAIN seen = 1 .. n /\ \A i \in 1 .. n : Tracked[i] \in Health!Components /\ seen[i] \in Health!Statuses
  BY <1>1, <1>2, TrackedAreFew
<1>4. known' \in [Health!Components -> Health!Statuses]
  <2>1. known' = Health!Committed(seen)
    BY <1>1 DEF Health!ApplySweep
  <2>2. CASE Health!Differs(seen) = {}
    BY <2>1, <2>2 DEF Health!Committed, HealthInv, HealthTypes
  <2>3. CASE Health!Differs(seen) # {}
    <3>1. Health!Differs(seen) \in SUBSET Nat
      BY <1>3 DEF Health!Differs
    <3>2. Health!Min(Health!Differs(seen)) \in 1 .. n
      BY <1>3, <2>3, <3>1, MinIsIn DEF Health!Differs
    <3> QED
      BY <1>3, <2>1, <2>3, <3>2 DEF Health!Committed, HealthInv, HealthTypes
  <2> QED
    BY <2>2, <2>3
<1>5. PICK log : /\ log = failures \cup {[time |-> clock, components |->
                                       {Tracked[i] : i \in {j \in DOMAIN seen : seen[j] = "DOWN"}}]}
                 /\ log \subseteq Lapses /\ Health!Recent(log) \subseteq Lapses
  <2>1. PICK down : down = {Tracked[i] : i \in {j \in DOMAIN seen : seen[j] = "DOWN"}}
    OBVIOUS
  <2>2. down \subseteq Health!Components
    BY <1>3, <2>1
  <2>3. [time |-> clock, components |-> down] \in Lapses
    BY <2>2 DEF HealthInv, HealthTypes, Lapses
  <2>4. PICK log : log = failures \cup {[time |-> clock, components |-> down]}
    OBVIOUS
  <2>5. log \subseteq Lapses
    BY <2>3, <2>4 DEF HealthInv, HealthTypes
  <2>6. Health!Recent(log) \subseteq log
    BY DEF Health!Recent
  <2> QED
    BY <2>1, <2>4, <2>5, <2>6
<1>6. settled' \in 0 .. Len(Tracked) + 1
  <2>1. settled' = 0 \/ settled' = Health!Min({settled + 1, Len(Tracked) + 1})
    BY DEF Health!ApplySweep
  <2>2. settled \in 0 .. n + 1
    BY <1>2 DEF HealthInv, HealthTypes
  <2> QED
    BY <1>2, <2>1, <2>2, LesserOf
<1>7. PICK q : q = [at |-> "alerts", seen |-> <<>>, pruned |-> Health!Recent(log)]
  OBVIOUS
<1>8. /\ failures' \subseteq Lapses
      /\ sweep' \in [Sweeps -> SweepRecords] /\ \A x \in Sweeps : Len(sweep'[x].seen) <= Len(Tracked)
  <2> DEFINE Down == {Tracked[i] : i \in {j \in DOMAIN seen : seen[j] = "DOWN"}}
             Log == failures \cup {[time |-> clock, components |-> Down]}
             Cascade == Health!Differs(seen) = {} /\ Down # {}
                          /\ Health!Cardinality(Health!Failing(Log)) >= CascadeSize
  <2>0. /\ failures' = IF Cascade THEN Log ELSE IF Health!Differs(seen) = {} /\ Down # {}
                                               THEN Health!Recent(Log) ELSE failures
        /\ sweep' = [sweep EXCEPT ![s] = IF Cascade THEN [at |-> "alerts", seen |-> <<>>, pruned |-> Health!Recent(Log)]
                                         ELSE Health!NoSweep]
    BY <1>1 DEF Health!ApplySweep
  <2>3. Log = log
    BY <1>5
  <2> HIDE DEF Cascade, Down, Log
  <2>1. failures' = log \/ failures' = Health!Recent(log) \/ failures' = failures
    BY <2>0, <2>3
  <2>2. sweep' = [sweep EXCEPT ![s] = q] \/ sweep' = [sweep EXCEPT ![s] = Health!NoSweep]
    BY <1>7, <2>0, <2>3
  <2>4. Health!Recent(log) \in SUBSET Lapses
    BY <1>5
  <2>5. q \in SweepRecords /\ Len(q.seen) = 0
    BY <1>7, <2>4 DEF SweepRecords
  <2>6. Health!NoSweep \in SweepRecords /\ Len(Health!NoSweep.seen) = 0
    BY DEF SweepRecords, Health!NoSweep
  <2>7. PICK z \in SweepRecords : Len(z.seen) = 0 /\ sweep' = [sweep EXCEPT ![s] = z]
    BY <2>2, <2>5, <2>6
  <2>8. sweep' \in [Sweeps -> SweepRecords] /\ \A x \in Sweeps : Len(sweep'[x].seen) <= Len(Tracked)
    BY <1>2, <2>7 DEF HealthInv, HealthTypes
  <2>9. failures' \subseteq Lapses
    BY <1>5, <2>1 DEF HealthInv, HealthTypes
  <2> QED
    BY <2>8, <2>9
<1>9. UNCHANGED <<clock, health>> /\ alert' \in BOOLEAN
  BY DEF Health!ApplySweep, HealthInv, HealthTypes
<1>10. HealthTypes'
  BY <1>4, <1>6, <1>8, <1>9 DEF HealthInv, HealthTypes
<1>11. CatchesUp' /\ Alarmed'
  <2>1. CASE \E i \in DOMAIN seen : seen[i] # health[Tracked[i]]
    <3>1. settled' = 0
      BY <1>1, <2>1 DEF Health!ApplySweep
    <3> QED
      BY <1>2, <3>1 DEF CatchesUp, Alarmed
  <2>2. CASE \A i \in DOMAIN seen : seen[i] = health[Tracked[i]]
    BY <1>1, <2>2, TrueSweep
  <2> QED
    BY <2>1, <2>2
<1> QED
  BY <1>10, <1>11 DEF HealthInv

LEMMA HealthStep == Health!MonitorAssumption /\ HealthInv /\ [Health!Next]_(Health!healthVars) => HealthInv'
<1> SUFFICES ASSUME Health!MonitorAssumption, HealthInv, [Health!Next]_(Health!healthVars) PROVE HealthInv'
  OBVIOUS
<1>1. Len(Tracked) \in Nat /\ DOMAIN Tracked = 1 .. Len(Tracked)
      /\ \A i \in 1 .. Len(Tracked) : Tracked[i] \in Health!Components
  BY TrackedAreFew
<1>2. ASSUME NEW c \in Health!Components, NEW status \in Health!Statuses, Health!HealthChanges(c, status)
      PROVE  HealthInv'
  <2>1. HealthTypes' /\ settled' = 0
    BY <1>1, <1>2 DEF Health!HealthChanges, HealthInv, HealthTypes
  <2> QED
    BY <1>1, <2>1 DEF HealthInv, CatchesUp, Alarmed
<1>3. ASSUME NEW s \in Sweeps, NEW q \in SweepRecords,
             sweep' = [sweep EXCEPT ![s] = q], Len(q.seen) <= Len(Tracked),
             UNCHANGED <<clock, health, known, failures, alert, settled>>
      PROVE  HealthInv'
  <2>1. HealthTypes'
    BY <1>3 DEF HealthInv, HealthTypes
  <2> QED
    BY <1>3, <2>1 DEF HealthInv, CatchesUp, Alarmed, Health!Wrong
<1>4. ASSUME NEW s \in Sweeps, Health!BeginSweep(s) PROVE HealthInv'
  <2>1. PICK q : q = [sweep[s] EXCEPT !.at = "probes"]
    OBVIOUS
  <2>2. q \in SweepRecords /\ Len(q.seen) <= Len(Tracked)
    BY <2>1 DEF HealthInv, HealthTypes, SweepRecords
  <2> QED
    BY <1>3, <1>4, <2>1, <2>2 DEF Health!BeginSweep
<1>5. ASSUME NEW s \in Sweeps, Health!Probe(s) PROVE HealthInv'
  <2>1. PICK seen \in Seq(Health!Statuses) : seen = sweep[s].seen
    BY DEF HealthInv, HealthTypes, SweepRecords
  <2>2. Len(seen) \in Nat /\ Len(seen) < Len(Tracked)
    BY <1>5, <2>1 DEF Health!Probe
  <2>3. PICK k \in 1 .. Len(Tracked) : k = Len(seen) + 1
    BY <1>1, <2>2
  <2>4. health[Tracked[k]] \in Health!Statuses
    BY <1>1 DEF HealthInv, HealthTypes
  <2>5. PICK longer : longer = Append(seen, health[Tracked[k]])
    OBVIOUS
  <2>6. longer \in Seq(Health!Statuses) /\ Len(longer) = k
    BY <2>3, <2>4, <2>5
  <2>7. PICK q : q = [sweep[s] EXCEPT !.seen = longer]
    OBVIOUS
  <2>8. q \in SweepRecords /\ q.seen = longer
    BY <2>6, <2>7 DEF HealthInv, HealthTypes, SweepRecords
  <2>9. sweep' = [sweep EXCEPT ![s] = q]
    BY <1>5, <2>1, <2>3, <2>5, <2>7 DEF Health!Probe, HealthInv, HealthTypes
  <2> QED
    <3>1. Len(q.seen) <= Len(Tracked)
      BY <1>1, <2>3, <2>6, <2>8
    <3>2. UNCHANGED <<clock, health, known, failures, alert, settled>>
      BY <1>5 DEF Health!Probe
    <3> QED
      BY <1>3, <2>8, <2>9, <3>1, <3>2
<1>6. ASSUME NEW s \in Sweeps, Health!Prune(s) PROVE HealthInv'
  <2>1. /\ sweep' = [sweep EXCEPT ![s] = Health!NoSweep] /\ failures' = sweep[s].pruned
        /\ UNCHANGED <<clock, health, known, alert, settled>>
    BY <1>6 DEF Health!Prune
  <2>2. Health!NoSweep \in SweepRecords /\ Len(Health!NoSweep.seen) = 0
    BY DEF SweepRecords, Health!NoSweep
  <2>3. HealthTypes'
    BY <1>1, <2>1, <2>2 DEF HealthInv, HealthTypes, SweepRecords
  <2> QED
    BY <2>1, <2>3 DEF HealthInv, CatchesUp, Alarmed, Health!Wrong
<1>7. CASE UNCHANGED Health!healthVars
  <2>1. HealthTypes'
    BY <1>7 DEF Health!healthVars, HealthInv, HealthTypes
  <2> QED
    BY <1>7, <2>1 DEF Health!healthVars, HealthInv, CatchesUp, Alarmed, Health!Wrong
<1> QED
  BY <1>2, <1>4, <1>5, <1>6, <1>7, SweepApplied DEF Health!Next

\* However sweeps overlap and die in their broadcast, every one whose results
\* are true brings one component up to date: after as many as there are
\* components the monitor shows the truth, and one more raises the alert of a
\* cascade that is still there (health_monitor.py:68-146).
THEOREM MonitorShowsTruth == Health!MonitorAssumption /\ Health!Spec => [](Health!ShowsTruth /\ Health!TypeOK)
<1> SUFFICES ASSUME Health!MonitorAssumption PROVE Health!Spec => [](Health!ShowsTruth /\ Health!TypeOK)
  OBVIOUS
<1>1. Health!Init => HealthInv
  BY HealthInit
<1>2. HealthInv /\ [Health!Next]_(Health!healthVars) => HealthInv'
  BY HealthStep
<1>3. HealthInv => Health!ShowsTruth /\ Health!TypeOK
  BY HealthShows
<1> QED
  BY <1>1, <1>2, <1>3, PTL DEF Health!Spec

-----------------------------------------------------------------------------
(* The hash chain of the audit trail and the rules of the policy engine     *)
(* (Governance): no two hashes of a chain are the same, so each alteration  *)
(* shows where it was made; the rules are sorted whenever they are read,    *)
(* so the first that matches is one that decides.                           *)

Acts == {"create", "delete", "assign", "unassign", "grant", "deny"}
Parties == Gov!Roles \cup {Gov!Unbound}
Entered == [act : Acts, users : SUBSET Users, old : Parties, new : Parties]
Calls == {Gov!Idle} \cup [at : {"bind"}, user : Users, role : Gov!Roles]
         \cup [at : {"check"}, user : Users, permission : Permissions, role : Gov!Roles]
         \cup [at : {"log"}, entry : Entered]
Rulings == [at : {"idle", "sort", "rule", "audit", "decided"}, user : Users \cup {"none"},
            permission : Permissions \cup DefaultGrants \cup {"none"}, next : Nat,
            steady : BOOLEAN, granted : BOOLEAN, ran : BOOLEAN, pending : Seq(Rules)]

GovTypes ==
    /\ custom \in [CustomRoles -> (SUBSET Permissions) \cup {Gov!Undefined}]
    /\ binding \in [Users -> Gov!Roles \cup {Gov!Unbound}]
    /\ call \in [Callers -> Calls]
    /\ rules \in Seq(Rules)
    /\ ruling \in [Callers -> Rulings]

\* An entry with the hash of the one before it; all hashes of a chain differ.
Linked(e, prev) == [entry |-> e, prev |-> prev, hash |-> <<prev, e>>]
Before(list, i) == IF i = 1 THEN <<>> ELSE list[i - 1].hash
Chained(list) ==
    /\ list \in Seq({list[i] : i \in DOMAIN list})
    /\ \A i \in DOMAIN list : /\ list[i].entry \in Entered
                              /\ list[i] = Linked(list[i].entry, Before(list, i))
    /\ \A i \in DOMAIN list : list[i].hash # <<>>
    /\ \A i, j \in DOMAIN list : list[i].hash = list[j].hash => i = j

Descending(list) ==
    \A i, j \in 1 .. Len(list) : i < j => RuleOf[list[i]].priority >= RuleOf[list[j]].priority

\* The rules of highest priority among those that match.
Decide(list, u, p) ==
    {r \in {list[i] : i \in DOMAIN list} :
        /\ Gov!Matches(r, u, p)
        /\ \A o \in {list[i] : i \in DOMAIN list} :
             Gov!Matches(o, u, p) => RuleOf[o].priority <= RuleOf[r].priority}
\* What an evaluation has established about these rules, if nobody changed them.
Ruled(list, e) ==
    /\ e.at = "sort" => Descending(e.pending)
    /\ e.at \in {"rule", "audit"} => e.user \in Users
    /\ e.at = "rule" => e.next >= 1 /\ ~ e.ran /\ ~ e.granted
    /\ e.at = "rule" /\ e.steady =>
         \A j \in 1 .. Len(list) : j < e.next => ~ Gov!Matches(list[j], e.user, e.permission)
    /\ e.ran => e.granted
    /\ e.granted => e.permission \in DefaultGrants
    /\ e.at \in {"audit", "decided"} /\ e.steady =>
         LET ruled == {RuleOf[r].effect : r \in Decide(list, e.user, e.permission)} IN
           /\ ruled = {"deny"} => ~ e.granted
           /\ ruled \subseteq {"allow"} => e.granted = (e.permission \in DefaultGrants)

GovInv ==
    /\ GovTypes
    /\ Chained(trail)
    /\ Descending(rules)
    /\ \A t \in Callers : Ruled(rules, ruling[t])

-----------------------------------------------------------------------------
(* The chain. *)

LEMMA LinkedFields ==
    \A e, p : Linked(e, p).entry = e /\ Linked(e, p).prev = p /\ Linked(e, p).hash = <<p, e>>
  BY DEF Linked

LEMMA ChainIsSeq ==
    ASSUME NEW list, Chained(list)
    PROVE  /\ Len(list) \in Nat /\ DOMAIN list = 1 .. Len(list)
           /\ \A i \in 1 .. Len(list) :
                /\ list[i].entry \in Entered /\ list[i].hash # <<>>
                /\ list[i].prev = Before(list, i)
                /\ list[i].hash = <<Before(list, i), list[i].entry>>
                /\ list[i] = Linked(list[i].entry, Before(list, i))
           /\ \A i, j \in 1 .. Len(list) : list[i].hash = list[j].hash => i = j
<1>1. Len(list) \in Nat /\ DOMAIN list = 1 .. Len(list)
  BY DEF Chained
<1>2. ASSUME NEW i \in 1 .. Len(list)
      PROVE  list[i].prev = Before(list, i) /\ list[i].hash = <<Before(list, i), list[i].entry>>
  <2>1. PICK e, p : e = list[i].entry /\ p = Before(list, i)
    OBVIOUS
  <2>2. list[i] = Linked(e, p)
    BY <1>1, <2>1 DEF Chained
  <2> QED
    BY <2>1, <2>2, LinkedFields
<1> QED
  BY <1>1, <1>2 DEF Chained

\* Where an altered chain is found out.
LEMMA ToldWhere ==
    ASSUME NEW list
    PROVE  Gov!Told(list) = {i \in DOMAIN list : \/ list[i].prev # Before(list, i)
                                                 \/ list[i].hash # <<Before(list, i), list[i].entry>>}
  BY DEF Gov!Told, Gov!VerifyIntegrity, Gov!Hash, Gov!Genesis, Before

LEMMA PrefixValid ==
    ASSUME NEW list, Chained(list), NEW n \in 0 .. Len(list)
    PROVE  Gov!IsValid(SubSeq(list, 1, n))
<1>1. Len(list) \in Nat /\ DOMAIN list = 1 .. Len(list)
  BY ChainIsSeq
<1>2. PICK S : S = {list[i] : i \in DOMAIN list}
  OBVIOUS
<1>3. \A i \in 1 .. n : list[i] \in S
  BY <1>1, <1>2
<1>4. PICK s : s = SubSeq(list, 1, n)
  OBVIOUS
<1>5. /\ s \in Seq(S) /\ Len(s) = n
      /\ \A i \in 1 .. n : s[i] = list[i]
  <2>1. n \in Int /\ 1 \in Int /\ n \in Nat
    BY <1>1
  <2>2. /\ SubSeq(list, 1, n) \in Seq(S)
        /\ Len(SubSeq(list, 1, n)) = IF 1 <= n THEN n - 1 + 1 ELSE 0
        /\ \A i \in 1 .. n - 1 + 1 : SubSeq(list, 1, n)[i] = list[1 + i - 1]
    BY <1>3, <2>1, SubSeqProperties
  <2> QED
    BY <1>4, <2>1, <2>2
<1>6. DOMAIN s = 1 .. n
  BY <1>5
<1>7. \A i \in DOMAIN s : s[i].prev = Before(s, i) /\ s[i].hash = <<Before(s, i), s[i].entry>>
  <2>1. \A i \in 1 .. n : Before(s, i) = Before(list, i)
    BY <1>1, <1>5 DEF Before
  <2> QED
    BY <1>1, <1>5, <1>6, <2>1, ChainIsSeq
<1>8. Gov!Told(s) = {}
  BY <1>7, ToldWhere
<1> QED
  BY <1>4, <1>8 DEF Gov!Told, Gov!IsValid

LEMMA ForgedTyped == Gov!Forged \notin Entered
  BY DEF Gov!Forged, Gov!Entry, Entered, Acts

LEMMA AlteredTold ==
    ASSUME NEW list, Chained(list), NEW i \in DOMAIN list
    PROVE  Gov!Told([list EXCEPT ![i].entry = Gov!Forged]) = {i}
<1>1. PICK n \in Nat : n = Len(list) /\ DOMAIN list = 1 .. n
  BY ChainIsSeq
<1>2. PICK f : f = Gov!Forged
  OBVIOUS
<1>3. PICK s : s = [list EXCEPT ![i].entry = f]
  OBVIOUS
<1>4. /\ DOMAIN s = 1 .. n
      /\ \A j \in 1 .. n : j # i => s[j] = list[j]
      /\ s[i].entry = f /\ s[i].prev = list[i].prev /\ s[i].hash = list[i].hash
  BY <1>1, <1>3, ChainIsSeq DEF Linked
<1>5. \A j \in 1 .. n : Before(s, j) = Before(list, j)
  BY <1>1, <1>4 DEF Before
<1>6. \A j \in 1 .. n : list[j].prev = Before(list, j) /\ list[j].hash = <<Before(list, j), list[j].entry>>
  BY <1>1, ChainIsSeq
<1>7. list[i].entry # f
  BY <1>1, <1>2, ChainIsSeq, ForgedTyped
<1>8. s[i].hash # <<Before(s, i), s[i].entry>>
  BY <1>1, <1>4, <1>5, <1>6, <1>7
<1>9. \A j \in 1 .. n : j # i => s[j].prev = Before(s, j) /\ s[j].hash = <<Before(s, j), s[j].entry>>
  BY <1>4, <1>5, <1>6
<1>10. Gov!Told(s) = {i}
  BY <1>1, <1>4, <1>8, <1>9, ToldWhere
<1> QED
  BY <1>2, <1>3, <1>10

LEMMA RewrittenTold ==
    ASSUME NEW list, Chained(list), NEW i \in DOMAIN list
    PROVE  Gov!Told([list EXCEPT ![i].entry = Gov!Forged, ![i].hash = Gov!Hash(list[i].prev, Gov!Forged)])
             = {i + 1} \cap DOMAIN list
<1>1. PICK n \in Nat : n = Len(list) /\ DOMAIN list = 1 .. n
  BY ChainIsSeq
<1>2. PICK f : f = Gov!Forged
  OBVIOUS
<1>3. PICK s : s = [list EXCEPT ![i].entry = f, ![i].hash = <<list[i].prev, f>>]
  OBVIOUS
<1>4. /\ DOMAIN s = 1 .. n
      /\ \A j \in 1 .. n : j # i => s[j] = list[j]
      /\ s[i].entry = f /\ s[i].prev = list[i].prev /\ s[i].hash = <<list[i].prev, f>>
  BY <1>1, <1>3, ChainIsSeq DEF Linked
<1>5. \A j \in 1 .. n : j # i + 1 => Before(s, j) = Before(list, j)
  BY <1>1, <1>4 DEF Before
<1>6. \A j \in 1 .. n : list[j].prev = Before(list, j) /\ list[j].hash = <<Before(list, j), list[j].entry>>
  BY <1>1, ChainIsSeq
<1>7. list[i].entry # f
  BY <1>1, <1>2, ChainIsSeq, ForgedTyped
<1>8. \A j \in 1 .. n : j # i + 1 => s[j].prev = Before(s, j) /\ s[j].hash = <<Before(s, j), s[j].entry>>
  BY <1>1, <1>4, <1>5, <1>6
<1>9. ASSUME i + 1 \in 1 .. n PROVE s[i + 1].prev # Before(s, i + 1)
  <2>1. s[i + 1].prev = list[i].hash /\ Before(s, i + 1) = <<list[i].prev, f>>
    BY <1>1, <1>4, <1>6, <1>9 DEF Before
  <2>2. list[i].hash = <<list[i].prev, list[i].entry>>
    BY <1>1, <1>6
  <2> QED
    BY <1>7, <2>1, <2>2
<1>10. Gov!Told(s) = {i + 1} \cap DOMAIN list
  BY <1>1, <1>4, <1>8, <1>9, ToldWhere
<1> QED
  BY <1>2, <1>3, <1>10 DEF Gov!Hash

LEMMA RemoveAtIs ==
    ASSUME NEW S, NEW list \in Seq(S), NEW i \in 1 .. Len(list)
    PROVE  /\ Gov!RemoveAt(list, i) \in Seq(S) /\ Len(Gov!RemoveAt(list, i)) = Len(list) - 1
           /\ \A k \in 1 .. Len(list) - 1 :
                Gov!RemoveAt(list, i)[k] = IF k < i THEN list[k] ELSE list[k + 1]
<1>1. PICK n \in Nat : n = Len(list)
  OBVIOUS
<1>2. PICK s : s = Gov!RemoveAt(list, i)
  OBVIOUS
<1>3. \A k \in 1 .. n : list[k] \in S
  BY <1>1
<1>4. PICK a, b : a = SubSeq(list, 1, i - 1) /\ b = SubSeq(list, i + 1, n)
  OBVIOUS
<1>5. i \in Int /\ i - 1 \in Int /\ i + 1 \in Int /\ i >= 1 /\ i <= n /\ i \in 1 .. n
  BY <1>1
<1>6. a \in Seq(S) /\ Len(a) = i - 1 /\ \A k \in 1 .. i - 1 : a[k] = list[k]
  <2>1. \A k \in 1 .. i - 1 : list[k] \in S
    BY <1>3, <1>5
  <2>2. /\ SubSeq(list, 1, i - 1) \in Seq(S)
        /\ Len(SubSeq(list, 1, i - 1)) = IF 1 <= i - 1 THEN i - 1 - 1 + 1 ELSE 0
        /\ \A k \in 1 .. i - 1 - 1 + 1 : SubSeq(list, 1, i - 1)[k] = list[1 + k - 1]
    BY <1>5, <2>1, SubSeqProperties
  <2> QED
    BY <1>4, <1>5, <2>2
<1>7. b \in Seq(S) /\ Len(b) = n - i /\ \A k \in 1 .. n - i : b[k] = list[i + k]
  <2>1. \A k \in i + 1 .. n : list[k] \in S
    BY <1>3, <1>5
  <2>2. /\ SubSeq(list, i + 1, n) \in Seq(S)
        /\ Len(SubSeq(list, i + 1, n)) = IF i + 1 <= n THEN n - (i + 1) + 1 ELSE 0
        /\ \A k \in 1 .. n - (i + 1) + 1 : SubSeq(list, i + 1, n)[k] = list[i + 1 + k - 1]
    BY <1>5, <2>1, SubSeqProperties
  <2>3. b \in Seq(S) /\ Len(b) = n - i
    BY <1>4, <1>5, <2>2
  <2>4. ASSUME NEW k \in 1 .. n - i PROVE b[k] = list[i + k]
    <3>1. k \in 1 .. n - (i + 1) + 1 /\ i + 1 + k - 1 = i + k
      <4>1. k \in Int /\ 1 <= k /\ k <= n - i
        BY <1>5
      <4>2. n - (i + 1) + 1 = n - i
        BY <1>5
      <4> QED
        BY <1>5, <4>1, <4>2
    <3>2. b[k] = list[i + 1 + k - 1]
      BY <1>4, <2>2, <3>1
    <3> QED
      BY <3>1, <3>2
  <2> QED
    BY <2>3, <2>4
<1>8. s = a \o b
  BY <1>1, <1>2, <1>4 DEF Gov!RemoveAt
<1>9. /\ s \in Seq(S) /\ Len(s) = n - 1 /\ DOMAIN s = 1 .. n - 1
      /\ \A k \in 1 .. n - 1 : s[k] = IF k < i THEN list[k] ELSE list[k + 1]
  <2>1. /\ s \in Seq(S) /\ Len(s) = Len(a) + Len(b)
        /\ \A k \in 1 .. Len(a) + Len(b) : s[k] = IF k <= Len(a) THEN a[k] ELSE b[k - Len(a)]
    <3>1. /\ a \o b \in Seq(S) /\ Len(a \o b) = Len(a) + Len(b)
          /\ \A k \in 1 .. Len(a) + Len(b) : (a \o b)[k] = IF k <= Len(a) THEN a[k] ELSE b[k - Len(a)]
      BY <1>6, <1>7, ConcatProperties
    <3> QED
      BY <1>8, <3>1
  <2>2. Len(a) + Len(b) = n - 1
    BY <1>5, <1>6, <1>7
  <2>3. s \in Seq(S) /\ Len(s) = n - 1 /\ DOMAIN s = 1 .. n - 1
    BY <2>1, <2>2
  <2>4. ASSUME NEW k \in 1 .. n - 1 PROVE s[k] = IF k < i THEN list[k] ELSE list[k + 1]
    <3>1. CASE k < i
      <4>1. Len(a) = i - 1 /\ k \in 1 .. Len(a) + Len(b) /\ k <= Len(a) /\ k \in 1 .. i - 1
        BY <1>5, <1>6, <2>2, <3>1
      <4>2. s[k] = a[k] /\ a[k] = list[k]
        BY <1>6, <2>1, <4>1
      <4> QED
        BY <3>1, <4>2
    <3>2. CASE ~ (k < i)
      <4>1. s[k] = b[k - (i - 1)] /\ k - (i - 1) \in 1 .. n - i
        <5>1. Len(a) = i - 1 /\ k \in 1 .. Len(a) + Len(b) /\ ~ (k <= Len(a))
          BY <1>5, <1>6, <2>2, <3>2
        <5>2. s[k] = b[k - Len(a)]
          BY <2>1, <5>1
        <5>3. k - (i - 1) \in 1 .. n - i
          BY <1>5, <3>2
        <5> QED
          BY <5>1, <5>2, <5>3
      <4>2. b[k - (i - 1)] = list[i + (k - (i - 1))]
        BY <1>7, <4>1
      <4>3. i + (k - (i - 1)) = k + 1
        BY <1>5
      <4> QED
        BY <3>2, <4>1, <4>2, <4>3
    <3> QED
      BY <3>1, <3>2
  <2> QED
    BY <2>3, <2>4
<1> QED
  BY <1>1, <1>2, <1>9

LEMMA RemovedTold ==
    ASSUME NEW list, Chained(list), NEW i \in DOMAIN list, i < Len(list)
    PROVE  Gov!Told(Gov!RemoveAt(list, i)) = {i}
<1>1. PICK n \in Nat : n = Len(list) /\ DOMAIN list = 1 .. n
  BY ChainIsSeq
<1>5. i \in Int /\ i - 1 \in Int /\ i + 1 \in Int /\ i >= 1 /\ i < n
  BY <1>1
<1>8. PICK s : s = Gov!RemoveAt(list, i)
  OBVIOUS
<1>9. /\ DOMAIN s = 1 .. n - 1
      /\ \A k \in 1 .. n - 1 : s[k] = IF k < i THEN list[k] ELSE list[k + 1]
  <2>1. PICK S : S = {list[k] : k \in DOMAIN list}
    OBVIOUS
  <2>2. list \in Seq(S) /\ i \in 1 .. Len(list)
    BY <1>1, <2>1 DEF Chained
  <2>3. /\ Gov!RemoveAt(list, i) \in Seq(S) /\ Len(Gov!RemoveAt(list, i)) = Len(list) - 1
        /\ \A k \in 1 .. Len(list) - 1 :
             Gov!RemoveAt(list, i)[k] = IF k < i THEN list[k] ELSE list[k + 1]
    BY <2>2, RemoveAtIs
  <2> QED
    BY <1>1, <1>8, <2>3
<1>10. \A j \in 1 .. n : list[j].prev = Before(list, j) /\ list[j].hash = <<Before(list, j), list[j].entry>>
  BY <1>1, ChainIsSeq
<1>11. \A k \in 1 .. n - 1 : k # i => s[k].prev = Before(s, k) /\ s[k].hash = <<Before(s, k), s[k].entry>>
  <2>1. ASSUME NEW k \in 1 .. n - 1, k < i
        PROVE  s[k].prev = Before(s, k) /\ s[k].hash = <<Before(s, k), s[k].entry>>
    <3>1. s[k] = list[k] /\ Before(s, k) = Before(list, k)
      BY <1>5, <1>9, <2>1 DEF Before
    <3> QED
      BY <1>10, <3>1
  <2>2. ASSUME NEW k \in 1 .. n - 1, k > i
        PROVE  s[k].prev = Before(s, k) /\ s[k].hash = <<Before(s, k), s[k].entry>>
    <3>1. s[k] = list[k + 1] /\ s[k - 1] = list[k]
      BY <1>5, <1>9, <2>2
    <3>2. Before(s, k) = list[k].hash /\ Before(list, k + 1) = list[k].hash
      BY <1>5, <2>2, <3>1 DEF Before
    <3>3. k + 1 \in 1 .. n
      BY <1>5, <2>2
    <3> QED
      BY <1>10, <3>1, <3>2, <3>3
  <2> QED
    BY <1>5, <2>1, <2>2
<1>12. s[i].prev # Before(s, i)
  <2>1. s[i].prev = list[i].hash
    <3>1. s[i] = list[i + 1] /\ i + 1 \in 1 .. n
      BY <1>5, <1>9
    <3> QED
      BY <1>5, <1>10, <3>1 DEF Before
  <2>2. CASE i = 1
    BY <1>1, <2>1, <2>2, ChainIsSeq DEF Before
  <2>3. CASE i # 1
    <3>1. Before(s, i) = list[i - 1].hash /\ i - 1 \in 1 .. n
      BY <1>5, <1>9, <2>3 DEF Before
    <3> QED
      BY <1>1, <1>5, <2>1, <3>1, ChainIsSeq
  <2> QED
    BY <2>2, <2>3
<1>13. Gov!Told(s) = {i}
  <2>1. i \in 1 .. n - 1
    BY <1>5
  <2> QED
    BY <1>9, <1>11, <1>12, <2>1, ToldWhere
<1> QED
  BY <1>8, <1>13

LEMMA ExchangedTold ==
    ASSUME NEW list, Chained(list), NEW i \in DOMAIN list, i < Len(list)
    PROVE  {i, i + 1} \subseteq Gov!Told([list EXCEPT ![i] = list[i + 1], ![i + 1] = list[i]])
<1>1. PICK n \in Nat : n = Len(list) /\ DOMAIN list = 1 .. n
  BY ChainIsSeq
<1>2. PICK s : s = [list EXCEPT ![i] = list[i + 1], ![i + 1] = list[i]]
  OBVIOUS
<1>3. i \in 1 .. n /\ i + 1 \in 1 .. n /\ i # i + 1
  BY <1>1
<1>4. /\ DOMAIN s = 1 .. n /\ s[i] = list[i + 1] /\ s[i + 1] = list[i]
      /\ \A j \in 1 .. n : j < i => s[j] = list[j]
  BY <1>1, <1>2, <1>3
<1>5. \A j \in 1 .. n : list[j].prev = Before(list, j)
  BY <1>1, ChainIsSeq
<1>6. \A j, k \in 1 .. n : list[j].hash # <<>> /\ (list[j].hash = list[k].hash => j = k)
  BY <1>1, ChainIsSeq
<1>7. s[i].prev # Before(s, i)
  <2>1. s[i].prev = list[i].hash
    BY <1>3, <1>4, <1>5 DEF Before
  <2>2. CASE i = 1
    BY <1>3, <1>6, <2>1, <2>2 DEF Before
  <2>3. CASE i # 1
    <3>1. Before(s, i) = list[i - 1].hash /\ i - 1 \in 1 .. n
      BY <1>3, <1>4, <2>3 DEF Before
    <3> QED
      BY <1>3, <1>6, <2>1, <3>1
  <2> QED
    BY <2>2, <2>3
<1>8. s[i + 1].prev # Before(s, i + 1)
  <2>1. s[i + 1].prev = Before(list, i) /\ Before(s, i + 1) = list[i + 1].hash
    BY <1>3, <1>4, <1>5 DEF Before
  <2>2. CASE i = 1
    BY <1>3, <1>6, <2>1, <2>2 DEF Before
  <2>3. CASE i # 1
    <3>1. Before(list, i) = list[i - 1].hash /\ i - 1 \in 1 .. n
      BY <1>3, <2>3 DEF Before
    <3> QED
      BY <1>3, <1>6, <2>1, <3>1
  <2> QED
    BY <2>2, <2>3
<1>9. {i, i + 1} \subseteq Gov!Told(s)
  BY <1>3, <1>4, <1>7, <1>8, ToldWhere
<1> QED
  BY <1>2, <1>9

\* A new entry has a hash that no entry has.
LEMMA ChainGrows ==
    ASSUME NEW list, Chained(list), NEW e \in Entered
    PROVE  Chained(Gov!Record(list, e))
<1>1. PICK n \in Nat : n = Len(list) /\ DOMAIN list = 1 .. n
  BY ChainIsSeq
<1>2. PICK S : S = {list[i] : i \in DOMAIN list}
  OBVIOUS
<1>3. list \in Seq(S)
  BY <1>2 DEF Chained
<1>4. PICK p : p = Gov!LastHash(list)
  OBVIOUS
<1>5. p = Before(list, n + 1)
  <2>1. list = <<>> <=> n = 0
    BY <1>1, <1>3
  <2> QED
    BY <1>1, <1>4, <2>1 DEF Gov!LastHash, Gov!Last, Gov!Genesis, Before
<1>6. PICK x : x = Linked(e, p)
  OBVIOUS
<1>7. PICK s : s = Append(list, x)
  OBVIOUS
<1>8. s = Gov!Record(list, e)
  BY <1>4, <1>6, <1>7 DEF Gov!Record, Gov!Hash, Linked
<1>9. x.entry = e /\ x.prev = p /\ x.hash = <<p, e>> /\ x = Linked(x.entry, p)
  BY <1>6 DEF Linked
<1>10. /\ Len(s) = n + 1 /\ DOMAIN s = 1 .. n + 1 /\ s \in Seq(S \cup {x})
       /\ \A i \in 1 .. n : s[i] = list[i]
       /\ s[n + 1] = x
  <2>1. list \in Seq(S \cup {x}) /\ x \in S \cup {x}
    BY <1>3, SeqMonotonic
  <2>2. /\ s \in Seq(S \cup {x}) /\ Len(s) = Len(list) + 1
        /\ \A i \in 1 .. Len(list) : s[i] = list[i]
        /\ s[Len(list) + 1] = x
    BY <1>7, <2>1, AppendProperties
  <2> QED
    BY <1>1, <2>2
<1>11. s \in Seq({s[i] : i \in DOMAIN s})
  <2>1. {s[i] : i \in DOMAIN s} = S \cup {x}
    <3>1. \A y \in S \cup {x} : \E i \in 1 .. n + 1 : y = s[i]
      BY <1>1, <1>2, <1>10
    <3>2. \A i \in 1 .. n + 1 : s[i] \in S \cup {x}
      BY <1>1, <1>2, <1>10
    <3> QED
      BY <1>10, <3>1, <3>2
  <2> QED
    BY <1>10, <2>1
<1>12. \A i \in 1 .. n : list[i].hash # <<p, e>>
  <2> SUFFICES ASSUME NEW i \in 1 .. n, list[i].hash = <<p, e>> PROVE FALSE
    OBVIOUS
  <2>1. list[i].hash = <<Before(list, i), list[i].entry>>
    BY <1>1, ChainIsSeq
  <2>2. Before(list, i) = p
    BY <2>1
  <2>3. CASE i = 1
    <3>1. p = <<>> /\ p = list[n].hash /\ n \in 1 .. n
      BY <1>1, <1>5, <2>2, <2>3 DEF Before
    <3> QED
      BY <1>1, <3>1, ChainIsSeq
  <2>4. CASE i # 1
    <3>1. i - 1 \in 1 .. n /\ n \in 1 .. n /\ list[i - 1].hash = list[n].hash
      BY <1>1, <1>5, <2>2, <2>4 DEF Before
    <3> QED
      BY <1>1, <3>1, ChainIsSeq
  <2> QED
    BY <2>3, <2>4
<1>13. \A i \in 1 .. n + 1 : Before(s, i) = Before(list, i)
  BY <1>10 DEF Before
<1>14. \A i \in DOMAIN s : s[i].entry \in Entered /\ s[i] = Linked(s[i].entry, Before(s, i))
  <2>1. ASSUME NEW i \in 1 .. n PROVE s[i].entry \in Entered /\ s[i] = Linked(s[i].entry, Before(s, i))
    BY <1>1, <1>10, <1>13, ChainIsSeq
  <2>2. s[n + 1].entry \in Entered /\ s[n + 1] = Linked(s[n + 1].entry, Before(s, n + 1))
    BY <1>5, <1>9, <1>10, <1>13
  <2> QED
    BY <1>10, <2>1, <2>2
<1>15. \A i \in DOMAIN s : s[i].hash # <<>>
  <2>1. x.hash # <<>>
    BY <1>9
  <2>2. \A i \in 1 .. n : s[i].hash # <<>>
    BY <1>1, <1>10, ChainIsSeq
  <2> QED
    BY <1>10, <2>1, <2>2
<1>16. \A i, j \in DOMAIN s : s[i].hash = s[j].hash => i = j
  BY <1>1, <1>9, <1>10, <1>12, ChainIsSeq
<1> QED
  BY <1>8, <1>11, <1>14, <1>15, <1>16 DEF Chained

LEMMA ChainHolds == Chained(trail) => Gov!ChainTells
<1> SUFFICES ASSUME Chained(trail) PROVE Gov!ChainTells
  OBVIOUS
<1>1. \A n \in 0 .. Len(trail) : Gov!IsValid(SubSeq(trail, 1, n))
  BY PrefixValid
<1>2. \A i \in DOMAIN trail : Gov!Told([trail EXCEPT ![i].entry = Gov!Forged]) = {i}
  BY AlteredTold
<1>3. \A i \in DOMAIN trail :
        Gov!Told([trail EXCEPT ![i].entry = Gov!Forged, ![i].hash = Gov!Hash(trail[i].prev, Gov!Forged)])
          = {i + 1} \cap DOMAIN trail
  BY RewrittenTold
<1>4. \A i \in DOMAIN trail : i < Len(trail) => Gov!Told(Gov!RemoveAt(trail, i)) = {i}
  BY RemovedTold
<1>5. \A i \in DOMAIN trail : i < Len(trail) =>
        {i, i + 1} \subseteq Gov!Told([trail EXCEPT ![i] = trail[i + 1], ![i + 1] = trail[i]])
  BY ExchangedTold
<1> QED
  BY <1>1, <1>2, <1>3, <1>4, <1>5 DEF Gov!ChainTells

-----------------------------------------------------------------------------
(* The rules. *)

\* A set of first positions is an interval.
LEMMA FirstPositions ==
    ASSUME NEW n \in Nat, NEW D \in SUBSET (1 .. n),
           \A i \in D : \A j \in 1 .. n : j < i => j \in D
    PROVE  Cardinality(D) \in 0 .. n /\ D = 1 .. Cardinality(D)
<1>1. PICK k \in 0 .. n : D = 1 .. k
  <2>1. CASE D = 1 .. n
    BY <2>1
  <2>2. CASE D # 1 .. n
    <3>1. PICK out : out = (1 .. n) \ D
      OBVIOUS
    <3>2. out # {} /\ out \in SUBSET Nat
      <4>1. \E j \in 1 .. n : j \notin D
        BY <2>2
      <4>2. out \subseteq 1 .. n
        BY <3>1
      <4> QED
        BY <3>1, <4>1, <4>2
    <3>3. PICK m \in out : \A y \in out : m <= y
      BY <3>2, LeastNat
    <3>4. m \in 1 .. n /\ m \notin D
      BY <3>1, <3>3
    <3>5. \A j \in 1 .. n : j \in D <=> j < m
      BY <3>1, <3>3, <3>4
    <3>6. D = 1 .. m - 1
      <4>1. \A j \in D : j \in 1 .. n
        OBVIOUS
      <4>2. \A j \in D : j \in 1 .. m - 1
        BY <3>4, <3>5, <4>1
      <4>3. \A j \in 1 .. m - 1 : j \in D
        BY <3>4, <3>5
      <4> QED
        BY <4>2, <4>3
    <3> QED
      BY <3>4, <3>6
  <2> QED
    BY <2>1, <2>2
<1>2. Cardinality(1 .. k) = k
  BY FS_Interval
<1> QED
  BY <1>1, <1>2

LEMMA GovCardinality == \A D : Gov!Cardinality(D) = Cardinality(D)
  BY DEF Gov!Cardinality, Cardinality

\* What InsertAt makes of the list l.
Inserts(S, l, q, x) ==
    /\ Gov!InsertAt(l, q, x) \in Seq(S) /\ Len(Gov!InsertAt(l, q, x)) = Len(l) + 1
    /\ \A i \in 1 .. Len(l) + 1 : Gov!InsertAt(l, q, x)[i] =
         IF i < q THEN l[i] ELSE IF i = q THEN x ELSE l[i - 1]
LEMMA InsertAtIs ==
    ASSUME NEW S, NEW list \in Seq(S), NEW p \in 1 .. Len(list) + 1, NEW r \in S
    PROVE  Inserts(S, list, p, r)
<1>a. PICK n \in Nat : n = Len(list)
  OBVIOUS
<1>b. PICK s : s = Gov!InsertAt(list, p, r)
  OBVIOUS
<1>c. PICK k \in 0 .. n : p = k + 1 /\ k = p - 1
  <2>1. p \in Int /\ p >= 1 /\ p <= n + 1
    BY <1>a
  <2>2. p - 1 \in 0 .. n /\ p = (p - 1) + 1
    BY <2>1
  <2> QED
    BY <2>2
<1>1. PICK a, b : a = SubSeq(list, 1, k) /\ b = SubSeq(list, k + 1, n)
  OBVIOUS
<1>2. a \in Seq(S) /\ Len(a) = k /\ \A i \in 1 .. k : a[i] = list[i]
  <2>1. \A i \in 1 .. k : list[i] \in S
    BY <1>a
  <2>2. /\ SubSeq(list, 1, k) \in Seq(S)
        /\ Len(SubSeq(list, 1, k)) = IF 1 <= k THEN k - 1 + 1 ELSE 0
        /\ \A i \in 1 .. k - 1 + 1 : SubSeq(list, 1, k)[i] = list[1 + i - 1]
    BY <2>1, SubSeqProperties
  <2> QED
    BY <1>1, <2>2
<1>3. b \in Seq(S) /\ Len(b) = n - k /\ \A i \in 1 .. n - k : b[i] = list[k + i]
  <2>1. \A i \in k + 1 .. n : list[i] \in S
    BY <1>a
  <2>2. k + 1 \in Int /\ n \in Int
    OBVIOUS
  <2>3. /\ SubSeq(list, k + 1, n) \in Seq(S)
        /\ Len(SubSeq(list, k + 1, n)) = IF k + 1 <= n THEN n - (k + 1) + 1 ELSE 0
        /\ \A i \in 1 .. n - (k + 1) + 1 : SubSeq(list, k + 1, n)[i] = list[k + 1 + i - 1]
    BY <2>1, <2>2, SubSeqProperties
  <2>4. b \in Seq(S) /\ Len(b) = n - k
    BY <1>1, <2>3
  <2>5. ASSUME NEW i \in 1 .. n - k PROVE b[i] = list[k + i]
    <3>1. i \in 1 .. n - (k + 1) + 1 /\ k + 1 + i - 1 = k + i
      OBVIOUS
    <3>2. b[i] = list[k + 1 + i - 1]
      BY <1>1, <2>3, <3>1
    <3> QED
      BY <3>1, <3>2
  <2> QED
    BY <2>4, <2>5
<1>4. PICK c : c = a \o <<r>>
  OBVIOUS
<1>5. c \in Seq(S) /\ Len(c) = k + 1 /\ \A i \in 1 .. k + 1 : c[i] = IF i <= k THEN list[i] ELSE r
  <2>1. <<r>> \in Seq(S) /\ Len(<<r>>) = 1 /\ <<r>>[1] = r
    OBVIOUS
  <2>2. /\ c \in Seq(S) /\ Len(c) = Len(a) + Len(<<r>>)
        /\ \A i \in 1 .. Len(a) + Len(<<r>>) : c[i] = IF i <= Len(a) THEN a[i] ELSE <<r>>[i - Len(a)]
    BY <1>2, <1>4, <2>1, ConcatProperties
  <2> QED
    BY <1>2, <2>1, <2>2
<1>6. s = c \o b
  <2>1. s = SubSeq(list, 1, p - 1) \o <<r>> \o SubSeq(list, p, Len(list))
    BY <1>b DEF Gov!InsertAt
  <2> QED
    BY <1>1, <1>4, <1>a, <1>c, <2>1
<1>7. /\ s \in Seq(S) /\ Len(s) = Len(c) + Len(b)
      /\ \A i \in 1 .. Len(c) + Len(b) : s[i] = IF i <= Len(c) THEN c[i] ELSE b[i - Len(c)]
  <2>1. /\ c \o b \in Seq(S) /\ Len(c \o b) = Len(c) + Len(b)
        /\ \A i \in 1 .. Len(c) + Len(b) : (c \o b)[i] = IF i <= Len(c) THEN c[i] ELSE b[i - Len(c)]
    BY <1>3, <1>5, ConcatProperties
  <2> QED
    BY <1>6, <2>1
<1>8. Len(c) + Len(b) = n + 1
  BY <1>3, <1>5
<1>9. ASSUME NEW i \in 1 .. n + 1
      PROVE  s[i] = IF i <= k THEN list[i] ELSE IF i = k + 1 THEN r ELSE list[i - 1]
  <2>1. CASE i <= k + 1
    BY <1>5, <1>7, <1>8, <2>1
  <2>2. CASE i > k + 1
    <3>1. s[i] = b[i - (k + 1)] /\ i - (k + 1) \in 1 .. n - k
      BY <1>5, <1>7, <1>8, <2>2
    <3>2. k + (i - (k + 1)) = i - 1
      OBVIOUS
    <3> QED
      BY <1>3, <2>2, <3>1, <3>2
  <2> QED
    BY <2>1, <2>2
<1>10. ASSUME NEW i \in 1 .. n + 1
       PROVE  s[i] = IF i < p THEN list[i] ELSE IF i = p THEN r ELSE list[i - 1]
  <2>1. (i < p <=> i <= k) /\ (i = p <=> i = k + 1)
    BY <1>c
  <2> QED
    BY <1>9, <2>1
<1> QED
  BY <1>7, <1>8, <1>10, <1>a, <1>b DEF Inserts

LEMMA SortedDescends ==
    ASSUME Gov!GovernanceAssumption, NEW list \in Seq(Rules), Descending(list), NEW r \in Rules
    PROVE  Gov!Sorted(list, r) \in Seq(Rules) /\ Descending(Gov!Sorted(list, r))
<1>1. PICK n \in Nat : n = Len(list) /\ DOMAIN list = 1 .. n
  OBVIOUS
<1>2. PICK D : D = {i \in DOMAIN list : RuleOf[list[i]].priority >= RuleOf[r].priority}
  OBVIOUS
<1>3. \A x \in Rules : RuleOf[x].priority \in Int
  BY DEF Gov!GovernanceAssumption
<1>4. \A i \in 1 .. n : list[i] \in Rules
  BY <1>1
<1>5. ASSUME NEW i \in D, NEW j \in 1 .. n, j < i PROVE j \in D
  BY <1>1, <1>2, <1>3, <1>4, <1>5 DEF Descending
<1>6. PICK k \in 0 .. n : k = Cardinality(D) /\ D = 1 .. k
  BY <1>1, <1>2, <1>5, FirstPositions
<1>a. PICK p \in 1 .. n + 1 : p = k + 1
  OBVIOUS
<1>7. PICK s : s = Gov!InsertAt(list, p, r)
  OBVIOUS
<1>8. s = Gov!Sorted(list, r)
  <2>1. Gov!Cardinality(D) + 1 = p
    BY <1>6, <1>a, GovCardinality
  <2> QED
    BY <1>2, <1>7, <2>1 DEF Gov!Sorted
<1>9. /\ s \in Seq(Rules) /\ Len(s) = n + 1
      /\ \A i \in 1 .. n + 1 : s[i] = IF i <= k THEN list[i] ELSE IF i = k + 1 THEN r ELSE list[i - 1]
  <2>1. p \in 1 .. Len(list) + 1
    BY <1>1
  <2>2. Inserts(Rules, list, p, r)
    BY <2>1, InsertAtIs
  <2>4. /\ Gov!InsertAt(list, p, r) \in Seq(Rules) /\ Len(Gov!InsertAt(list, p, r)) = Len(list) + 1
        /\ \A i \in 1 .. Len(list) + 1 : Gov!InsertAt(list, p, r)[i] =
             IF i < p THEN list[i] ELSE IF i = p THEN r ELSE list[i - 1]
    BY <2>2 DEF Inserts
  <2>3. ASSUME NEW i \in 1 .. n + 1
        PROVE  s[i] = IF i <= k THEN list[i] ELSE IF i = k + 1 THEN r ELSE list[i - 1]
    <3>1. (i < p <=> i <= k) /\ (i = p <=> i = k + 1)
      BY <1>a
    <3> QED
      BY <1>1, <1>7, <2>4, <3>1
  <2> QED
    BY <1>1, <1>7, <2>4, <2>3
<1>10. /\ \A i \in 1 .. k : RuleOf[list[i]].priority >= RuleOf[r].priority
       /\ \A i \in 1 .. n : i > k => RuleOf[r].priority >= RuleOf[list[i]].priority
  <2>1. ASSUME NEW i \in 1 .. n
        PROVE  IF i <= k THEN RuleOf[list[i]].priority >= RuleOf[r].priority
               ELSE RuleOf[r].priority >= RuleOf[list[i]].priority
    <3>1. PICK x \in Int, y \in Int : x = RuleOf[list[i]].priority /\ y = RuleOf[r].priority
      BY <1>3, <1>4
    <3>2. i \in D <=> x >= y
      BY <1>1, <1>2, <3>1
    <3>3. i \in D <=> i <= k
      <4>1. i \in Int /\ 1 <= i /\ k \in Int
        OBVIOUS
      <4>2. i \in 1 .. k <=> i <= k
        BY <4>1
      <4> QED
        BY <1>6, <4>2
    <3> QED
      BY <3>1, <3>2, <3>3
  <2> QED
    BY <2>1
<1>11. ASSUME NEW i \in 1 .. Len(s), NEW j \in 1 .. Len(s), i < j
       PROVE  RuleOf[s[i]].priority >= RuleOf[s[j]].priority
  <2>1. i \in 1 .. n + 1 /\ j \in 1 .. n + 1
    BY <1>9
  <2>2. CASE i <= k /\ j <= k
    BY <1>1, <1>9, <1>11, <2>1, <2>2 DEF Descending
  <2>3. CASE i <= k /\ j = k + 1
    BY <1>9, <1>10, <2>1, <2>3
  <2>4. CASE i <= k /\ j > k + 1
    <3>1. s[i] = list[i] /\ s[j] = list[j - 1] /\ i \in 1 .. n /\ j - 1 \in 1 .. n /\ i < j - 1
      BY <1>9, <2>1, <2>4
    <3> QED
      BY <1>1, <3>1 DEF Descending
  <2>5. CASE i = k + 1
    <3>1. s[i] = r /\ s[j] = list[j - 1] /\ j - 1 \in 1 .. n /\ j - 1 > k
      BY <1>9, <1>11, <2>1, <2>5
    <3> QED
      BY <1>10, <3>1
  <2>6. CASE i > k + 1
    <3>1. s[i] = list[i - 1] /\ s[j] = list[j - 1] /\ i - 1 \in 1 .. n /\ j - 1 \in 1 .. n /\ i - 1 < j - 1
      BY <1>9, <1>11, <2>1, <2>6
    <3> QED
      BY <1>1, <3>1 DEF Descending
  <2> QED
    BY <1>11, <2>1, <2>2, <2>3, <2>4, <2>5, <2>6
<1> QED
  BY <1>8, <1>9, <1>11 DEF Descending

LEMMA RemovedDescends ==
    ASSUME NEW list \in Seq(Rules), Descending(list), NEW i \in DOMAIN list
    PROVE  Gov!RemoveAt(list, i) \in Seq(Rules) /\ Descending(Gov!RemoveAt(list, i))
<1>1. PICK n \in Nat : n = Len(list) /\ DOMAIN list = 1 .. n
  OBVIOUS
<1>2. PICK s : s = Gov!RemoveAt(list, i)
  OBVIOUS
<1>3. /\ s \in Seq(Rules) /\ Len(s) = n - 1
      /\ \A k \in 1 .. n - 1 : s[k] = IF k < i THEN list[k] ELSE list[k + 1]
  <2>1. i \in 1 .. Len(list)
    BY <1>1
  <2>2. /\ Gov!RemoveAt(list, i) \in Seq(Rules) /\ Len(Gov!RemoveAt(list, i)) = Len(list) - 1
        /\ \A k \in 1 .. Len(list) - 1 :
             Gov!RemoveAt(list, i)[k] = IF k < i THEN list[k] ELSE list[k + 1]
    BY <2>1, RemoveAtIs
  <2> QED
    BY <1>1, <1>2, <2>2
<1>4. ASSUME NEW k \in 1 .. Len(s), NEW j \in 1 .. Len(s), k < j
      PROVE  RuleOf[s[k]].priority >= RuleOf[s[j]].priority
  <2>1. PICK x \in 1 .. n, y \in 1 .. n : s[k] = list[x] /\ s[j] = list[y] /\ x < y
    <3>1. k \in 1 .. n - 1 /\ j \in 1 .. n - 1 /\ i \in 1 .. n
      BY <1>1, <1>3
    <3>2. CASE j < i
      BY <1>3, <1>4, <3>1, <3>2
    <3>3. CASE k < i /\ ~ (j < i)
      BY <1>3, <1>4, <3>1, <3>3
    <3>4. CASE ~ (k < i)
      <4>1. s[k] = list[k + 1] /\ s[j] = list[j + 1] /\ k + 1 \in 1 .. n /\ j + 1 \in 1 .. n /\ k + 1 < j + 1
        BY <1>3, <1>4, <3>1, <3>4
      <4> QED
        BY <4>1
    <3> QED
      BY <3>2, <3>3, <3>4
  <2> QED
    BY <1>1, <2>1 DEF Descending
<1> QED
  BY <1>2, <1>3, <1>4 DEF Descending

LEMMA FirstDecides ==
    ASSUME Gov!GovernanceAssumption, NEW list \in Seq(Rules), Descending(list), NEW u, NEW p,
           NEW k \in 1 .. Len(list), Gov!Matches(list[k], u, p),
           \A j \in 1 .. Len(list) : j < k => ~ Gov!Matches(list[j], u, p)
    PROVE  list[k] \in Decide(list, u, p)
<1>1. PICK n \in Nat : n = Len(list) /\ DOMAIN list = 1 .. n
  OBVIOUS
<1>2. k \in 1 .. n /\ list[k] \in {list[i] : i \in DOMAIN list}
  BY <1>1
<1>3. ASSUME NEW i \in 1 .. n, Gov!Matches(list[i], u, p)
      PROVE  RuleOf[list[i]].priority <= RuleOf[list[k]].priority
  <2>1. PICK x \in Int, y \in Int : x = RuleOf[list[i]].priority /\ y = RuleOf[list[k]].priority
    <3>1. list[i] \in Rules /\ list[k] \in Rules
      BY <1>1, <1>2
    <3> QED
      BY <3>1 DEF Gov!GovernanceAssumption
  <2>2. ~ (i < k)
    BY <1>1, <1>3
  <2>3. CASE i = k
    BY <2>1, <2>3
  <2>4. CASE k < i
    <3>1. y >= x
      BY <1>1, <1>2, <2>1, <2>4 DEF Descending
    <3> QED
      BY <2>1, <3>1
  <2> QED
    BY <1>2, <2>2, <2>3, <2>4
<1>4. \A o \in {list[i] : i \in DOMAIN list} :
        Gov!Matches(o, u, p) => RuleOf[o].priority <= RuleOf[list[k]].priority
  BY <1>1, <1>3
<1> QED
  BY <1>2, <1>4 DEF Decide

LEMMA NoneDecides ==
    ASSUME NEW list \in Seq(Rules), NEW u, NEW p,
           \A j \in 1 .. Len(list) : ~ Gov!Matches(list[j], u, p)
    PROVE  Decide(list, u, p) = {}
  BY DEF Decide

-----------------------------------------------------------------------------
(* The steps. *)

\* An evaluation that knows it was disturbed claims nothing of the rules.
LEMMA UnsteadyRuled ==
    ASSUME NEW l, NEW m, NEW e \in Rulings, Ruled(l, e), e.at \in {"idle", "sort"} \/ ~ e.steady
    PROVE  Ruled(m, e)
  BY DEF Ruled, Rulings

LEMMA DisturbedRuled ==
    ASSUME NEW l, NEW m, NEW e \in Rulings, Ruled(l, e)
    PROVE  [e EXCEPT !.steady = FALSE] \in Rulings /\ Ruled(m, [e EXCEPT !.steady = FALSE])
<1>1. PICK f : f = [e EXCEPT !.steady = FALSE]
  OBVIOUS
<1>2. /\ f \in Rulings
      /\ f.at = e.at /\ f.pending = e.pending /\ f.next = e.next /\ f.ran = e.ran
      /\ f.granted = e.granted /\ f.permission = e.permission /\ f.user = e.user /\ ~ f.steady
  BY <1>1 DEF Rulings
<1>3. Ruled(m, f)
  BY <1>2 DEF Ruled
<1> QED
  BY <1>1, <1>2, <1>3

\* One thread moves and the rules stay.
LEMMA RulingMoves ==
    ASSUME GovInv, NEW t \in Callers, NEW q \in Rulings, ruling' = [ruling EXCEPT ![t] = q],
           rules' = rules, Ruled(rules, q)
    PROVE  ruling' \in [Callers -> Rulings] /\ \A c \in Callers : Ruled(rules', ruling'[c])
  BY DEF GovInv, GovTypes

\* One thread changes the rules and is at q from then on.
LEMMA RulesMove ==
    ASSUME GovInv, NEW t \in Callers, NEW q \in Rulings,
           ruling' = [Gov!Disturbed(t) EXCEPT ![t] = q], Ruled(rules', q)
    PROVE  ruling' \in [Callers -> Rulings] /\ \A c \in Callers : Ruled(rules', ruling'[c])
<1>1. ruling' = [c \in Callers |-> IF c = t THEN q ELSE [ruling[c] EXCEPT !.steady = FALSE]]
  BY DEF Gov!Disturbed
<1>2. ASSUME NEW c \in Callers, c # t PROVE ruling'[c] \in Rulings /\ Ruled(rules', ruling'[c])
  <2>1. ruling[c] \in Rulings /\ Ruled(rules, ruling[c])
    BY DEF GovInv, GovTypes
  <2>2. ruling'[c] = [ruling[c] EXCEPT !.steady = FALSE]
    BY <1>1, <1>2
  <2> QED
    BY <2>1, <2>2, DisturbedRuled
<1>3. ruling'[t] = q
  BY <1>1
<1> QED
  BY <1>1, <1>2, <1>3

LEMMA GovInit == Gov!GovernanceAssumption /\ Gov!Init => GovInv
<1> SUFFICES ASSUME Gov!GovernanceAssumption, Gov!Init PROVE GovInv
  OBVIOUS
<1>1. GovTypes
  <2>1. Gov!NotRuling \in Rulings
    BY EmptySeq DEF Gov!NotRuling, Rulings
  <2>2. rules \in Seq(Rules)
    BY DEF Gov!Init
  <2>3. call \in [Callers -> Calls]
    BY DEF Gov!Init, Calls
  <2>4. ruling \in [Callers -> Rulings]
    BY <2>1 DEF Gov!Init
  <2> QED
    BY <2>2, <2>3, <2>4 DEF Gov!Init, GovTypes
<1>2. Chained(trail)
  <2>1. trail = <<>> /\ DOMAIN trail = {}
    BY DEF Gov!Init
  <2>2. trail \in Seq({trail[i] : i \in DOMAIN trail})
    BY <2>1
  <2> QED
    BY <2>1, <2>2 DEF Chained
<1>3. Descending(rules)
  BY DEF Gov!Init, Descending
<1>4. \A t \in Callers : Ruled(rules, ruling[t])
  BY DEF Gov!Init, Gov!NotRuling, Ruled
<1> QED
  BY <1>1, <1>2, <1>3, <1>4 DEF GovInv

\* What a call of RBACEngine may leave of the roles and of the threads.
RoleTypes ==
    /\ custom' \in [CustomRoles -> (SUBSET Permissions) \cup {Gov!Undefined}]
    /\ binding' \in [Users -> Gov!Roles \cup {Gov!Unbound}]
    /\ call' \in [Callers -> Calls]

LEMMA LogsTyped ==
    ASSUME GovTypes, NEW t \in Callers, NEW act \in Acts, NEW who \in SUBSET Users,
           NEW old \in Parties, NEW new \in Parties, Gov!Writes(t, Gov!Entry(act, who, old, new))
    PROVE  call' \in [Callers -> Calls]
<1>1. Gov!Entry(act, who, old, new) \in Entered
  BY DEF Gov!Entry, Entered
<1>2. PICK c : c = [at |-> "log", entry |-> Gov!Entry(act, who, old, new)]
  OBVIOUS
<1>3. c \in Calls
  BY <1>1, <1>2 DEF Calls
<1>4. call' = [call EXCEPT ![t] = c]
  BY <1>2 DEF Gov!Writes
<1> QED
  BY <1>3, <1>4 DEF GovTypes

LEMMA RolesMove ==
    ASSUME GovTypes, RoleTypes, UNCHANGED <<trail, rules, ruling>>, GovInv
    PROVE  GovInv'
  BY DEF GovTypes, RoleTypes, GovInv

LEMMA CreateKeeps ==
    ASSUME GovInv, NEW t \in Callers, NEW r \in CustomRoles, NEW g \in SUBSET Permissions,
           Gov!CreateRole(t, r, g)
    PROVE  GovInv'
<1>1. GovTypes
  BY DEF GovInv
<1>2. custom' \in [CustomRoles -> (SUBSET Permissions) \cup {Gov!Undefined}]
  BY <1>1 DEF GovTypes, Gov!CreateRole
<1>3. call' \in [Callers -> Calls]
  <2>1. r \in Parties /\ "create" \in Acts
    BY DEF Parties, Gov!Roles, Acts
  <2> QED
    BY <1>1, <2>1, LogsTyped DEF Gov!CreateRole
<1> QED
  BY <1>1, <1>2, <1>3, RolesMove DEF GovTypes, RoleTypes, Gov!CreateRole, Gov!policyVars

LEMMA DeleteKeeps ==
    ASSUME GovInv, NEW t \in Callers, NEW r \in CustomRoles, Gov!DeleteRole(t, r)
    PROVE  GovInv'
<1>1. GovTypes
  BY DEF GovInv
<1>2. custom' \in [CustomRoles -> (SUBSET Permissions) \cup {Gov!Undefined}]
  BY <1>1 DEF GovTypes, Gov!DeleteRole
<1>3. binding' \in [Users -> Gov!Roles \cup {Gov!Unbound}]
  BY <1>1 DEF GovTypes, Gov!DeleteRole, Gov!FallBack, Gov!Roles
<1>4. call' \in [Callers -> Calls]
  <2>1. r \in Parties /\ DefaultRole \in Parties /\ "delete" \in Acts /\ Gov!Affected(r) \in SUBSET Users
    BY DEF Parties, Gov!Roles, Acts, Gov!Affected
  <2> QED
    BY <1>1, <2>1, LogsTyped DEF Gov!DeleteRole
<1> QED
  BY <1>1, <1>2, <1>3, <1>4, RolesMove DEF RoleTypes, Gov!DeleteRole, Gov!policyVars

LEMMA ResolveKeeps ==
    ASSUME GovInv, NEW t \in Callers, NEW u \in Users, NEW r \in Gov!Roles, Gov!ResolveRole(t, u, r)
    PROVE  GovInv'
<1>1. GovTypes
  BY DEF GovInv
<1>2. PICK c : c = [at |-> "bind", user |-> u, role |-> r]
  OBVIOUS
<1>3. c \in Calls
  BY <1>2 DEF Calls
<1>4. call' = [call EXCEPT ![t] = c]
  BY <1>2 DEF Gov!ResolveRole
<1> QED
  BY <1>1, <1>3, <1>4, RolesMove DEF GovTypes, RoleTypes, Gov!ResolveRole, Gov!policyVars

LEMMA AssignKeeps ==
    ASSUME GovInv, NEW t \in Callers, Gov!AssignRole(t)
    PROVE  GovInv'
<1>1. GovTypes
  BY DEF GovInv
<1>2. call[t].user \in Users /\ call[t].role \in Gov!Roles
  BY <1>1 DEF GovTypes, Calls, Gov!AssignRole, Gov!Idle
<1>3. PICK u \in Users, r \in Gov!Roles : u = call[t].user /\ r = call[t].role
  BY <1>2
<1>4. binding' = [binding EXCEPT ![u] = r] /\ Gov!Writes(t, Gov!Entry("assign", {u}, binding[u], r))
  BY <1>3 DEF Gov!AssignRole
<1>5. binding' \in [Users -> Gov!Roles \cup {Gov!Unbound}]
  BY <1>1, <1>4 DEF GovTypes
<1>6. call' \in [Callers -> Calls]
  <2>1. "assign" \in Acts /\ {u} \in SUBSET Users /\ binding[u] \in Parties /\ r \in Parties
    BY <1>1 DEF GovTypes, Acts, Parties
  <2> QED
    BY <1>1, <1>4, <2>1, LogsTyped
<1> QED
  BY <1>1, <1>5, <1>6, RolesMove DEF GovTypes, RoleTypes, Gov!AssignRole, Gov!policyVars

LEMMA UnassignKeeps ==
    ASSUME GovInv, NEW t \in Callers, NEW u \in Users, Gov!UnassignRole(t, u)
    PROVE  GovInv'
<1>1. GovTypes
  BY DEF GovInv
<1>2. binding' \in [Users -> Gov!Roles \cup {Gov!Unbound}]
  BY <1>1 DEF GovTypes, Gov!UnassignRole
<1>3. call' \in [Callers -> Calls]
  <2>1. /\ "unassign" \in Acts /\ {u} \in SUBSET Users
        /\ binding[u] \in Parties /\ Gov!Unbound \in Parties
    BY <1>1 DEF GovTypes, Acts, Parties
  <2> QED
    BY <1>1, <2>1, LogsTyped DEF Gov!UnassignRole
<1> QED
  BY <1>1, <1>2, <1>3, RolesMove DEF GovTypes, RoleTypes, Gov!UnassignRole, Gov!policyVars

LEMMA ReadKeeps ==
    ASSUME GovInv, NEW t \in Callers, NEW u \in Users, NEW p \in Permissions, Gov!ReadRole(t, u, p)
    PROVE  GovInv'
<1>1. GovTypes
  BY DEF GovInv
<1>2. Gov!EffectiveRole(u) \in Gov!Roles
  BY <1>1 DEF GovTypes, Gov!EffectiveRole, Gov!Roles
<1>3. PICK c : c = [at |-> "check", user |-> u, permission |-> p, role |-> Gov!EffectiveRole(u)]
  OBVIOUS
<1>4. c \in Calls
  BY <1>2, <1>3 DEF Calls
<1>5. call' = [call EXCEPT ![t] = c]
  BY <1>3 DEF Gov!ReadRole
<1> QED
  BY <1>1, <1>4, <1>5, RolesMove DEF GovTypes, RoleTypes, Gov!ReadRole, Gov!policyVars

LEMMA CheckKeeps ==
    ASSUME GovInv, NEW t \in Callers, Gov!CheckPermission(t)
    PROVE  GovInv'
<1>1. GovTypes
  BY DEF GovInv
<1>2. call[t].user \in Users /\ call[t].role \in Gov!Roles
  BY <1>1 DEF GovTypes, Calls, Gov!CheckPermission, Gov!Idle
<1>3. PICK act \in Acts : Gov!Writes(t, Gov!Entry(act, {call[t].user}, call[t].role, call[t].role))
  <2>1. PICK act : act = IF call[t].permission \in Gov!PermissionsFor(call[t].role) THEN "grant" ELSE "deny"
    OBVIOUS
  <2>2. act \in Acts
    BY <2>1 DEF Acts
  <2>3. Gov!Writes(t, Gov!Entry(act, {call[t].user}, call[t].role, call[t].role))
    BY <2>1 DEF Gov!CheckPermission
  <2> QED
    BY <2>2, <2>3
<1>4. call' \in [Callers -> Calls]
  <2>1. {call[t].user} \in SUBSET Users /\ call[t].role \in Parties
    BY <1>2 DEF Parties
  <2> QED
    BY <1>1, <1>3, <2>1, LogsTyped
<1> QED
  BY <1>1, <1>4, RolesMove DEF GovTypes, RoleTypes, Gov!CheckPermission, Gov!policyVars

LEMMA UnmappedKeeps ==
    ASSUME GovInv, NEW t \in Callers, NEW u \in Users, Gov!EnforceUnmapped(t, u)
    PROVE  GovInv'
<1>1. GovTypes
  BY DEF GovInv
<1>2. call' \in [Callers -> Calls]
  <2>1. "deny" \in Acts /\ {u} \in SUBSET Users /\ Gov!Unbound \in Parties
    BY DEF Acts, Parties
  <2> QED
    BY <1>1, <2>1, LogsTyped DEF Gov!EnforceUnmapped
<1> QED
  BY <1>1, <1>2, RolesMove DEF GovTypes, RoleTypes, Gov!EnforceUnmapped, Gov!policyVars

LEMMA LogKeeps ==
    ASSUME GovInv, NEW t \in Callers, Gov!LogEvent(t)
    PROVE  GovInv'
<1>1. GovTypes /\ Chained(trail)
  BY DEF GovInv
<1>2. call[t].entry \in Entered
  BY <1>1 DEF GovTypes, Calls, Gov!LogEvent, Gov!Idle
<1>3. Chained(trail')
  BY <1>1, <1>2, ChainGrows DEF Gov!LogEvent
<1>4. call' \in [Callers -> Calls]
  BY <1>1 DEF GovTypes, Calls, Gov!LogEvent
<1> QED
  BY <1>1, <1>3, <1>4 DEF GovInv, GovTypes, Gov!LogEvent, Gov!policyVars

\* What a step of the policy engine leaves to establish.
LEMMA PolicyMoves ==
    ASSUME GovInv, UNCHANGED <<custom, binding, call>>, rules' \in Seq(Rules), Descending(rules'),
           Chained(trail'), ruling' \in [Callers -> Rulings],
           \A c \in Callers : Ruled(rules', ruling'[c])
    PROVE  GovInv'
  BY DEF GovInv, GovTypes

LEMMA AddKeeps ==
    ASSUME Gov!GovernanceAssumption, GovInv, NEW t \in Callers, NEW r \in Rules, Gov!AddRule(t, r)
    PROVE  GovInv'
<1>1. rules \in Seq(Rules) /\ Descending(rules) /\ Chained(trail)
  BY DEF GovInv, GovTypes
<1>2. PICK q : q = [Gov!NotRuling EXCEPT !.at = "sort", !.pending = Gov!Sorted(rules, r)]
  OBVIOUS
<1>3. PICK s : s = Gov!Sorted(rules, r)
  OBVIOUS
<1>4. s \in Seq(Rules) /\ Descending(s)
  BY <1>1, <1>3, SortedDescends
<1>5. rules' = <<>>
  BY DEF Gov!AddRule
<1>6. q \in Rulings /\ Ruled(rules', q)
  <2>1. q = [at |-> "sort", user |-> "none", permission |-> "none", next |-> 0, steady |-> FALSE,
             granted |-> FALSE, ran |-> FALSE, pending |-> s]
    BY <1>2, <1>3 DEF Gov!NotRuling
  <2>2. q \in Rulings
    BY <1>4, <2>1 DEF Rulings
  <2> QED
    BY <1>4, <2>1, <2>2 DEF Ruled
<1>7. ruling' = [Gov!Disturbed(t) EXCEPT ![t] = q]
  BY <1>2 DEF Gov!AddRule
<1>8. rules' \in Seq(Rules) /\ Descending(rules')
  BY <1>5 DEF Descending
<1>9. ruling' \in [Callers -> Rulings] /\ \A c \in Callers : Ruled(rules', ruling'[c])
  BY <1>6, <1>7, RulesMove
<1> QED
  BY <1>1, <1>8, <1>9, PolicyMoves DEF Gov!AddRule, Gov!UnchangedRoles

LEMMA UnlockKeeps ==
    ASSUME GovInv, NEW t \in Callers, Gov!Unlock(t)
    PROVE  GovInv'
<1>1. ruling[t] \in Rulings /\ Ruled(rules, ruling[t]) /\ ruling[t].at = "sort" /\ Chained(trail)
  BY DEF GovInv, GovTypes, Gov!Unlock
<1>2. rules' \in Seq(Rules) /\ Descending(rules')
  BY <1>1 DEF Gov!Unlock, Ruled, Rulings
<1>3. PICK q : q = Gov!NotRuling
  OBVIOUS
<1>4. q \in Rulings /\ Ruled(rules', q)
  <2>1. q \in Rulings
    BY <1>3, EmptySeq DEF Gov!NotRuling, Rulings
  <2> QED
    BY <1>3, <2>1 DEF Gov!NotRuling, Ruled
<1>5. ruling' = [Gov!Disturbed(t) EXCEPT ![t] = q]
  BY <1>3 DEF Gov!Unlock
<1>6. ruling' \in [Callers -> Rulings] /\ \A c \in Callers : Ruled(rules', ruling'[c])
  BY <1>4, <1>5, RulesMove
<1> QED
  BY <1>1, <1>2, <1>6, PolicyMoves DEF Gov!Unlock, Gov!UnchangedRoles

LEMMA RemoveKeeps ==
    ASSUME GovInv, NEW t \in Callers, NEW r \in Rules, Gov!RemoveRule(t, r)
    PROVE  GovInv'
<1>1. rules \in Seq(Rules) /\ Descending(rules) /\ Chained(trail) /\ ruling \in [Callers -> Rulings]
  BY DEF GovInv, GovTypes
<1>2. CASE r \notin Gov!ToSet(rules) /\ UNCHANGED <<rules, ruling>>
  BY <1>2 DEF GovInv, GovTypes, Gov!RemoveRule, Gov!UnchangedRoles
<1>3. ASSUME NEW i \in DOMAIN rules, rules' = Gov!RemoveAt(rules, i), ruling' = Gov!Disturbed(t)
      PROVE  GovInv'
  <2>1. rules' \in Seq(Rules) /\ Descending(rules')
    BY <1>1, <1>3, RemovedDescends
  <2>2. PICK q : q = ruling[t]
    OBVIOUS
  <2>3. q \in Rulings /\ Ruled(rules, q) /\ q.at = "idle"
    BY <1>1, <2>2 DEF GovInv, Gov!RemoveRule
  <2>4. Ruled(rules', q)
    BY <2>3, UnsteadyRuled
  <2>5. ruling' = [Gov!Disturbed(t) EXCEPT ![t] = q]
    BY <1>3, <2>2 DEF Gov!Disturbed
  <2>6. ruling' \in [Callers -> Rulings] /\ \A c \in Callers : Ruled(rules', ruling'[c])
    BY <2>3, <2>4, <2>5, RulesMove
  <2> QED
    BY <1>1, <2>1, <2>6, PolicyMoves DEF Gov!RemoveRule, Gov!UnchangedRoles
<1> QED
  BY <1>2, <1>3 DEF Gov!RemoveRule

\* A step that leaves the rules and the trail, one thread going to q.
LEMMA StepKeeps ==
    ASSUME GovInv, NEW t \in Callers, NEW q \in Rulings, Ruled(rules, q),
           ruling' = [ruling EXCEPT ![t] = q], UNCHANGED <<custom, binding, call, trail, rules>>
    PROVE  GovInv'
<1>1. ruling' \in [Callers -> Rulings] /\ \A c \in Callers : Ruled(rules', ruling'[c])
  BY RulingMoves
<1>2. rules' \in Seq(Rules) /\ Descending(rules') /\ Chained(trail')
  BY DEF GovInv, GovTypes
<1> QED
  BY <1>1, <1>2, PolicyMoves

LEMMA BeginKeeps ==
    ASSUME GovInv, NEW t \in Callers, NEW u \in Users, NEW p \in Permissions \cup DefaultGrants,
           Gov!BeginEvaluate(t, u, p)
    PROVE  GovInv'
<1>1. Gov!LockFree \in BOOLEAN
  BY DEF Gov!LockFree
<1>2. PICK q : q = [Gov!NotRuling EXCEPT !.at = "rule", !.user = u, !.permission = p,
                                       !.next = 1, !.steady = Gov!LockFree]
  OBVIOUS
<1>3. /\ q.at = "rule" /\ q.user = u /\ q.permission = p /\ q.next = 1
      /\ ~ q.granted /\ ~ q.ran /\ q \in Rulings
  BY <1>1, <1>2, EmptySeq DEF Gov!NotRuling, Rulings
<1>4. Ruled(rules, q)
  BY <1>3 DEF Ruled
<1>5. ruling' = [ruling EXCEPT ![t] = q]
  BY <1>2, Zenon DEF Gov!BeginEvaluate
<1> QED
  BY <1>3, <1>4, <1>5, StepKeeps DEF Gov!BeginEvaluate, Gov!UnchangedRoles

LEMMA EvaluateKeeps ==
    ASSUME Gov!GovernanceAssumption, GovInv, NEW t \in Callers, Gov!Evaluate(t)
    PROVE  GovInv'
<1>1. /\ rules \in Seq(Rules) /\ Descending(rules)
      /\ ruling[t] \in Rulings /\ Ruled(rules, ruling[t]) /\ ruling[t].at = "rule"
      /\ ruling \in [Callers -> Rulings]
  BY DEF GovInv, GovTypes, Gov!Evaluate
<1>2. PICK e \in Rulings : e = ruling[t] /\ Ruled(rules, e) /\ e.at = "rule"
  BY <1>1
<1>3. e.next \in Nat /\ e.next >= 1 /\ ~ e.ran /\ ~ e.granted /\ e.user \in Users
  BY <1>2 DEF Ruled, Rulings
<1>4. PICK n \in Nat : n = Len(rules) /\ DOMAIN rules = 1 .. n
  BY <1>1
<1>5. UNCHANGED <<custom, binding, call, trail, rules>>
  BY DEF Gov!Evaluate, Gov!UnchangedRoles
<1>6. PICK within \in BOOLEAN : within = (e.permission \in DefaultGrants)
  <2>1. PICK within : within = (e.permission \in DefaultGrants)
    OBVIOUS
  <2>2. within \in BOOLEAN
    BY <2>1
  <2> QED
    BY <2>1, <2>2
\* The thread decides for this answer.
<1>7. ASSUME NEW answer \in BOOLEAN,
             ruling' = [ruling EXCEPT ![t].at = "audit", ![t].granted = answer],
             answer => within,
             e.steady =>
               LET ruled == {RuleOf[r].effect : r \in Decide(rules, e.user, e.permission)} IN
                 /\ ruled = {"deny"} => ~ answer
                 /\ ruled \subseteq {"allow"} => answer = within
      PROVE  GovInv'
  <2>1. PICK q : q = [e EXCEPT !.at = "audit", !.granted = answer]
    OBVIOUS
  <2>2. q \in Rulings
    BY <2>1 DEF Rulings
  <2>3. /\ q.at = "audit" /\ q.granted = answer /\ q.ran = e.ran /\ q.steady = e.steady
        /\ q.permission = e.permission /\ q.user = e.user
    BY <2>1 DEF Rulings
  <2>4. Ruled(rules, q)
    BY <1>3, <1>6, <1>7, <2>3, Zenon DEF Ruled
  <2>5. ruling' = [ruling EXCEPT ![t] = q]
    BY <1>1, <1>2, <1>7, <2>1
  <2> QED
    BY <1>5, <2>2, <2>4, <2>5, StepKeeps
<1>8. CASE e.next > Len(rules)
  <2>1. ruling' = [ruling EXCEPT ![t].at = "audit", ![t].granted = within]
    BY <1>2, <1>6, <1>8 DEF Gov!Evaluate
  <2>2. ASSUME e.steady PROVE Decide(rules, e.user, e.permission) = {}
    <3>1. \A j \in 1 .. Len(rules) : ~ Gov!Matches(rules[j], e.user, e.permission)
      BY <1>2, <1>3, <1>4, <1>8, <2>2 DEF Ruled
    <3> QED
      BY <1>1, <3>1, NoneDecides
  <2>3. e.steady => {RuleOf[r].effect : r \in Decide(rules, e.user, e.permission)} = {}
    BY <2>2
  <2> QED
    BY <1>7, <2>1, <2>3
<1>9. CASE ~ (e.next > Len(rules)) /\ ~ Gov!Matches(rules[e.next], e.user, e.permission)
  <2>1. PICK q : q = [e EXCEPT !.next = @ + 1]
    OBVIOUS
  <2>2. e.next + 1 \in Nat
    BY <1>3
  <2>3. q \in Rulings
    BY <2>1, <2>2 DEF Rulings
  <2>4. /\ q.at = "rule" /\ q.granted = e.granted /\ q.ran = e.ran /\ q.steady = e.steady
        /\ q.permission = e.permission /\ q.user = e.user /\ q.next = e.next + 1
    BY <1>2, <2>1 DEF Rulings
  <2>5. ASSUME e.steady, NEW j \in 1 .. Len(rules), j < e.next + 1
        PROVE  ~ Gov!Matches(rules[j], e.user, e.permission)
    <3>1. CASE j = e.next
      BY <1>9, <3>1
    <3>2. CASE j < e.next
      BY <1>2, <2>5, <3>2 DEF Ruled
    <3> QED
      BY <1>3, <1>4, <2>5, <3>1, <3>2
  <2>6. Ruled(rules, q)
    BY <1>3, <2>4, <2>5 DEF Ruled
  <2>7. ruling' = [ruling EXCEPT ![t] = q]
    BY <1>1, <1>2, <1>9, <2>1 DEF Gov!Evaluate
  <2> QED
    BY <1>5, <2>3, <2>6, <2>7, StepKeeps
<1>10. CASE ~ (e.next > Len(rules)) /\ Gov!Matches(rules[e.next], e.user, e.permission)
  <2>1. PICK k \in 1 .. n : k = e.next
    BY <1>3, <1>4, <1>10
  <2>2. PICK r \in Rules : r = rules[k]
    BY <1>1, <1>4, <2>1
  <2>3. RuleOf[r].effect \in {"allow", "deny"}
    BY DEF Gov!GovernanceAssumption
  <2>4. PICK answer \in BOOLEAN : answer = (RuleOf[r].effect = "allow" /\ within)
    OBVIOUS
  <2>5. ruling' = [ruling EXCEPT ![t].at = "audit", ![t].granted = answer]
    BY <1>2, <1>6, <1>10, <2>1, <2>2, <2>4 DEF Gov!Evaluate
  <2>6. ASSUME e.steady PROVE r \in Decide(rules, e.user, e.permission)
    <3>1. \A j \in 1 .. Len(rules) : j < k => ~ Gov!Matches(rules[j], e.user, e.permission)
      BY <1>2, <2>1, <2>6 DEF Ruled
    <3>2. k \in 1 .. Len(rules) /\ Gov!Matches(rules[k], e.user, e.permission)
      BY <1>4, <1>10, <2>1
    <3> QED
      BY <1>1, <2>2, <3>1, <3>2, FirstDecides
  <2>7. ASSUME e.steady
        PROVE  LET ruled == {RuleOf[d].effect : d \in Decide(rules, e.user, e.permission)} IN
                 /\ ruled = {"deny"} => ~ answer
                 /\ ruled \subseteq {"allow"} => answer = within
    <3>1. PICK ruled : ruled = {RuleOf[d].effect : d \in Decide(rules, e.user, e.permission)}
      OBVIOUS
    <3>2. RuleOf[r].effect \in ruled
      BY <2>6, <2>7, <3>1
    <3>3. /\ ruled = {"deny"} => ~ answer
          /\ ruled \subseteq {"allow"} => answer = within
      BY <2>4, <3>2
    <3> QED
      BY <3>1, <3>3
  <2> QED
    BY <1>7, <2>4, <2>5, <2>7
<1> QED
  BY <1>8, <1>9, <1>10

LEMMA AuditKeeps ==
    ASSUME GovInv, NEW t \in Callers, Gov!Audit(t)
    PROVE  GovInv'
<1>1. PICK e \in Rulings : e = ruling[t] /\ Ruled(rules, e) /\ e.at = "audit"
  BY DEF GovInv, GovTypes, Gov!Audit
<1>2. PICK q : q = [e EXCEPT !.at = "decided"]
  OBVIOUS
<1>3. q \in Rulings
  BY <1>2 DEF Rulings
<1>4. /\ q.at = "decided" /\ q.granted = e.granted /\ q.ran = e.ran /\ q.steady = e.steady
      /\ q.permission = e.permission /\ q.user = e.user
  BY <1>2 DEF Rulings
<1>5. Ruled(rules, q)
  BY <1>1, <1>4 DEF Ruled
<1>6. ruling' = [ruling EXCEPT ![t] = q] /\ rules' = rules
  BY <1>1, <1>2 DEF Gov!Audit, GovInv, GovTypes
<1>7. ruling' \in [Callers -> Rulings] /\ \A c \in Callers : Ruled(rules', ruling'[c])
  BY <1>3, <1>5, <1>6, RulingMoves
<1>8. Chained(trail')
  <2>1. PICK act \in Acts : act = IF e.granted THEN "grant" ELSE "deny"
    BY DEF Acts
  <2>2. PICK entry : entry = Gov!Entry(act, {e.user}, Gov!Unbound, Gov!Unbound)
    OBVIOUS
  <2>3. entry \in Entered
    BY <1>1, <2>2 DEF Ruled, Gov!Entry, Entered, Parties
  <2>4. trail' = Gov!Record(trail, entry)
    BY <1>1, <2>1, <2>2 DEF Gov!Audit
  <2> QED
    BY <2>3, <2>4, ChainGrows DEF GovInv
<1> QED
  BY <1>6, <1>7, <1>8, PolicyMoves DEF GovInv, GovTypes, Gov!Audit, Gov!UnchangedRoles

LEMMA RunKeeps ==
    ASSUME GovInv, NEW t \in Callers, Gov!EnforcePermission(t)
    PROVE  GovInv'
<1>1. PICK e \in Rulings : e = ruling[t] /\ Ruled(rules, e) /\ e.at = "decided" /\ e.granted
  BY DEF GovInv, GovTypes, Gov!EnforcePermission
<1>2. PICK q : q = [e EXCEPT !.ran = TRUE]
  OBVIOUS
<1>3. q \in Rulings
  BY <1>2 DEF Rulings
<1>4. /\ q.at = "decided" /\ q.granted = e.granted /\ q.ran /\ q.steady = e.steady
      /\ q.permission = e.permission /\ q.user = e.user
  BY <1>1, <1>2 DEF Rulings
<1>5. Ruled(rules, q)
  BY <1>1, <1>4 DEF Ruled
<1>6. ruling' = [ruling EXCEPT ![t] = q]
  BY <1>1, <1>2 DEF Gov!EnforcePermission, GovInv, GovTypes
<1> QED
  BY <1>3, <1>5, <1>6, StepKeeps DEF Gov!EnforcePermission, Gov!UnchangedRoles

LEMMA RolesKeep == GovInv /\ Gov!RoleNext => GovInv'
  BY CreateKeeps, DeleteKeeps, ResolveKeeps, AssignKeeps, UnassignKeeps, ReadKeeps, CheckKeeps,
     UnmappedKeeps, LogKeeps DEF Gov!RoleNext

LEMMA PoliciesKeep == Gov!GovernanceAssumption /\ GovInv /\ Gov!PolicyNext => GovInv'
  BY AddKeeps, UnlockKeeps, RemoveKeeps, BeginKeeps, EvaluateKeeps, AuditKeeps, RunKeeps
  DEF Gov!PolicyNext

LEMMA GovInductive == Gov!GovernanceAssumption /\ Gov!Spec => []GovInv
<1> SUFFICES ASSUME Gov!GovernanceAssumption PROVE Gov!Spec => []GovInv
  OBVIOUS
<1>1. Gov!Init => GovInv
  BY GovInit
<1>2. GovInv /\ [Gov!Next]_(Gov!govVars) => GovInv'
  <2>1. GovInv /\ UNCHANGED Gov!govVars => GovInv'
    BY DEF GovInv, GovTypes, Gov!govVars
  <2> QED
    BY <2>1, RolesKeep, PoliciesKeep DEF Gov!Next
<1> QED
  BY <1>1, <1>2, PTL DEF Gov!Spec

LEMMA GovTyped == GovInv => Gov!TypeOK
<1> SUFFICES ASSUME GovInv PROVE Gov!TypeOK
  OBVIOUS
<1>1. GovTypes /\ Chained(trail)
  BY DEF GovInv
<1>2. \A t \in Callers : call[t].at \in {"idle", "bind", "check", "log"}
  BY <1>1 DEF GovTypes, Calls, Gov!Idle
<1>3. \A i \in DOMAIN trail : trail[i].entry.users \subseteq Users
  BY <1>1 DEF Chained, Entered
<1>4. Gov!ToSet(rules) \subseteq Rules
  BY <1>1 DEF GovTypes, Gov!ToSet
<1>5. \A t \in Callers : ruling[t].at \in {"idle", "sort", "rule", "audit", "decided"}
  BY <1>1 DEF GovTypes, Rulings
<1> QED
  BY <1>1, <1>2, <1>3, <1>4, <1>5 DEF GovTypes, Gov!TypeOK

(* The chain tells what was done to its entries, for any number of entries  *)
(* and whatever they say: one that was changed, taken out or exchanged is   *)
(* told at its place, one rewritten with its hash at the next               *)
(* (audit_trail.py:336); and what the threads hold is of its type.          *)
THEOREM ChainTellsTampering == Gov!GovernanceAssumption /\ Gov!Spec => [](Gov!ChainTells /\ Gov!TypeOK)
<1> SUFFICES ASSUME Gov!GovernanceAssumption PROVE Gov!Spec => [](Gov!ChainTells /\ Gov!TypeOK)
  OBVIOUS
<1>1. Gov!Spec => []GovInv
  BY GovInductive
<1>2. GovInv => Gov!ChainTells /\ Gov!TypeOK
  BY GovTyped, ChainHolds DEF GovInv
<1> QED
  BY <1>1, <1>2, PTL

(* A function that asks for a permission runs only if the role gives it;    *)
(* and what is decided while nobody changed the rules is what the rule of   *)
(* the highest priority says that matches (rbac.py:419-470), for any rules  *)
(* and any number of threads.                                               *)
THEOREM PoliciesHold == Gov!GovernanceAssumption /\ Gov!Spec => []Gov!PolicyHolds
<1> SUFFICES ASSUME Gov!GovernanceAssumption PROVE Gov!Spec => []Gov!PolicyHolds
  OBVIOUS
<1>1. Gov!Spec => []GovInv
  BY GovInductive
<1>2. ASSUME GovInv PROVE Gov!PolicyHolds
  <2>1. \A u, p : Decide(rules, u, p) = Gov!Deciding(u, p)
    BY Zenon DEF Decide, Gov!Deciding, Gov!ToSet
  <2>2. ASSUME NEW e, Ruled(rules, e)
        PROVE  /\ e.ran => e.granted
               /\ e.granted => e.permission \in DefaultGrants
               /\ e.at \in {"audit", "decided"} /\ e.steady =>
                    LET ruled == {RuleOf[r].effect : r \in Gov!Deciding(e.user, e.permission)} IN
                      /\ ruled = {"deny"} => ~ e.granted
                      /\ ruled \subseteq {"allow"} => e.granted = (e.permission \in DefaultGrants)
    BY <2>1, <2>2 DEF Ruled
  <2> QED
    BY <1>2, <2>2 DEF GovInv, Gov!PolicyHolds
<1> QED
  BY <1>1, <1>2, PTL

-----------------------------------------------------------------------------
(* AgentEnrollment.  While calls do not overlap, the open transaction is    *)
(* that of one call, and its tables are the committed ones with what the    *)
(* call has done so far.                                                    *)
Tables == [agent : [AgentKeys -> [status : {"absent", "active", "removed"}, pane : Panes \cup {NoPane}]],
           mapped : SUBSET (AgentKeys \X Panes)]
Words == {"find_key", "find_pane", "insert", "map", "retire", "activate", "remove", "commit"}
Adds == {"add", "enroll", "enroll_pane"}

\* What an operation may have left to do.
Inserting(p) == IF p = NoPane THEN {<<"insert", "commit">>, <<"commit">>}
                ELSE {<<"insert", "map", "commit">>, <<"map", "commit">>, <<"commit">>}
ScriptLeft(op, p) ==
    IF op = "add" THEN Inserting(p)
    ELSE IF op = "enroll" THEN Inserting(p) \cup
      {IF p = NoPane THEN <<"find_key", "insert", "commit">> ELSE <<"find_key", "insert", "map", "commit">>}
    ELSE IF op = "enroll_pane" THEN Inserting(p) \cup
      {IF p = NoPane THEN <<"find_pane", "insert", "commit">> ELSE <<"find_pane", "insert", "map", "commit">>}
    ELSE IF op = "remap" THEN {<<"retire", "map", "activate", "commit">>, <<"map", "activate", "commit">>,
                               <<"activate", "commit">>, <<"commit">>}
    ELSE {<<"retire", "remove", "commit">>, <<"remove", "commit">>, <<"commit">>}

Working == {"ensure", "probe", "prepare", "run"}
CallTyped(th) ==
    \/ th = Enrol!Idle
    \/ /\ th.at \in Working \cup {"undo", "leave", "tell"}
       /\ th.key \in AgentKeys /\ th.pane \in Panes \cup {NoPane}
       /\ th.op \in Adds \cup {"remap", "remove"}
       /\ th.op = "remap" => th.pane # NoPane
       /\ th.todo \in ScriptLeft(th.op, th.pane)
EnrolCalls == {th \in [op : Adds \cup {"remap", "remove", ""}, key : AgentKeys \cup {""},
                      pane : Panes \cup {NoPane},
                      at : Working \cup {"idle", "undo", "leave", "tell"}, todo : Seq(Words)] :
            CallTyped(th)}
EnrolTypes ==
    /\ db \in Tables /\ work \in Tables
    /\ txn \in {"idle", "open", "failed", "lost"}
    /\ worker \in [Enrollers -> EnrolCalls]
    /\ ops \in 0 .. MaxOps /\ drops \in 0 .. MaxDrops /\ mixed \in BOOLEAN
    /\ txn \in {"idle", "lost"} => work = db

PaneAgrees(d, k) ==
    Enrol!Current(d, k) = IF d.agent[k].status = "active" THEN {d.agent[k].pane} \ {NoPane} ELSE {}

\* Before its first write a call has changed nothing; later its tables d lack
\* what it has left to do.
Lacking(th, d, base) ==
    LET row == d.agent[th.key]
        panes == Enrol!Current(d, th.key)
        active == [status |-> "active", pane |-> th.pane]
    IN  /\ th.todo = <<"map", "commit">> => row = active /\ panes = {}
        /\ th.todo \in {<<"map", "activate", "commit">>, <<"remove", "commit">>} => panes = {}
        /\ th.todo = <<"activate", "commit">> => row.status # "absent" /\ panes = {th.pane}
        /\ th.todo = <<"commit">> /\ th.op # "remove" => row = active /\ panes = {th.pane} \ {NoPane}
        /\ th.todo = <<"commit">> /\ th.op = "remove" => row.status \in {"absent", "removed"} /\ panes = {}
        /\ th.todo \notin {<<"map", "commit">>, <<"map", "activate", "commit">>, <<"remove", "commit">>,
                           <<"activate", "commit">>, <<"commit">>} => d = base
EnrolAnswered(th, d) ==
    IF th.op = "remove" THEN d.agent[th.key].status \in {"absent", "removed"}
    ELSE d.agent[th.key] = [status |-> "active", pane |-> th.pane]
CallHolds(th, base, d, state) ==
    /\ th.at \in Working =>
         /\ Lacking(th, d, base) /\ \A k \in AgentKeys \ {th.key} : PaneAgrees(d, k)
         /\ state # "failed"
         /\ th.todo = <<"commit">> => state = "open"
    /\ th.at \in {"probe", "prepare", "leave", "tell"} => state = "idle"
    /\ th.at = "tell" => EnrolAnswered(th, base)

Unmixed ==
    /\ \A t, u \in Enrollers : worker[t].at # "idle" /\ worker[u].at # "idle" => t = u
    /\ (\A t \in Enrollers : worker[t].at = "idle") => work = db /\ txn # "failed"
    /\ \A k \in AgentKeys : PaneAgrees(db, k)
    /\ \A t \in Enrollers : CallHolds(worker[t], db, work, txn)
EnrolInv == EnrolTypes /\ (~ mixed => Unmixed)

(* The scripts, statement by statement. *)
LEMMA Tails ==
    /\ Tail(<<"find_key", "insert", "commit">>) = <<"insert", "commit">>
    /\ Tail(<<"insert", "commit">>) = <<"commit">>
    /\ Tail(<<"find_pane", "insert", "commit">>) = <<"insert", "commit">>
    /\ Tail(<<"find_key", "insert", "map", "commit">>) = <<"insert", "map", "commit">>
    /\ Tail(<<"insert", "map", "commit">>) = <<"map", "commit">>
    /\ Tail(<<"map", "commit">>) = <<"commit">>
    /\ Tail(<<"find_pane", "insert", "map", "commit">>) = <<"insert", "map", "commit">>
    /\ Tail(<<"retire", "map", "activate", "commit">>) = <<"map", "activate", "commit">>
    /\ Tail(<<"map", "activate", "commit">>) = <<"activate", "commit">>
    /\ Tail(<<"activate", "commit">>) = <<"commit">>
    /\ Tail(<<"retire", "remove", "commit">>) = <<"remove", "commit">>
    /\ Tail(<<"remove", "commit">>) = <<"commit">>
  OBVIOUS

LEMMA Heads ==
    /\ Head(<<"find_key", "insert", "commit">>) = "find_key"
    /\ Head(<<"insert", "commit">>) = "insert"
    /\ Head(<<"commit">>) = "commit"
    /\ Head(<<"find_pane", "insert", "commit">>) = "find_pane"
    /\ Head(<<"find_key", "insert", "map", "commit">>) = "find_key"
    /\ Head(<<"insert", "map", "commit">>) = "insert"
    /\ Head(<<"map", "commit">>) = "map"
    /\ Head(<<"find_pane", "insert", "map", "commit">>) = "find_pane"
    /\ Head(<<"retire", "map", "activate", "commit">>) = "retire"
    /\ Head(<<"map", "activate", "commit">>) = "map"
    /\ Head(<<"activate", "commit">>) = "activate"
    /\ Head(<<"retire", "remove", "commit">>) = "retire"
    /\ Head(<<"remove", "commit">>) = "remove"
  OBVIOUS

Scripts == {<<"find_key", "insert", "commit">>, <<"find_key", "insert", "map", "commit">>,
            <<"find_pane", "insert", "commit">>, <<"find_pane", "insert", "map", "commit">>,
            <<"insert", "commit">>, <<"insert", "map", "commit">>, <<"map", "commit">>, <<"commit">>,
            <<"retire", "map", "activate", "commit">>, <<"map", "activate", "commit">>, <<"activate", "commit">>,
            <<"retire", "remove", "commit">>, <<"remove", "commit">>}
LEMMA Tuples == \A l \in Scripts : l \in Seq(Words) /\ l # <<>>
<1> SUFFICES ASSUME NEW l \in Scripts PROVE l \in Seq(Words) /\ l # <<>>
  OBVIOUS
<1>1. Len(l) \in 1 .. 4 /\ l = [i \in 1 .. Len(l) |-> l[i]] /\ \A i \in 1 .. Len(l) : l[i] \in Words
  BY DEF Words, Scripts
<1> QED
  BY <1>1

LEMMA Joined ==
    ASSUME NEW w \in Words
    PROVE  /\ <<w>> \o <<"insert", "commit">> = <<w, "insert", "commit">>
           /\ <<w>> \o <<"insert", "map", "commit">> = <<w, "insert", "map", "commit">>
<1> DEFINE a == <<"insert", "commit">>
           b == <<"insert", "map", "commit">>
<1>1. /\ <<w>> \in Seq(Words) /\ a \in Seq(Words) /\ b \in Seq(Words)
      /\ <<w, "insert", "commit">> \in Seq(Words) /\ <<w, "insert", "map", "commit">> \in Seq(Words)
  BY DEF Words
<1>2. <<w>> \o a = <<w, "insert", "commit">>
  <2>1. Len(<<w>> \o a) = 3 /\ <<w>> \o a \in Seq(Words)
    BY <1>1, ConcatProperties
  <2>2. \A i \in 1 .. 3 : (<<w>> \o a)[i] = <<w, "insert", "commit">>[i]
    BY <1>1, ConcatProperties
  <2> QED
    BY <1>1, <2>1, <2>2, SeqEqual
<1>3. <<w>> \o b = <<w, "insert", "map", "commit">>
  <2>1. Len(<<w>> \o b) = 4 /\ <<w>> \o b \in Seq(Words)
    BY <1>1, ConcatProperties
  <2>2. \A i \in 1 .. 4 : (<<w>> \o b)[i] = <<w, "insert", "map", "commit">>[i]
    BY <1>1, ConcatProperties
  <2> QED
    BY <1>1, <2>1, <2>2, SeqEqual
<1> QED
  BY <1>2, <1>3

LEMMA ScriptIs ==
    ASSUME NEW p
    PROVE  /\ Enrol!Script("add", p) = Enrol!Inserts(p)
           /\ Enrol!Script("enroll", p) = <<"find_key">> \o Enrol!Inserts(p)
           /\ Enrol!Script("enroll_pane", p) = <<"find_pane">> \o Enrol!Inserts(p)
           /\ Enrol!Script("remap", p) = <<"retire", "map", "activate", "commit">>
           /\ Enrol!Script("remove", p) = <<"retire", "remove", "commit">>
  BY DEF Enrol!Script

LEMMA LeftAre ==
    ASSUME NEW op \in Adds \cup {"remap", "remove"}, NEW p, op = "remap" => p # NoPane
    PROVE  /\ Enrol!Script(op, p) \in ScriptLeft(op, p)
           /\ \A l \in ScriptLeft(op, p) :
                /\ l \in Seq(Words) /\ l # <<>>
                /\ l # <<"commit">> => Tail(l) \in ScriptLeft(op, p)
                /\ Head(l) = "map" => p # NoPane
<1>1. Enrol!Script(op, p) \in ScriptLeft(op, p)
  BY ScriptIs, Joined DEF Enrol!Inserts, ScriptLeft, Inserting, Adds, Words
<1>2. \A l \in ScriptLeft(op, p) : l \in Seq(Words) /\ l # <<>>
  <2>1. ScriptLeft(op, p) \subseteq Scripts
    BY DEF ScriptLeft, Inserting, Adds, Scripts
  <2> QED
    BY <2>1, Tuples
<1>3. \A l \in ScriptLeft(op, p) : l # <<"commit">> => Tail(l) \in ScriptLeft(op, p)
  BY Tails DEF ScriptLeft, Inserting, Adds
<1>4. \A l \in ScriptLeft(op, p) : Head(l) = "map" => p # NoPane
  BY Heads DEF ScriptLeft, Inserting, Adds
<1> QED
  BY <1>1, <1>2, <1>3, <1>4

(* What the statements do to the tables. *)
LEMMA CurrentIs ==
    ASSUME NEW d \in Tables, NEW k \in AgentKeys
    PROVE  Enrol!Current(d, k) = {p \in Panes : <<k, p>> \in d.mapped}
<1>1. \A m \in d.mapped : m = <<m[1], m[2]>> /\ m[2] \in Panes
  BY DEF Tables
<1>2. \A p : p \in Enrol!Current(d, k) <=> \E m \in d.mapped : m[1] = k /\ p = m[2]
  BY DEF Enrol!Current
<1>3. \A p : p \in Enrol!Current(d, k) => p \in Panes /\ <<k, p>> \in d.mapped
  BY <1>1, <1>2
<1>4. \A p : <<k, p>> \in d.mapped => p \in Enrol!Current(d, k)
  BY <1>2
<1> QED
  BY <1>3, <1>4

LEMMA EffectIs ==
    ASSUME NEW d, NEW k, NEW p
    PROVE  /\ Enrol!Effect("insert", k, p, d) = Enrol!Set(d, k, "active", p)
           /\ Enrol!Effect("map", k, p, d) = [d EXCEPT !.mapped = @ \cup {<<k, p>>}]
           /\ Enrol!Effect("retire", k, p, d) = [d EXCEPT !.mapped = {m \in @ : m[1] # k}]
           /\ Enrol!Effect("activate", k, p, d) =
                IF d.agent[k].status # "absent" THEN Enrol!Set(d, k, "active", p) ELSE d
           /\ Enrol!Effect("remove", k, p, d) =
                IF d.agent[k].status # "absent" THEN Enrol!Set(d, k, "removed", NoPane) ELSE d
  BY DEF Enrol!Effect, Enrol!Effect_KeepsMapping

LEMMA SetIs ==
    ASSUME NEW d \in Tables, NEW k \in AgentKeys, NEW st \in {"absent", "active", "removed"},
           NEW p \in Panes \cup {NoPane}
    PROVE  /\ Enrol!Set(d, k, st, p) \in Tables
           /\ Enrol!Set(d, k, st, p).mapped = d.mapped
           /\ Enrol!Set(d, k, st, p).agent[k] = [status |-> st, pane |-> p]
           /\ \A j \in AgentKeys \ {k} : Enrol!Set(d, k, st, p).agent[j] = d.agent[j]
  BY DEF Enrol!Set, Tables

\* What one statement s of a call of agent k on pane p makes of tables d.
EnrolWritten(s, k, p, d, e) ==
    /\ e \in Tables
    /\ \A j \in AgentKeys \ {k} : e.agent[j] = d.agent[j] /\ Enrol!Current(e, j) = Enrol!Current(d, j)
    /\ s = "insert" => e.agent[k] = [status |-> "active", pane |-> p]
    /\ s \in {"map", "retire"} => e.agent[k] = d.agent[k]
    /\ s = "activate" /\ d.agent[k].status # "absent" => e.agent[k] = [status |-> "active", pane |-> p]
    /\ s = "remove" => e.agent[k].status \in {"absent", "removed"}
    /\ s \in {"insert", "activate", "remove"} => Enrol!Current(e, k) = Enrol!Current(d, k)
    /\ s = "map" => Enrol!Current(e, k) = Enrol!Current(d, k) \cup {p}
    /\ s = "retire" => Enrol!Current(e, k) = {}

LEMMA MappedIs ==
    ASSUME NEW d \in Tables, NEW k \in AgentKeys, NEW p \in Panes \cup {NoPane},
           NEW s \in {"insert", "map", "retire", "activate", "remove"}, s = "map" => p # NoPane
    PROVE  EnrolWritten(s, k, p, d, Enrol!Effect(s, k, p, d))
<1> SUFFICES ASSUME NEW e, e = Enrol!Effect(s, k, p, d)
             PROVE  EnrolWritten(s, k, p, d, e)
  OBVIOUS
<1> USE DEF EnrolWritten
<1>1. CASE s = "insert"
  BY <1>1, EffectIs, SetIs DEF Enrol!Current
<1>2. CASE s = "map"
  <2> DEFINE f == [d EXCEPT !.mapped = @ \cup {<<k, p>>}]
  <2>1. f \in Tables /\ f.agent = d.agent /\ f.mapped = d.mapped \cup {<<k, p>>}
    BY <1>2 DEF Tables
  <2>2. \A j \in AgentKeys \ {k} : Enrol!Current(f, j) = Enrol!Current(d, j)
    <3> SUFFICES ASSUME NEW j \in AgentKeys \ {k} PROVE Enrol!Current(f, j) = Enrol!Current(d, j)
      OBVIOUS
    <3>1. \A q : <<j, q>> \in f.mapped <=> <<j, q>> \in d.mapped
      BY <2>1
    <3> HIDE DEF f
    <3> QED
      BY <2>1, <3>1, CurrentIs
  <2>3. Enrol!Current(f, k) = Enrol!Current(d, k) \cup {p}
    <3>1. \A q : <<k, q>> \in f.mapped <=> <<k, q>> \in d.mapped \/ q = p
      BY <2>1
    <3> HIDE DEF f
    <3>2. /\ Enrol!Current(f, k) = {q \in Panes : <<k, q>> \in f.mapped}
          /\ Enrol!Current(d, k) = {q \in Panes : <<k, q>> \in d.mapped}
      BY <2>1, CurrentIs
    <3>3. p \in Panes
      BY <1>2
    <3> QED
      BY <3>1, <3>2, <3>3
  <2> QED
    <3>1. e = f
      BY <1>2, EffectIs
    <3> HIDE DEF f
    <3> QED
      BY <1>2, <2>1, <2>2, <2>3, <3>1
<1>3. CASE s = "retire"
  <2> DEFINE f == [d EXCEPT !.mapped = {m \in @ : m[1] # k}]
  <2>1. f \in Tables /\ f.agent = d.agent /\ f.mapped = {m \in d.mapped : m[1] # k}
    BY DEF Tables
  <2>2. \A j \in AgentKeys \ {k} : Enrol!Current(f, j) = Enrol!Current(d, j)
    BY <2>1, CurrentIs
  <2>3. Enrol!Current(f, k) = {}
    BY <2>1, CurrentIs
  <2> QED
    <3>1. e = f
      BY <1>3, EffectIs
    <3> HIDE DEF f
    <3> QED
      BY <1>3, <2>1, <2>2, <2>3, <3>1
<1>4. CASE s = "activate"
  BY <1>4, EffectIs, SetIs DEF Enrol!Current
<1>5. CASE s = "remove"
  <2>1. CASE d.agent[k].status = "absent"
    BY <1>5, <2>1, EffectIs
  <2>2. CASE d.agent[k].status # "absent"
    <3> DEFINE f == Enrol!Set(d, k, "removed", NoPane)
    <3>1. e = f
      BY <1>5, <2>2, EffectIs
    <3>2. /\ f \in Tables /\ f.mapped = d.mapped
          /\ f.agent[k] = [status |-> "removed", pane |-> NoPane]
          /\ \A j \in AgentKeys \ {k} : f.agent[j] = d.agent[j]
      BY SetIs
    <3> HIDE DEF f
    <3>3. \A j \in AgentKeys : Enrol!Current(f, j) = Enrol!Current(d, j)
      BY <3>2 DEF Enrol!Current
    <3> QED
      BY <1>5, <3>1, <3>2, <3>3
  <2> QED
    BY <2>1, <2>2
<1> QED
  BY <1>1, <1>2, <1>3, <1>4, <1>5

(* A call at work: one statement further, its tables lack one thing less.   *)
LEMMA WorkingCall ==
    ASSUME NEW th \in EnrolCalls, th.at # "idle"
    PROVE  /\ th.key \in AgentKeys /\ th.pane \in Panes \cup {NoPane} /\ th.op \in Adds \cup {"remap", "remove"}
           /\ th.op = "remap" => th.pane # NoPane
           /\ th.todo \in ScriptLeft(th.op, th.pane)
           /\ th.at \in Working \cup {"undo", "leave", "tell"}
<1>1. CallTyped(th)
  BY DEF EnrolCalls
<1>2. Enrol!Idle.at = "idle"
  BY DEF Enrol!Idle
<1>3. th # Enrol!Idle
  BY <1>2
<1> QED
  BY <1>1, <1>3 DEF CallTyped

\* th at work on tables d has gone on to n with tables e.
NextHolds(th, base, d, state, n, e) ==
    /\ e \in Tables /\ n \in EnrolCalls
    /\ CallHolds(th, base, d, state) /\ (\A k \in AgentKeys : PaneAgrees(base, k)) => CallHolds(n, base, e, "open")

LEMMA NextStatement ==
    ASSUME Enrol!EnrollmentAssumption, NEW th \in EnrolCalls, NEW base \in Tables, NEW d \in Tables, NEW state,
           NEW s \in {"insert", "map", "retire", "activate", "remove"}, NEW at \in {"ensure", "run"},
           th.at = "run", Head(th.todo) = s,
           ~ Enrol!Violates(s, th.key, th.pane, d),
           NEW e, e = Enrol!Effect(s, th.key, th.pane, d),
           NEW n, n = [op |-> th.op, key |-> th.key, pane |-> th.pane, at |-> at, todo |-> Tail(th.todo)]
    PROVE  NextHolds(th, base, d, state, n, e)
<1>1. /\ th.key \in AgentKeys /\ th.pane \in Panes \cup {NoPane} /\ th.op \in Adds \cup {"remap", "remove"}
      /\ th.op = "remap" => th.pane # NoPane
      /\ th.todo \in ScriptLeft(th.op, th.pane)
  <2>1. th.at # "idle"
    OBVIOUS
  <2> QED
    BY ONLY <2>1, th \in EnrolCalls, WorkingCall
<1>2. th.todo # <<"commit">>
  BY Heads
<1>3. /\ Tail(th.todo) \in ScriptLeft(th.op, th.pane) /\ Tail(th.todo) \in Seq(Words)
      /\ s = "map" => th.pane # NoPane
  BY <1>1, <1>2, LeftAre
<1>4. n.op = th.op /\ n.key = th.key /\ n.pane = th.pane /\ n.at = at /\ n.todo = Tail(th.todo)
  OBVIOUS
<1>5. n \in EnrolCalls
  BY <1>1, <1>3, <1>4 DEF EnrolCalls, CallTyped, Working
<1>6. EnrolWritten(s, th.key, th.pane, d, e)
  <2> SUFFICES EnrolWritten(s, th.key, th.pane, d, Enrol!Effect(s, th.key, th.pane, d))
    BY Zenon
  <2> QED
    BY ONLY <1>1, <1>3, d \in Tables, s \in {"insert", "map", "retire", "activate", "remove"}, MappedIs
<1>7. ASSUME CallHolds(th, base, d, state), \A k \in AgentKeys : PaneAgrees(base, k)
      PROVE  CallHolds(n, base, e, "open")
  <2>1. Lacking(th, d, base) /\ \A k \in AgentKeys \ {th.key} : PaneAgrees(d, k)
    BY <1>7 DEF CallHolds, Working
  <2>2. \A k \in AgentKeys \ {th.key} : e.agent[k] = d.agent[k] /\ Enrol!Current(e, k) = Enrol!Current(d, k)
    BY <1>6 DEF EnrolWritten
  <2>3. \A k \in AgentKeys \ {n.key} : PaneAgrees(e, k)
    <3> SUFFICES ASSUME NEW k \in AgentKeys \ {th.key} PROVE PaneAgrees(e, k)
      BY <1>4
    <3>1. PaneAgrees(d, k) /\ e.agent[k] = d.agent[k] /\ Enrol!Current(e, k) = Enrol!Current(d, k)
      BY <2>1, <2>2
    <3> QED
      BY ONLY <3>1 DEF PaneAgrees
  <2>4. Lacking(n, e, base)
    <3> DEFINE row == d.agent[th.key]
               panes == Enrol!Current(d, th.key)
               active == [status |-> "active", pane |-> th.pane]
    <3>1. CASE th.todo = <<"insert", "commit">>
      <4>1. s = "insert" /\ n.todo = <<"commit">> /\ th.pane = NoPane /\ th.op \in Adds
        BY <1>1, <1>4, <3>1, Heads, Tails DEF ScriptLeft, Inserting, Adds
      <4>2. d = base /\ row.status = "absent"
        BY <2>1, <3>1, <4>1, Heads DEF Lacking, Enrol!Violates
      <4>3. panes = {}
        BY <1>1, <1>7, <4>2 DEF PaneAgrees
      <4> QED
        BY <1>4, <1>6, <4>1, <4>3 DEF EnrolWritten, Lacking, Adds
    <3>2. CASE th.todo = <<"insert", "map", "commit">>
      <4>1. s = "insert" /\ n.todo = <<"map", "commit">> /\ th.op \in Adds
        BY <1>1, <1>4, <3>2, Heads, Tails DEF ScriptLeft, Inserting, Adds
      <4>2. d = base /\ row.status = "absent"
        BY <2>1, <3>2, <4>1 DEF Lacking, Enrol!Violates
      <4>3. panes = {}
        BY <1>1, <1>7, <4>2 DEF PaneAgrees
      <4> QED
        BY <1>4, <1>6, <4>1, <4>3 DEF EnrolWritten, Lacking, Adds
    <3>3. CASE th.todo = <<"map", "commit">>
      <4>1. s = "map" /\ n.todo = <<"commit">> /\ th.op \in Adds /\ th.pane \in Panes
        BY <1>1, <1>3, <1>4, <3>3, Heads, Tails DEF ScriptLeft, Inserting, Adds
      <4>2. row = active /\ panes = {}
        BY <2>1, <3>3 DEF Lacking
      <4> QED
        BY <1>4, <1>6, <4>1, <4>2 DEF EnrolWritten, Lacking, Adds, Enrol!EnrollmentAssumption
    <3>4. CASE th.todo = <<"retire", "map", "activate", "commit">>
      BY <1>4, <1>6, <3>4, Heads, Tails DEF EnrolWritten, Lacking
    <3>5. CASE th.todo = <<"map", "activate", "commit">>
      <4>1. s = "map" /\ n.todo = <<"activate", "commit">>
        BY <1>4, <3>5, Heads, Tails
      <4>2. panes = {} /\ row.status # "absent"
        BY <2>1, <3>5, <4>1 DEF Lacking, Enrol!Violates
      <4> QED
        BY <1>4, <1>6, <4>1, <4>2 DEF EnrolWritten, Lacking
    <3>6. CASE th.todo = <<"activate", "commit">>
      <4>1. s = "activate" /\ n.todo = <<"commit">> /\ th.op = "remap" /\ th.pane \in Panes
        BY <1>1, <1>4, <3>6, Heads, Tails DEF ScriptLeft, Inserting, Adds
      <4>2. panes = {th.pane} /\ row.status # "absent"
        BY <2>1, <3>6, <4>1 DEF Lacking
      <4> QED
        BY <1>4, <1>6, <4>1, <4>2 DEF EnrolWritten, Lacking, Enrol!EnrollmentAssumption
    <3>7. CASE th.todo = <<"retire", "remove", "commit">>
      BY <1>4, <1>6, <3>7, Heads, Tails DEF EnrolWritten, Lacking
    <3>8. CASE th.todo = <<"remove", "commit">>
      <4>1. s = "remove" /\ n.todo = <<"commit">> /\ th.op = "remove"
        BY <1>1, <1>4, <3>8, Heads, Tails DEF ScriptLeft, Inserting, Adds
      <4>2. panes = {}
        BY <2>1, <3>8 DEF Lacking
      <4> QED
        BY <1>4, <1>6, <4>1, <4>2 DEF EnrolWritten, Lacking
    <3> QED
      BY <1>1, <1>2, <3>1, <3>2, <3>3, <3>4, <3>5, <3>6, <3>7, <3>8, Heads DEF ScriptLeft, Inserting, Adds
  <2> QED
    BY <1>4, <2>3, <2>4 DEF CallHolds
<1> QED
  BY <1>5, <1>6, <1>7 DEF EnrolWritten, NextHolds

(* One worker's step: what it takes for the invariant.                      *)
LEMMA EnrolMine ==
    ASSUME EnrolInv, NEW t \in Enrollers, worker[t].at # "idle"
    PROVE  /\ worker[t] \in EnrolCalls
           /\ ~ mixed => /\ \A u \in Enrollers \ {t} : worker[u].at = "idle"
                         /\ \A k \in AgentKeys : PaneAgrees(db, k)
                         /\ CallHolds(worker[t], db, work, txn)
  BY DEF EnrolInv, EnrolTypes, Unmixed

LEMMA EnrolMoved ==
    ASSUME EnrolInv, NEW t \in Enrollers, worker[t].at # "idle",
           NEW n \in EnrolCalls, worker' = [worker EXCEPT ![t] = n],
           db' \in Tables, work' \in Tables,
           txn' \in {"idle", "open", "failed", "lost"}, txn' \in {"idle", "lost"} => work' = db',
           UNCHANGED <<ops, drops, mixed>>,
           ~ mixed => /\ CallHolds(n, db', work', txn')
                      /\ \A k \in AgentKeys : PaneAgrees(db', k)
                      /\ n.at = "idle" => work' = db' /\ txn' # "failed"
    PROVE  EnrolInv'
<1>1. EnrolTypes'
  BY DEF EnrolInv, EnrolTypes
<1>2. worker'[t] = n /\ \A u \in Enrollers \ {t} : worker'[u] = worker[u]
  BY DEF EnrolInv, EnrolTypes
<1>3. ASSUME ~ mixed PROVE Unmixed'
  <2>1. \A u \in Enrollers \ {t} : worker[u].at = "idle"
    BY <1>3, EnrolMine
  <2>2. \A u, v \in Enrollers : worker'[u].at # "idle" /\ worker'[v].at # "idle" => u = v
    BY <1>2, <2>1
  <2>3. (\A u \in Enrollers : worker'[u].at = "idle") => work' = db' /\ txn' # "failed"
    BY <1>2, <1>3
  <2>4. \A u \in Enrollers : CallHolds(worker'[u], db', work', txn')
    <3> SUFFICES ASSUME NEW u \in Enrollers, u # t PROVE CallHolds(worker'[u], db', work', txn')
      BY <1>2, <1>3
    <3>1. worker'[u].at = "idle"
      BY <1>2, <2>1
    <3> QED
      BY ONLY <3>1 DEF CallHolds, Working
  <2> QED
    BY <1>3, <2>2, <2>3, <2>4 DEF Unmixed
<1> QED
  BY <1>1, <1>3 DEF EnrolInv

\* A call at another place, its tables as they are.
LEMMA EnrolPlaced ==
    ASSUME NEW th \in EnrolCalls, th.at # "idle", NEW at \in Working \cup {"undo", "leave", "tell"},
           NEW n, n = [th EXCEPT !.at = at]
    PROVE  /\ n \in EnrolCalls
           /\ n.op = th.op /\ n.key = th.key /\ n.pane = th.pane /\ n.todo = th.todo /\ n.at = at
           /\ \A d, base : Lacking(n, d, base) <=> Lacking(th, d, base)
<1>1. n.op = th.op /\ n.key = th.key /\ n.pane = th.pane /\ n.todo = th.todo /\ n.at = at
  BY DEF EnrolCalls
<1>2. n \in EnrolCalls
  BY <1>1, WorkingCall DEF EnrolCalls, CallTyped
<1>3. \A d, base : Lacking(n, d, base) <=> Lacking(th, d, base)
  BY <1>1 DEF Lacking
<1> QED
  BY <1>1, <1>2, <1>3

LEMMA TwoFields ==
    ASSUME NEW th \in EnrolCalls, NEW at, NEW todo
    PROVE  LET n == [op |-> th.op, key |-> th.key, pane |-> th.pane, at |-> at, todo |-> todo]
           IN  /\ [th EXCEPT !.at = at, !.todo = todo] = n
               /\ [[th EXCEPT !.todo = todo] EXCEPT !.at = at] = n
<1>1. th = [op |-> th.op, key |-> th.key, pane |-> th.pane, at |-> th.at, todo |-> th.todo]
  BY DEF EnrolCalls
<1> DEFINE a == [th EXCEPT !.at = at]
           b == [th EXCEPT !.todo = todo]
<1>2. /\ a = [op |-> th.op, key |-> th.key, pane |-> th.pane, at |-> at, todo |-> th.todo]
      /\ b = [op |-> th.op, key |-> th.key, pane |-> th.pane, at |-> th.at, todo |-> todo]
  BY <1>1
<1>3. [a EXCEPT !.todo = todo] = [op |-> th.op, key |-> th.key, pane |-> th.pane, at |-> at, todo |-> todo]
  <2> HIDE DEF a
  <2> QED
    BY <1>2
<1>4. [b EXCEPT !.at = at] = [op |-> th.op, key |-> th.key, pane |-> th.pane, at |-> at, todo |-> todo]
  <2> HIDE DEF b
  <2> QED
    BY <1>2
<1> QED
  BY <1>3, <1>4

LEMMA IdleIs == Enrol!Idle \in EnrolCalls /\ Enrol!Idle.at = "idle"
<1>1. Enrol!Idle.at = "idle" /\ <<>> \in Seq(Words)
  BY DEF Enrol!Idle
<1>2. Enrol!Idle \in [op : Adds \cup {"remap", "remove", ""}, key : AgentKeys \cup {""},
                       pane : Panes \cup {NoPane},
                       at : Working \cup {"idle", "undo", "leave", "tell"}, todo : Seq(Words)]
  BY <1>1 DEF Enrol!Idle
<1> QED
  BY <1>1, <1>2 DEF EnrolCalls, CallTyped

(* The actions. *)
LEMMA EnrolBegins ==
    ASSUME Enrol!EnrollmentAssumption, EnrolInv,
           NEW t \in Enrollers, NEW k \in AgentKeys, NEW p \in Panes \cup {NoPane},
           NEW op \in {"add", "enroll", "enroll_pane", "remap", "remove"}, Enrol!Begin(t, op, k, p)
    PROVE  EnrolInv'
<1> DEFINE n == [op |-> op, key |-> k, pane |-> p, at |-> "ensure", todo |-> Enrol!Script(op, p)]
<1>1. /\ op \in Adds \cup {"remap", "remove"} /\ (op = "remap" => p # NoPane)
      /\ worker' = [worker EXCEPT ![t] = n] /\ ops' = ops + 1 /\ ops < MaxOps
      /\ mixed' = (mixed \/ \E u \in Enrollers : worker[u].at # "idle")
      /\ UNCHANGED <<db, work, txn, drops>>
  BY DEF Enrol!Begin, Adds, Enrol!EnrollmentAssumption, EnrolInv, EnrolTypes
<1>2. Enrol!Script(op, p) \in ScriptLeft(op, p) /\ Enrol!Script(op, p) \in Seq(Words)
  BY <1>1, LeftAre
<1>3. n \in EnrolCalls
  BY <1>1, <1>2 DEF EnrolCalls, CallTyped, Working
<1>4. EnrolTypes'
  BY <1>1, <1>3 DEF EnrolInv, EnrolTypes, Enrol!EnrollmentAssumption
<1>5. ASSUME ~ mixed' PROVE Unmixed'
  <2>1. /\ ~ mixed /\ \A u \in Enrollers : worker[u].at = "idle"
        /\ work = db /\ txn # "failed" /\ \A j \in AgentKeys : PaneAgrees(db, j)
    BY <1>1, <1>5 DEF EnrolInv, Unmixed
  <2>2. worker'[t] = n /\ \A u \in Enrollers \ {t} : worker'[u].at = "idle"
    BY <1>1, <2>1 DEF EnrolInv, EnrolTypes
  <2>3. n.key = k /\ n.op = op /\ n.pane = p /\ n.at = "ensure" /\ n.todo = Enrol!Script(op, p)
    OBVIOUS
  <2> HIDE DEF n
  <2>4. n.todo \notin {<<"map", "commit">>, <<"map", "activate", "commit">>, <<"remove", "commit">>,
                        <<"activate", "commit">>, <<"commit">>}
    BY <1>1, <2>3, ScriptIs, Joined, Heads DEF Enrol!Inserts, Adds, Words
  <2>5. CallHolds(n, db, work, txn)
    BY <2>1, <2>3, <2>4 DEF CallHolds, Lacking
  <2>6. \A u \in Enrollers : CallHolds(worker'[u], db, work, txn)
    <3> SUFFICES ASSUME NEW u \in Enrollers, u # t PROVE CallHolds(worker'[u], db, work, txn)
      BY <2>2, <2>5
    <3>1. worker'[u].at = "idle"
      BY <2>2
    <3> QED
      BY ONLY <3>1 DEF CallHolds, Working
  <2>7. \A u, v \in Enrollers : worker'[u].at # "idle" /\ worker'[v].at # "idle" => u = v
    BY <2>2
  <2> QED
    BY <1>1, <2>1, <2>6, <2>7 DEF Unmixed
<1> QED
  BY <1>4, <1>5 DEF EnrolInv

LEMMA EnrolDrops ==
    ASSUME Enrol!EnrollmentAssumption, EnrolInv, Enrol!DropConnection
    PROVE  EnrolInv'
<1>1. EnrolTypes'
  BY DEF EnrolInv, EnrolTypes, Enrol!DropConnection, Enrol!EnrollmentAssumption
<1>2. ASSUME ~ mixed' PROVE Unmixed'
  <2>1. /\ ~ mixed /\ \A u \in Enrollers : worker[u].at = "idle"
        /\ work' = db /\ txn' = "lost" /\ UNCHANGED <<db, worker>>
    BY <1>2 DEF Enrol!DropConnection
  <2>2. \A u \in Enrollers : CallHolds(worker[u], db, db, "lost")
    BY <2>1 DEF CallHolds, Working
  <2> QED
    BY <2>1, <2>2 DEF EnrolInv, Unmixed
<1> QED
  BY <1>1, <1>2 DEF EnrolInv

LEMMA EnrolChecks ==
    ASSUME EnrolInv, NEW t \in Enrollers, Enrol!CheckStatus(t)
    PROVE  EnrolInv'
<1> DEFINE th == worker[t]
           at == IF txn = "idle" THEN "probe" ELSE "run"
           n == [th EXCEPT !.at = at]
<1>1. th.at = "ensure" /\ worker' = [worker EXCEPT ![t] = n] /\ UNCHANGED <<db, work, txn, ops, drops, mixed>>
  BY DEF Enrol!CheckStatus, Enrol!Goes
<1>2. th \in EnrolCalls /\ at \in Working
  BY <1>1, EnrolMine DEF Working
<1>3. /\ n \in EnrolCalls /\ n.key = th.key /\ n.todo = th.todo /\ n.at = at
      /\ (Lacking(n, work, db) <=> Lacking(th, work, db))
  BY <1>1, <1>2, EnrolPlaced
<1>4. ASSUME ~ mixed PROVE CallHolds(n, db, work, txn) /\ \A k \in AgentKeys : PaneAgrees(db, k)
  <2>1. CallHolds(th, db, work, txn) /\ \A k \in AgentKeys : PaneAgrees(db, k)
    BY <1>1, <1>4, EnrolMine
  <2> HIDE DEF th, n
  <2> QED
    BY <1>1, <1>2, <1>3, <2>1 DEF CallHolds, Working
<1>5. n.at # "idle"
  BY <1>3
<1> HIDE DEF n
<1> QED
  BY <1>1, <1>3, <1>4, <1>5, EnrolMoved DEF EnrolInv, EnrolTypes

LEMMA EnrolProbes ==
    ASSUME EnrolInv, NEW t \in Enrollers, Enrol!Probe(t)
    PROVE  EnrolInv'
<1> DEFINE th == worker[t]
           n == [th EXCEPT !.at = "prepare"]
<1>1. /\ th.at = "probe" /\ worker' = [worker EXCEPT ![t] = n]
      /\ work' = db /\ txn' = "idle" /\ UNCHANGED <<db, ops, drops, mixed>>
  BY DEF Enrol!Probe, Enrol!Goes, Enrol!Rollback
<1>2. th \in EnrolCalls
  BY <1>1, EnrolMine
<1>3. /\ n \in EnrolCalls /\ n.key = th.key /\ n.todo = th.todo /\ n.at = "prepare"
      /\ (Lacking(n, db, db) <=> Lacking(th, db, db))
  BY <1>1, <1>2, EnrolPlaced DEF Working
<1>4. ASSUME ~ mixed PROVE CallHolds(n, db, db, "idle") /\ \A k \in AgentKeys : PaneAgrees(db, k)
  <2>1. CallHolds(th, db, work, txn) /\ \A k \in AgentKeys : PaneAgrees(db, k)
    BY <1>1, <1>4, EnrolMine
  <2>2. txn = "idle" /\ work = db
    BY <1>1, <2>1 DEF CallHolds, EnrolInv, EnrolTypes
  <2> HIDE DEF th, n
  <2> QED
    BY <1>1, <1>2, <1>3, <2>1, <2>2 DEF CallHolds, Working
<1> HIDE DEF n
<1> QED
  BY <1>1, <1>3, <1>4, EnrolMoved DEF EnrolInv, EnrolTypes

LEMMA EnrolPrepares ==
    ASSUME EnrolInv, NEW t \in Enrollers, Enrol!Prepare(t)
    PROVE  EnrolInv'
<1> DEFINE th == worker[t]
           n == [th EXCEPT !.at = "run"]
<1>1. /\ th.at = "prepare" /\ worker' = [worker EXCEPT ![t] = n]
      /\ txn' = "idle" /\ UNCHANGED <<ops, drops, mixed>>
      /\ \/ txn \in {"failed", "lost"} /\ work' = db /\ db' = db
         \/ db' = work /\ work' = work
  BY DEF Enrol!Prepare, Enrol!Goes, Enrol!Rollback
<1>2. th \in EnrolCalls
  BY <1>1, EnrolMine
<1>3. /\ n \in EnrolCalls /\ n.key = th.key /\ n.todo = th.todo /\ n.at = "run"
      /\ (Lacking(n, db, db) <=> Lacking(th, db, db))
  BY <1>1, <1>2, EnrolPlaced DEF Working
<1>4. ASSUME ~ mixed
      PROVE  db' = db /\ work' = db /\ CallHolds(n, db, db, "idle") /\ \A k \in AgentKeys : PaneAgrees(db, k)
  <2>1. CallHolds(th, db, work, txn) /\ \A k \in AgentKeys : PaneAgrees(db, k)
    BY <1>1, <1>4, EnrolMine
  <2>2. txn = "idle" /\ work = db
    BY <1>1, <2>1 DEF CallHolds, EnrolInv, EnrolTypes
  <2> HIDE DEF th, n
  <2> QED
    BY <1>1, <1>2, <1>3, <2>1, <2>2 DEF CallHolds, Working
<1>5. /\ db' \in Tables /\ work' \in Tables /\ work' = db'
  BY <1>1 DEF EnrolInv, EnrolTypes
<1> HIDE DEF n
<1>6. ~ mixed => /\ CallHolds(n, db', work', txn') /\ \A k \in AgentKeys : PaneAgrees(db', k)
  BY <1>1, <1>4
<1> QED
  BY <1>1, <1>3, <1>5, <1>6, EnrolMoved

LEMMA EnrolLooksUp ==
    ASSUME EnrolInv, NEW t \in Enrollers, NEW s \in {"find_key", "find_pane"}, Enrol!LookUp(t, s)
    PROVE  EnrolInv'
<1> DEFINE th == worker[t]
           later == [th EXCEPT !.at = "ensure", !.todo = Tail(th.todo)]
<1>1. /\ th.at = "run" /\ Head(th.todo) = s /\ txn' = "open" /\ UNCHANGED <<db, work, ops, drops, mixed>>
      /\ worker' = [worker EXCEPT ![t] = Enrol!Idle] \/ worker' = [worker EXCEPT ![t] = later]
  <2> HIDE DEF later
  <2>1. worker' = [worker EXCEPT ![t] = IF Enrol!Found(s, worker[t].key, worker[t].pane, work)
                                        THEN Enrol!Idle ELSE later]
    BY Zenon DEF Enrol!LookUp, later
  <2> QED
    BY <2>1 DEF Enrol!LookUp, Enrol!Runs
<1>2. th \in EnrolCalls
  BY <1>1, EnrolMine
<1>3. /\ th.key \in AgentKeys /\ th.pane \in Panes \cup {NoPane} /\ th.op \in Adds \cup {"remap", "remove"}
      /\ th.op = "remap" => th.pane # NoPane
      /\ th.todo \in ScriptLeft(th.op, th.pane)
  <2>1. th.at # "idle"
    BY <1>1
  <2> HIDE DEF th
  <2> QED
    BY <1>2, <2>1, WorkingCall
<1>4. /\ later.key = th.key /\ later.op = th.op /\ later.pane = th.pane /\ later.at = "ensure"
      /\ later.todo = Tail(th.todo)
  BY <1>2 DEF EnrolCalls
<1> HIDE DEF th, later
<1>5. /\ th.todo \notin {<<"map", "commit">>, <<"map", "activate", "commit">>, <<"remove", "commit">>,
                          <<"activate", "commit">>, <<"commit">>}
      /\ Tail(th.todo) \in {<<"insert", "commit">>, <<"insert", "map", "commit">>}
      /\ Tail(th.todo) \in ScriptLeft(th.op, th.pane)
  <2>1. th.todo \in {<<"find_key", "insert", "commit">>, <<"find_key", "insert", "map", "commit">>,
                      <<"find_pane", "insert", "commit">>, <<"find_pane", "insert", "map", "commit">>}
    BY <1>1, <1>3, Heads DEF ScriptLeft, Inserting, Adds
  <2>2. th.todo # <<"commit">>
    BY <1>1, Heads
  <2>3. Tail(th.todo) \in ScriptLeft(th.op, th.pane)
    BY <1>3, <2>2, LeftAre
  <2>4. th.todo \notin {<<"map", "commit">>, <<"map", "activate", "commit">>, <<"remove", "commit">>,
                          <<"activate", "commit">>, <<"commit">>}
    BY <1>1, Heads
  <2> QED
    BY <2>1, <2>3, <2>4, Tails
<1>6. later \in EnrolCalls
  <2>1. Tail(th.todo) \in Seq(Words)
    BY <1>3, <1>5, LeftAre
  <2>2. later = [op |-> th.op, key |-> th.key, pane |-> th.pane, at |-> "ensure", todo |-> Tail(th.todo)]
    BY <1>2, TwoFields DEF later
  <2> QED
    BY <1>3, <1>4, <1>5, <2>1, <2>2 DEF EnrolCalls, CallTyped, Working
<1>7. ASSUME ~ mixed
      PROVE  /\ work = db /\ CallHolds(later, db, work, "open") /\ CallHolds(Enrol!Idle, db, work, "open")
             /\ \A k \in AgentKeys : PaneAgrees(db, k)
  <2>1. CallHolds(th, db, work, txn) /\ \A k \in AgentKeys : PaneAgrees(db, k)
    BY <1>1, <1>7, EnrolMine DEF th
  <2>2. work = db
    BY <1>1, <1>5, <2>1 DEF CallHolds, Lacking, Working
  <2>3. CallHolds(later, db, work, "open")
    BY <1>4, <1>5, <2>1, <2>2 DEF CallHolds, Lacking, Working
  <2>4. CallHolds(Enrol!Idle, db, work, "open")
    BY IdleIs DEF CallHolds, Working
  <2> QED
    BY <2>1, <2>2, <2>3, <2>4
<1>8. db \in Tables /\ work \in Tables
  BY DEF EnrolInv, EnrolTypes
<1>9. worker[t].at # "idle"
  BY <1>1 DEF th
<1>10. CASE worker' = [worker EXCEPT ![t] = Enrol!Idle]
  BY <1>1, <1>7, <1>8, <1>9, <1>10, IdleIs, EnrolMoved
<1>11. CASE worker' = [worker EXCEPT ![t] = later]
  BY <1>1, <1>4, <1>6, <1>7, <1>8, <1>9, <1>11, EnrolMoved
<1> QED
  BY <1>1, <1>10, <1>11

LEMMA EnrolStates ==
    ASSUME Enrol!EnrollmentAssumption, EnrolInv, NEW t \in Enrollers,
           NEW s \in {"insert", "map", "retire", "activate", "remove"}, Enrol!Statement(t, s)
    PROVE  EnrolInv'
<1> DEFINE th == worker[t]
           at == IF th.todo[2] = "commit" THEN "ensure" ELSE "run"
           n == [op |-> th.op, key |-> th.key, pane |-> th.pane, at |-> at, todo |-> Tail(th.todo)]
<1>1. /\ th.at = "run" /\ Head(th.todo) = s /\ txn' = "open" /\ UNCHANGED <<db, ops, drops, mixed>>
      /\ ~ Enrol!Violates(s, th.key, th.pane, work)
      /\ work' = Enrol!Effect(s, th.key, th.pane, work)
      /\ worker' = [worker EXCEPT ![t].todo = Tail(@), ![t].at = at]
  BY DEF Enrol!Statement, Enrol!Runs
<1>2. th \in EnrolCalls /\ db \in Tables /\ work \in Tables /\ worker \in [Enrollers -> EnrolCalls]
  BY <1>1, EnrolMine DEF EnrolInv, EnrolTypes
<1>3. worker' = [worker EXCEPT ![t] = n]
  <2>1. [[th EXCEPT !.todo = Tail(th.todo)] EXCEPT !.at = at] = n
    <3> HIDE DEF th, at
    <3> QED
      BY <1>2, TwoFields
  <2>2. worker' = [worker EXCEPT ![t] = [[th EXCEPT !.todo = Tail(th.todo)] EXCEPT !.at = at]]
    BY <1>1, <1>2
  <2> QED
    BY <2>1, <2>2
<1>4. at \in {"ensure", "run"} /\ n.at = at
  OBVIOUS
<1>5. worker[t].at # "idle"
  BY <1>1
<1> DEFINE e == Enrol!Effect(s, th.key, th.pane, work)
<1>6. NextHolds(th, db, work, txn, n, e)
  <2>1. n = [op |-> th.op, key |-> th.key, pane |-> th.pane, at |-> at, todo |-> Tail(th.todo)]
    OBVIOUS
  <2>2. e = Enrol!Effect(s, th.key, th.pane, work)
    OBVIOUS
  <2> HIDE DEF th, n, e, at
  <2> QED
    BY <1>1, <1>2, <1>4, <2>1, <2>2, NextStatement
<1>7. ~ mixed => CallHolds(th, db, work, txn) /\ \A k \in AgentKeys : PaneAgrees(db, k)
  BY <1>5, EnrolMine
<1>8. n.at # "idle"
  BY <1>4
<1> HIDE DEF th, n
<1> QED
  BY <1>1, <1>2, <1>3, <1>5, <1>6, <1>7, <1>8, EnrolMoved DEF NextHolds

LEMMA EnrolFails ==
    ASSUME EnrolInv, NEW t \in Enrollers, NEW s, Enrol!Fails(t, s)
    PROVE  EnrolInv'
<1> DEFINE th == worker[t]
           n == [th EXCEPT !.at = "undo"]
<1>1. /\ th.at = "run" /\ worker' = [worker EXCEPT ![t] = n]
      /\ txn' = "failed" /\ UNCHANGED <<db, work, ops, drops, mixed>>
  BY DEF Enrol!Fails, Enrol!Runs, Enrol!Goes
<1>2. n \in EnrolCalls /\ n.at = "undo"
  <2>1. th \in EnrolCalls /\ th.at # "idle"
    BY <1>1, EnrolMine
  <2> HIDE DEF th
  <2> QED
    BY <2>1, EnrolPlaced
<1>3. ~ mixed => \A k \in AgentKeys : PaneAgrees(db, k)
  BY <1>1, EnrolMine
<1> HIDE DEF n
<1>4. CallHolds(n, db, work, "failed")
  BY <1>2 DEF CallHolds, Working
<1> QED
  BY <1>1, <1>2, <1>3, <1>4, EnrolMoved DEF EnrolInv, EnrolTypes

LEMMA EnrolUndoes ==
    ASSUME EnrolInv, NEW t \in Enrollers, Enrol!Undo(t)
    PROVE  EnrolInv'
<1> DEFINE th == worker[t]
           later == [th EXCEPT !.at = "leave"]
<1>1. /\ th.at \in {"undo", "leave"}
      /\ worker' = [worker EXCEPT ![t] = later] \/ worker' = [worker EXCEPT ![t] = Enrol!Idle]
      /\ work' = db /\ txn' = "idle" /\ UNCHANGED <<db, ops, drops, mixed>>
  BY DEF Enrol!Undo, Enrol!Rollback
<1>2. later \in EnrolCalls /\ later.at = "leave"
  <2>1. th \in EnrolCalls /\ th.at # "idle"
    BY <1>1, EnrolMine
  <2> HIDE DEF th
  <2> QED
    BY <2>1, EnrolPlaced
<1>3. ~ mixed => \A k \in AgentKeys : PaneAgrees(db, k)
  BY <1>1, EnrolMine
<1> HIDE DEF later
<1>4. CallHolds(later, db, db, "idle") /\ CallHolds(Enrol!Idle, db, db, "idle")
  BY <1>2, IdleIs DEF CallHolds, Working
<1>5. db \in Tables
  BY DEF EnrolInv, EnrolTypes
<1>6. CASE worker' = [worker EXCEPT ![t] = later]
  BY <1>1, <1>2, <1>3, <1>4, <1>5, <1>6, EnrolMoved
<1>7. CASE worker' = [worker EXCEPT ![t] = Enrol!Idle]
  BY <1>1, <1>3, <1>4, <1>5, <1>7, IdleIs, EnrolMoved
<1> QED
  BY <1>1, <1>6, <1>7

LEMMA EnrolCommits ==
    ASSUME EnrolInv, NEW t \in Enrollers, Enrol!Commit(t)
    PROVE  EnrolInv'
<1> DEFINE th == worker[t]
           n == [th EXCEPT !.at = "tell"]
<1>1. /\ th.at = "run" /\ Head(th.todo) = "commit" /\ worker' = [worker EXCEPT ![t] = n]
      /\ txn' = "idle" /\ UNCHANGED <<ops, drops, mixed>>
      /\ \/ txn = "failed" /\ work' = db /\ db' = db
         \/ txn # "failed" /\ db' = work /\ work' = work
  BY DEF Enrol!Commit, Enrol!Runs, Enrol!Goes, Enrol!Rollback
<1>2. th \in EnrolCalls
  BY <1>1, EnrolMine
<1>3. /\ th.key \in AgentKeys /\ th.pane \in Panes \cup {NoPane} /\ th.op \in Adds \cup {"remap", "remove"}
      /\ th.todo \in ScriptLeft(th.op, th.pane)
  <2>1. th.at # "idle"
    BY <1>1
  <2> HIDE DEF th
  <2> QED
    BY <1>2, <2>1, WorkingCall
<1>4. n \in EnrolCalls /\ n.op = th.op /\ n.key = th.key /\ n.pane = th.pane /\ n.at = "tell"
  BY <1>1, <1>2, EnrolPlaced
<1>5. th.todo = <<"commit">>
  <2> HIDE DEF th
  <2> QED
    BY <1>1, <1>3, Heads DEF ScriptLeft, Inserting, Adds
<1>6. ASSUME ~ mixed
      PROVE  db' = work /\ work' = work /\ CallHolds(n, work, work, "idle") /\ \A k \in AgentKeys : PaneAgrees(work, k)
  <2>1. CallHolds(th, db, work, txn)
    BY <1>1, <1>6, EnrolMine
  <2> HIDE DEF th, n
  <2>2. Lacking(th, work, db) /\ txn = "open" /\ \A k \in AgentKeys \ {th.key} : PaneAgrees(work, k)
    BY <1>1, <1>5, <2>1 DEF CallHolds, Working
  <2>3. /\ th.op # "remove" => /\ work.agent[th.key] = [status |-> "active", pane |-> th.pane]
                               /\ Enrol!Current(work, th.key) = {th.pane} \ {NoPane}
        /\ th.op = "remove" => /\ work.agent[th.key].status \in {"absent", "removed"}
                               /\ Enrol!Current(work, th.key) = {}
    BY <1>5, <2>2 DEF Lacking
  <2>4. PaneAgrees(work, th.key)
    BY <2>3 DEF PaneAgrees
  <2>5. CallHolds(n, work, work, "idle")
    BY <1>4, <2>3 DEF CallHolds, EnrolAnswered, Working
  <2> QED
    BY <1>1, <2>2, <2>4, <2>5
<1>7. /\ db' \in Tables /\ work' \in Tables /\ work' = db'
  BY <1>1 DEF EnrolInv, EnrolTypes
<1> HIDE DEF n
<1>8. ~ mixed => CallHolds(n, db', work', txn') /\ \A k \in AgentKeys : PaneAgrees(db', k)
  BY <1>1, <1>6
<1> QED
  BY <1>1, <1>4, <1>7, <1>8, EnrolMoved

LEMMA EnrolLoses ==
    ASSUME EnrolInv, NEW t \in Enrollers, Enrol!CommitFails(t)
    PROVE  EnrolInv'
<1>1. /\ worker[t].at = "run" /\ worker' = [worker EXCEPT ![t] = Enrol!Idle]
      /\ work' = db /\ txn' = "idle" /\ UNCHANGED <<db, ops, drops, mixed>>
  BY DEF Enrol!CommitFails, Enrol!Runs, Enrol!Rollback
<1>2. ~ mixed => \A k \in AgentKeys : PaneAgrees(db, k)
  BY <1>1, EnrolMine
<1>3. CallHolds(Enrol!Idle, db, db, "idle")
  BY IdleIs DEF CallHolds, Working
<1> QED
  BY <1>1, <1>2, <1>3, IdleIs, EnrolMoved DEF EnrolInv, EnrolTypes

LEMMA EnrolTells ==
    ASSUME EnrolInv, NEW t \in Enrollers, Enrol!Propagate(t)
    PROVE  EnrolInv'
<1>1. /\ worker[t].at = "tell" /\ worker' = [worker EXCEPT ![t] = Enrol!Idle]
      /\ UNCHANGED <<db, work, txn, ops, drops, mixed>>
  BY DEF Enrol!Propagate
<1>2. ~ mixed => /\ \A k \in AgentKeys : PaneAgrees(db, k)
                 /\ work = db /\ txn # "failed"
  BY <1>1, EnrolMine DEF CallHolds, EnrolInv, EnrolTypes
<1>3. CallHolds(Enrol!Idle, db, work, txn)
  BY IdleIs DEF CallHolds, Working
<1> QED
  BY <1>1, <1>2, <1>3, IdleIs, EnrolMoved DEF EnrolInv, EnrolTypes

LEMMA EnrolStarts == ASSUME Enrol!EnrollmentAssumption, Enrol!Init PROVE EnrolInv
<1>1. EnrolTypes
  <2>1. worker \in [Enrollers -> EnrolCalls]
    BY IdleIs DEF Enrol!Init
  <2>2. db \in Tables
    BY DEF Enrol!Init, Tables
  <2>3. mixed \in BOOLEAN
    BY DEF Enrol!Init
  <2>4. ops \in 0 .. MaxOps /\ drops \in 0 .. MaxDrops
    <3>1. ops = 0 /\ drops = 0
      BY DEF Enrol!Init
    <3> QED
      BY <3>1 DEF Enrol!EnrollmentAssumption
  <2>5. work = db /\ txn = "idle"
    BY DEF Enrol!Init
  <2> QED
    BY <2>1, <2>2, <2>3, <2>4, <2>5 DEF EnrolTypes
<1>2. \A k \in AgentKeys : PaneAgrees(db, k)
  BY DEF PaneAgrees, Enrol!Current, Enrol!Init
<1>3. \A t \in Enrollers : worker[t].at = "idle" /\ work = db /\ txn = "idle"
  BY IdleIs DEF Enrol!Init
<1>4. \A t \in Enrollers : CallHolds(worker[t], db, work, txn)
  BY <1>3 DEF CallHolds, Working
<1> QED
  BY <1>1, <1>2, <1>3, <1>4 DEF EnrolInv, Unmixed, Enrol!Init

LEMMA EnrolKept ==
    ASSUME Enrol!EnrollmentAssumption, EnrolInv, [Enrol!Next]_(Enrol!enrollVars)
    PROVE  EnrolInv'
<1>1. CASE UNCHANGED Enrol!enrollVars
  BY <1>1 DEF Enrol!enrollVars, EnrolInv, EnrolTypes, Unmixed
<1>2. CASE Enrol!Next
  BY <1>2, EnrolDrops, EnrolBegins, EnrolChecks, EnrolProbes, EnrolPrepares, EnrolLooksUp, EnrolStates,
     EnrolFails, EnrolUndoes, EnrolCommits, EnrolLoses, EnrolTells DEF Enrol!Next
<1> QED
  BY <1>1, <1>2

LEMMA EnrolHolds == ASSUME EnrolInv PROVE Enrol!PanesAgree /\ Enrol!TypeOK
<1>1. Enrol!TypeOK
  BY DEF EnrolInv, EnrolTypes, Tables, Enrol!TypeOK
<1>2. ASSUME ~ mixed PROVE \A k \in AgentKeys : PaneAgrees(db, k)
  BY <1>2 DEF EnrolInv, Unmixed
<1>3. ASSUME ~ mixed, NEW t \in Enrollers, worker[t].at = "tell" PROVE EnrolAnswered(worker[t], db)
  BY <1>3 DEF EnrolInv, Unmixed, CallHolds
<1> QED
  BY <1>1, <1>2, <1>3 DEF Enrol!PanesAgree, PaneAgrees, EnrolAnswered

(* Until calls overlap, for any agents, panes and threads: the pane in an   *)
(* active agent's row is its one mapping that is not retired, a removed     *)
(* agent has neither, and a call that is about to be answered has its row   *)
(* committed (registry/repository.py:162-230, dependencies.py:421-520).     *)
THEOREM PanesAreAgreed ==
    Enrol!EnrollmentAssumption /\ Enrol!Spec => [](Enrol!PanesAgree /\ Enrol!TypeOK)
<1> SUFFICES ASSUME Enrol!EnrollmentAssumption PROVE Enrol!Spec => [](Enrol!PanesAgree /\ Enrol!TypeOK)
  OBVIOUS
<1>1. Enrol!Init => EnrolInv
  BY EnrolStarts
<1>2. EnrolInv /\ [Enrol!Next]_(Enrol!enrollVars) => EnrolInv'
  BY EnrolKept
<1>3. EnrolInv => Enrol!PanesAgree /\ Enrol!TypeOK
  BY EnrolHolds
<1> QED
  BY <1>1, <1>2, <1>3, PTL DEF Enrol!Spec
=============================================================================
