---------------------- MODULE SlicingRefinement_proofs ----------------------
(***************************************************************************)
(* BackgroundSlicing implements SlicingPipeline: every step of the two     *)
(* threads is a step of the abstract pipeline or leaves it as it is.  The  *)
(* lemmas below are the steps that are not invisible; the invariants say   *)
(* why the guards of the abstract steps hold.                              *)
(***************************************************************************)
EXTENDS SlicingRefinement, SlicingRun_proofs

(* Steps that the pipeline does not see.                                      *)
Unseen == UNCHANGED <<AbsJob, AbsInside, AbsValid, AbsWanted, outdated>>

LEMMA UnseenStutters == Unseen => UNCHANGED Pipeline!vars
BY DEF Unseen, Pipeline!vars

(* The valid milestones depend on which ones are Done only.                   *)
LEMMA SameDone ==
    ASSUME \A s \in PrintSteps : step'[s] = "Done" <=> step[s] = "Done"
    PROVE  UNCHANGED AbsValid
BY DEF AbsValid

-----------------------------------------------------------------------------
(* The worker. *)

(* The worker starts a milestone over valid predecessors.                     *)
LEMMA EnterRefines ==
    ASSUME IInv, OrderInv, WEnter
    PROVE  Pipeline!Next
<1> USE Steps DEF bsp, cancel, print, task, export, worker, control, locals, sync, data, vars
<1>1. /\ wpc = "enter" /\ wpc' = "compute" /\ UNCHANGED <<state, wstep, enabled>>
      /\ step' = [step EXCEPT ![wstep] = "Started"] /\ outdated' = outdated \ {wstep}
      /\ step[wstep] # "Done"
  BY DEF WEnter, WGoto, Skipped
<1>2. wstep \in 1..Pipeline!FinalizeStep /\ step \in [AllSteps -> StepState]
  BY DEF IInv, TypeOK, AllSteps, FinalizeStep, Pipeline!FinalizeStep
<1>3. AbsJob = "active" /\ AbsInside = 0 /\ AbsInside' = wstep /\ wstep \notin AbsValid
  BY <1>1 DEF IInv, StateInv, RunPcs, AbsJob, AbsInside, InsidePcs, AbsValid
<1>4. UNCHANGED <<AbsJob, AbsValid, AbsWanted>>
  <2>1. \A s \in PrintSteps : step'[s] = "Done" <=> step[s] = "Done"
    BY <1>1, <1>2
  <2>2. QED
    BY <1>1, <2>1, SameDone DEF AbsJob, AbsWanted
<1>5. \A t \in Pipeline!Steps : t < wstep => t \in AbsValid \/ t \notin AbsWanted
  BY EnteredInOrder DEF Ordered, AbsValid, AbsWanted, Pipeline!Steps, PrintSteps
<1>6. Pipeline!Enter(wstep)
  BY <1>1, <1>3, <1>4, <1>5 DEF Pipeline!Enter
<1>7. QED
  BY <1>2, <1>6 DEF Pipeline!Next

(* The worker finishes its milestone, or leaves it by an exception.           *)
LEMMA LeaveRefines ==
    ASSUME IInv, WDone \/ WThrow
    PROVE  Pipeline!Next
<1> USE Steps DEF bsp, cancel, print, task, export, worker, control, locals, sync, data, vars
<1>1. /\ wpc \in InsidePcs /\ wpc' \notin InsidePcs
      /\ UNCHANGED <<state, enabled, outdated>>
      /\ \/ UNCHANGED step
         \/ step' = [step EXCEPT ![wstep] = "Done"]
  BY DEF WDone, WThrow, WGoto, NextStep, InsidePcs
<1>2. wstep \in AllSteps /\ step \in [AllSteps -> StepState]
  BY DEF IInv, TypeOK
<1>3. AbsInside = wstep /\ wstep # 0 /\ AbsInside' = 0 /\ UNCHANGED <<AbsJob, AbsWanted>>
  BY <1>1, <1>2 DEF AbsInside, AbsJob, AbsWanted, AllSteps
<1>4. CASE UNCHANGED step
  <2>1. Pipeline!Abandon
    BY <1>1, <1>3, <1>4 DEF Pipeline!Abandon, AbsValid
  <2>2. QED
    BY <2>1 DEF Pipeline!Next
<1>5. CASE step' = [step EXCEPT ![wstep] = "Done"]
  <2>1. AbsValid' = AbsValid \cup ({AbsInside} \cap Pipeline!Steps)
    BY <1>2, <1>3, <1>5 DEF AbsValid, Pipeline!Steps, PrintSteps
  <2>2. Pipeline!Finish
    BY <1>1, <1>3, <2>1 DEF Pipeline!Finish
  <2>3. QED
    BY <2>2 DEF Pipeline!Next
<1>6. QED
  BY <1>1, <1>4, <1>5

(* The end of a run: all milestones wanted again, then the result is posted.  *)
LEMMA EndRefines ==
    ASSUME IInv, WFinalize \/ WPost
    PROVE  Pipeline!Next
<1> USE Steps DEF bsp, cancel, print, task, export, worker, control, locals, sync, data, vars
<1>1. CASE WFinalize
  <2>1. /\ wpc = "finalize" /\ wpc' = "post" /\ UNCHANGED <<state, outdated>>
        /\ step' = [s \in AllSteps |->
                      IF s \in PrintSteps THEN MarkCanceled(step[s]) ELSE step[s]]
    BY <1>1 DEF WFinalize
  <2>2. \A s \in PrintSteps : step'[s] = "Done" <=> step[s] = "Done"
    BY <2>1 DEF MarkCanceled
  <2>3. UNCHANGED <<AbsJob, AbsInside, AbsValid>>
    BY <2>1, <2>2, SameDone DEF AbsJob, AbsInside, InsidePcs
  <2>4. AbsWanted' \in SUBSET Pipeline!Steps
    BY DEF AbsWanted, PrintSteps, Pipeline!Steps
  <2>5. Pipeline!Retarget(AbsWanted')
    BY <2>1, <2>3 DEF Pipeline!Retarget
  <2>6. QED
    BY <2>4, <2>5 DEF Pipeline!Next
<1>2. CASE WPost
  <2>1. /\ wpc = "post" /\ wpc' \notin InsidePcs /\ state' \in {"CANCELED", "FINISHED"}
        /\ UNCHANGED <<step, enabled, outdated>>
    BY <1>2 DEF WPost, WGoto, InsidePcs
  <2>2. AbsJob = "active" /\ AbsJob' = "over"
    BY <2>1 DEF IInv, StateInv, RunPcs, AbsJob
  <2>3. Pipeline!End
    BY <2>1, <2>2 DEF Pipeline!End, AbsInside, AbsValid, AbsWanted, InsidePcs
  <2>4. QED
    BY <2>3 DEF Pipeline!Next
<1>3. QED
  BY <1>1, <1>2

(* All steps of the worker.                                                   *)
LEMMA WorkerRefines ==
    ASSUME IInv, OrderInv, Worker
    PROVE  Pipeline!Next \/ Unseen
<1> USE DEF bsp, cancel, print, task, export, worker, control, locals, sync, data, vars
<1>1. CASE WInit
  <2>1. /\ wpc = "init" /\ wpc' = "notify" /\ state' = "IDLE"
        /\ UNCHANGED <<step, enabled, outdated>>
    BY <1>1 DEF WInit, WGoto
  <2>2. AbsJob = "off" /\ AbsJob' = "idle"
    BY <2>1 DEF IInv, StateInv, AbsJob
  <2>3. Pipeline!Ready
    BY <2>1, <2>2 DEF Pipeline!Ready, AbsInside, InsidePcs, AbsValid, AbsWanted
  <2>4. QED
    BY <2>3 DEF Pipeline!Next
<1>2. CASE WNotify \/ WWait \/ WEnterSkip \/ WEnterCanceled \/ WRestart
  <2>1. /\ UNCHANGED <<step, enabled, outdated>> /\ UNCHANGED AbsJob
        /\ wpc \notin InsidePcs /\ wpc' \notin InsidePcs
    BY <1>2
       DEF WNotify, WWait, WEnterSkip, WEnterCanceled, WRestart, WGoto, NextStep,
           InsidePcs, AbsJob
  <2>2. QED
    BY <2>1 DEF Unseen, AbsInside, AbsValid, AbsWanted
<1>3. CASE WEnter
  BY <1>3, EnterRefines
<1>4. CASE WCompute \/ (\E c \in Ctx : WPlanTask(c)) \/ WSkipTask \/ WTaskWait
  <2>1. /\ UNCHANGED <<state, step, enabled, outdated, wstep>>
        /\ wpc \in InsidePcs /\ wpc' \in InsidePcs
    BY <1>4 DEF WCompute, WPlanTask, WSkipTask, WTaskWait, WGoto, InsidePcs
  <2>2. QED
    BY <2>1 DEF Unseen, AbsJob, AbsInside, AbsValid, AbsWanted
<1>5. CASE WDone \/ WThrow
  BY <1>5, LeaveRefines
<1>6. CASE WFinalize \/ WPost
  BY <1>6, EndRefines
<1>7. CASE WCleanup
  <2>1. /\ wpc = "cleanup" /\ wpc' = "restart" /\ UNCHANGED <<state, enabled, outdated>>
        /\ step' = [s \in AllSteps |->
                      IF s \in CleanupSteps THEN QueryResetDirty(step[s]) ELSE step[s]]
    BY <1>7 DEF WCleanup, WGoto
  <2>2. \A s \in PrintSteps : step'[s] = "Done" <=> step[s] = "Done"
    BY <2>1, Steps DEF QueryResetDirty, IsDirty
  <2>3. QED
    BY <2>1, <2>2, SameDone DEF Unseen, AbsJob, AbsInside, AbsWanted, InsidePcs
<1>8. QED
  BY <1>1, <1>2, <1>3, <1>4, <1>5, <1>6, <1>7 DEF Worker

-----------------------------------------------------------------------------
(* The UI thread. *)

(* A run is started, its result acknowledged, the process shut down.          *)
LEMMA JobRefines ==
    ASSUME IInv,
           \/ StartIdle \/ StopWait \/ StopNotRunning \/ SiNotRunning \/ SiRelock \/ Join
    PROVE  Pipeline!Next \/ Unseen
<1> USE DEF bsp, cancel, print, task, export, worker, control, locals, sync, data, vars
<1> DEFINE Rest == UNCHANGED <<AbsInside, AbsValid, AbsWanted, outdated>>
<1>1. Rest
  BY DEF StartIdle, StopWait, StopNotRunning, SiNotRunning, SiRelock, Join,
         AbsInside, AbsValid, AbsWanted
<1>2. CASE StartIdle
  <2>1. AbsJob = "idle" /\ AbsJob' = "active"
    BY <1>2 DEF StartIdle, AbsJob
  <2>2. Pipeline!Begin
    BY <1>1, <2>1 DEF Pipeline!Begin
  <2>3. QED
    BY <2>2 DEF Pipeline!Next
<1>3. CASE StopWait \/ StopNotRunning \/ SiNotRunning \/ SiRelock
  <2>1. \/ state \in {"FINISHED", "CANCELED"} /\ state' = "IDLE"
        \/ UNCHANGED state
    BY <1>3
       DEF StopWait, StopNotRunning, SiNotRunning, SiRelock, IInv, TypeOK, StateInv,
           CancelInv, SiPcs, JoinPcs
  <2>2. CASE UNCHANGED state
    BY <1>1, <2>2 DEF Unseen, AbsJob
  <2>3. CASE state \in {"FINISHED", "CANCELED"} /\ state' = "IDLE"
    <3>1. AbsJob = "over" /\ AbsJob' = "idle"
      BY <2>3 DEF AbsJob
    <3>2. Pipeline!Acknowledge
      BY <1>1, <3>1 DEF Pipeline!Acknowledge
    <3>3. QED
      BY <3>2 DEF Pipeline!Next
  <2>4. QED
    BY <2>1, <2>2, <2>3
<1>4. CASE Join
  <2>1. Quiet
    BY <1>4, HeadQuiet DEF Join, Calls, IInv, QuietOps, JoinPcs
  <2>2. CASE state = "INITIAL"
    BY <1>1, <1>4, <2>2 DEF Join, Unseen, AbsJob
  <2>3. CASE state = "IDLE"
    <3>1. AbsJob = "idle" /\ AbsJob' = "off"
      BY <1>4, <2>3 DEF Join, AbsJob
    <3>2. Pipeline!Exit
      BY <1>1, <3>1 DEF Pipeline!Exit
    <3>3. QED
      BY <3>2 DEF Pipeline!Next
  <2>4. QED
    BY <2>1, <2>2, <2>3 DEF Quiet
<1>5. QED
  BY <1>2, <1>3, <1>4

(* Milestones that apply() or clear() invalidates are no longer valid.        *)
LEMMA InvalidateRefines ==
    ASSUME IInv, ApplyInvalidate \/ ClearLock
    PROVE  Pipeline!Next
<1> USE Steps DEF bsp, cancel, print, task, export, worker, control, locals, sync, data, vars
<1>1. step \in [AllSteps -> StepState]
  BY DEF IInv, TypeOK
<1>2. UNCHANGED <<AbsJob, AbsInside, AbsWanted, outdated>>
  BY DEF ApplyInvalidate, ClearLock, AbsJob, AbsInside, AbsWanted
<1>3. \E S \in SUBSET PrintSteps : AbsValid' = AbsValid \ S
  <2>1. CASE ApplyInvalidate
    <3>1. step' = [step EXCEPT ![inv] = TryInvalidate(@)]
      BY <2>1 DEF ApplyInvalidate
    <3>2. \A s \in PrintSteps : step'[s] = "Done" <=> step[s] = "Done" /\ s # inv
      BY <1>1, <3>1 DEF TryInvalidate
    <3>3. AbsValid' = AbsValid \ ({inv} \cap PrintSteps)
      BY <3>2 DEF AbsValid
    <3>4. QED
      BY <3>3
  <2>2. CASE ClearLock
    <3>1. step' = [s \in AllSteps |->
                     IF s \in OwnSteps THEN TryInvalidate(step[s]) ELSE step[s]]
      BY <2>2 DEF ClearLock
    <3>2. \A s \in PrintSteps : step'[s] = "Done" <=> step[s] = "Done" /\ s \notin OwnSteps
      BY <1>1, <3>1 DEF TryInvalidate
    <3>3. AbsValid' = AbsValid \ OwnSteps
      BY <3>2 DEF AbsValid
    <3>4. QED
      BY <3>3
  <2>3. QED
    BY <2>1, <2>2
<1>4. PICK S \in SUBSET PrintSteps : AbsValid' = AbsValid \ S
  BY <1>3
<1>5. Pipeline!Invalidate(S) /\ S \in SUBSET Pipeline!Steps
  BY <1>2, <1>4 DEF Pipeline!Invalidate, Pipeline!Steps, PrintSteps
<1>6. QED
  BY <1>5 DEF Pipeline!Next

(* New data are written under no valid milestone and no worker.               *)
LEMMA WriteRefines ==
    ASSUME IInv, WriteExcludesWorker, ApplyWrite \/ ClearObjects
    PROVE  Pipeline!Next
<1> USE Steps DEF bsp, cancel, print, task, export, worker, control, locals, sync, data, vars
<1>1. step \in [AllSteps -> StepState] /\ outdated \subseteq PrintSteps /\ wstep \in AllSteps
  BY DEF IInv, TypeOK
<1>2. CASE ApplyWrite
  <2> DEFINE S == from..LastStep
  <2>1. /\ upc = "ap_write" /\ outdated' = outdated \cup S
        /\ UNCHANGED <<state, enabled, wpc, wstep>>
        /\ step' = [s \in AllSteps |->
                      IF s \in CleanupSteps THEN QueryResetDirty(step[s]) ELSE step[s]]
    BY <1>2 DEF ApplyWrite
  <2>2. S \in SUBSET Pipeline!Steps
    BY <2>1 DEF IInv, ApplyInv, Caller, SiPcs, PrintSteps, Pipeline!Steps
  <2>3. \A s \in PrintSteps : step'[s] = "Done" <=> step[s] = "Done"
    BY <2>1 DEF QueryResetDirty, IsDirty
  <2>4. UNCHANGED <<AbsJob, AbsInside, AbsValid, AbsWanted>>
    BY <2>1, <2>3, SameDone DEF AbsJob, AbsInside, AbsWanted
  <2>5. S \cap AbsValid = {}
    <3>1. \A s \in PrintSteps : from <= s /\ s <= LastStep => ~Entered(step[s])
      BY <2>1 DEF IInv, TypeOK, ApplyInv, Caller, SiPcs, PrintSteps
    <3>2. QED
      BY <3>1 DEF AbsValid, Entered, PrintSteps
  <2>6. AbsInside \notin S
    <3>1. \A s \in S : ~Inside(s)
      BY <2>1 DEF WriteExcludesWorker
    <3>2. 0 \notin S
      BY <2>2 DEF Pipeline!Steps
    <3>3. QED
      BY <3>1, <3>2 DEF AbsInside, Inside, InsidePcs
  <2>7. Pipeline!Write(S)
    BY <2>1, <2>4, <2>5, <2>6 DEF Pipeline!Write
  <2>8. QED
    BY <2>2, <2>7 DEF Pipeline!Next
<1>3. CASE ClearObjects
  <2>1. /\ upc = "clear_objects" /\ outdated' = outdated \cup PrintSteps
        /\ UNCHANGED <<state, wpc, wstep>>
        /\ step' = [s \in AllSteps |-> IF s \in ObjectSteps THEN "Fresh" ELSE step[s]]
    BY <1>3 DEF ClearObjects
  <2>2. UNCHANGED <<AbsJob, AbsInside>>
    BY <2>1 DEF AbsJob, AbsInside
  <2>3. AbsValid' = {}
    <3>1. \A s \in OwnSteps : step[s] # "Done"
      BY <2>1 DEF IInv, ApplyInv, Caller, SiPcs, Entered
    <3>2. \A s \in PrintSteps : step'[s] # "Done"
      BY <2>1, <3>1
    <3>3. QED
      BY <3>2 DEF AbsValid
  <2>4. AbsInside \notin Pipeline!Steps
    <3>1. \A s \in PrintSteps : ~Inside(s)
      BY <2>1 DEF WriteExcludesWorker
    <3>2. QED
      BY <3>1 DEF AbsInside, Inside, InsidePcs, Pipeline!Steps, PrintSteps
  <2>5. outdated' = Pipeline!Steps /\ AbsWanted' \in SUBSET Pipeline!Steps
    BY <1>1, <2>1 DEF AbsWanted, Pipeline!Steps, PrintSteps
  <2>6. Pipeline!Replace(AbsWanted')
    BY <2>2, <2>3, <2>4, <2>5 DEF Pipeline!Replace
  <2>7. QED
    BY <2>5, <2>6 DEF Pipeline!Next
<1>4. QED
  BY <1>2, <1>3

(* All calls of the UI thread.                                                *)
LEMMA CallRefines ==
    ASSUME IInv, WriteExcludesWorker, UICall
    PROVE  Pipeline!Next \/ Unseen
<1> USE DEF bsp, cancel, print, task, export, worker, control, locals, sync, data, vars
<1>1. CASE StartIdle \/ StopWait \/ StopNotRunning \/ SiNotRunning \/ SiRelock \/ Join
  BY <1>1, JobRefines
<1>2. CASE ApplyInvalidate \/ ClearLock
  BY <1>2, InvalidateRefines
<1>3. CASE ApplyWrite \/ ClearObjects
  BY <1>3, WriteRefines
<1>4. CASE SetTaskEnable
  <2>1. UNCHANGED <<AbsJob, AbsInside, AbsValid, outdated>>
    BY <1>4 DEF SetTaskEnable, AbsJob, AbsInside, AbsValid
  <2>2. AbsWanted' \in SUBSET Pipeline!Steps
    BY DEF AbsWanted, PrintSteps, Pipeline!Steps
  <2>3. Pipeline!Retarget(AbsWanted')
    BY <2>1 DEF Pipeline!Retarget
  <2>4. QED
    BY <2>2, <2>3 DEF Pipeline!Next
<1>5. CASE ScheduleLock \/ ResetExportLock \/ InvalidateAllSteps
  <2>1. /\ step' = [step EXCEPT ![FinalizeStep] = TryInvalidate(@)]
        /\ UNCHANGED <<state, wpc, wstep, enabled, outdated>>
    BY <1>5 DEF ScheduleLock, ResetExportLock, InvalidateAllSteps, InvalidateFinalize
  <2>2. \A s \in PrintSteps : step'[s] = "Done" <=> step[s] = "Done"
    BY <2>1, Steps DEF IInv, TypeOK
  <2>3. QED
    BY <2>1, <2>2, SameDone DEF Unseen, AbsJob, AbsInside, AbsWanted
<1>6. CASE \/ RestartRefused \/ RestartAccepted \/ StartLock \/ StartThread \/ StartWait
           \/ StartAlreadyRunning \/ StartNotify \/ StopLock \/ StopRunning
           \/ CancelCallback \/ SiCheck \/ SiLock \/ SiRunning \/ SiWait
  <2>1. /\ UNCHANGED <<state, step, enabled, outdated, wstep>>
        /\ wpc' = wpc \/ (StartThread /\ wpc' = "init")
    BY <1>6
       DEF RestartRefused, RestartAccepted, StartLock, StartThread, StartWait,
           StartAlreadyRunning, StartNotify, StopLock, StopRunning, CancelCallback,
           SiCheck, SiLock, SiRunning, SiWait
  <2>2. StartThread => wpc \notin InsidePcs
    BY DEF StartThread, IInv, StateInv, RunPcs, InsidePcs
  <2>3. UNCHANGED AbsInside
    BY <2>1, <2>2 DEF AbsInside, InsidePcs
  <2>4. QED
    BY <2>1, <2>3 DEF Unseen, AbsJob, AbsValid, AbsWanted
<1>7. CASE \/ (\E k \in 0..LastStep : ApplyLock(k)) \/ ApplyInvalidated
           \/ (\E r \in {"none", "restart", "invalid"} : ApplyUnlock(r))
           \/ (\E n \in PrintSteps : SetTaskLock(n)) \/ SetTaskInvalid
           \/ ScheduleInvalid \/ ScheduleSet \/ ResetExport \/ ResetExportUnlock
           \/ InvalidatedAllSteps \/ JoinNotify \/ JoinThread
  <2>1. UNCHANGED <<state, step, enabled, outdated, wpc, wstep>>
    BY <1>7
       DEF ApplyLock, ApplyInvalidated, ApplyUnlock, SetTaskLock, SetTaskInvalid,
           ScheduleInvalid, ScheduleSet, ResetExport, ResetExportUnlock,
           InvalidatedAllSteps, JoinNotify, JoinThread
  <2>2. QED
    BY <2>1 DEF Unseen, AbsJob, AbsInside, AbsValid, AbsWanted
<1>8. QED
  BY <1>1, <1>2, <1>3, <1>4, <1>5, <1>6, <1>7 DEF UICall

-----------------------------------------------------------------------------
LEMMA StepRefines ==
    ASSUME IInv, OrderInv, WriteExcludesWorker, [Next]_vars
    PROVE  Pipeline!Next \/ Unseen
<1> USE DEF bsp, cancel, print, task, export, worker, control, locals, sync, data, vars
<1>1. CASE (\E h \in Handlers : UserAction(h)) \/ UIEvent \/ SpuriousWake \/
           Terminated \/ UNCHANGED vars
  <2>1. UNCHANGED <<state, step, enabled, outdated, wpc, wstep>>
    BY <1>1
       DEF UserAction, UIEvent, OnProcessCompleted, UITaskBegin, UITaskDropped,
           UITaskEnd, SpuriousWake, Terminated
  <2>2. QED
    BY <2>1 DEF Unseen, AbsJob, AbsInside, AbsValid, AbsWanted
<1>2. QED
  BY <1>1, CallRefines, WorkerRefines DEF Next

(* The two threads implement the abstract pipeline of milestones, for every   *)
(* number of milestones, handlers, UI task contexts and events.               *)
THEOREM SlicingImplementsPipeline == Spec => ImplementsPipeline
<1>1. Init => Pipeline!Init
  <2>1. SUFFICES ASSUME Init PROVE Pipeline!Init
    OBVIOUS
  <2>2. AbsJob = "off" /\ AbsInside = 0
    BY <2>1 DEF Init, AbsJob, AbsInside, InsidePcs
  <2>3. AbsValid = {} /\ AbsWanted = Pipeline!Steps
    BY <2>1, Steps DEF Init, AbsValid, AbsWanted, Pipeline!Steps, PrintSteps
  <2>4. QED
    BY <2>1, <2>2, <2>3 DEF Init, Pipeline!Init
<1>2. IInv /\ RunInv /\ WriteExcludesWorker /\ [Next]_vars => [Pipeline!Next]_(Pipeline!vars)
  BY StepRefines, UnseenStutters DEF RunInv
<1>3. QED
  BY Invariance, RunInvariance, ApplyExcludesWorker, <1>1, <1>2, PTL
     DEF Spec, ImplementsPipeline, Pipeline!Spec

=============================================================================
