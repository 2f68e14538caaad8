----------------------- MODULE BackgroundSlicing_proofs -----------------------
(***************************************************************************)
(* The safety properties of BackgroundSlicing for every number of          *)
(* milestones, UI task contexts and events, by the inductive invariant     *)
(* IInv of BackgroundSlicingInv.  One lemma per part of IInv shows that    *)
(* every action preserves that part.                                       *)
(***************************************************************************)
EXTENDS BackgroundSlicingInv, TLAPS

-----------------------------------------------------------------------------
(* The milestones of the pipeline. *)
LEMMA Steps ==
    /\ LastObjectStep \in Nat /\ LastStep \in Nat /\ FinalizeStep \in Nat
    /\ FinalizeStep \in AllSteps /\ FinalizeStep \notin PrintSteps
    /\ LastStep \in PrintSteps /\ 1 \in AllSteps /\ 1 <= LastStep
    /\ ObjectSteps \subseteq PrintSteps /\ PrintSteps \subseteq AllSteps
    /\ CleanupSteps \subseteq AllSteps /\ OwnSteps \subseteq PrintSteps
    /\ AllSteps = PrintSteps \cup {FinalizeStep}
    /\ PrintSteps = ObjectSteps \cup OwnSteps
BY StepsAssumption DEF ObjectSteps, PrintSteps, AllSteps, FinalizeStep, OwnSteps

(* A call that needs a stopped process finds it stopped. *)
LEMMA HeadQuiet ==
    ASSUME TypeOK, QuietInv, todo # <<>>, Head(todo) \in QuietOps, upc \notin JoinPcs
    PROVE  Quiet
BY DEF TypeOK, QuietInv

(* The handlers of the Plater call stop() before what needs it. *)
LEMMA HandlerCalls ==
    ASSUME NEW h \in Handlers
    PROVE  Handler(h) \in Seq(Ops) /\ Handler(h) # <<>> /\ QuietOrder(Handler(h))
<1> DEFINE Good(s) == s \in Seq(Ops) /\ s # <<>> /\ QuietOrder(s)
<1>1. Good(<<"apply", "set_task", "start_forced">>)
  BY DEF QuietOrder, Ops, QuietOps, StartOps
<1>2. Good(<<"apply", "set_task_until", "start_forced">>)
  BY DEF QuietOrder, Ops, QuietOps, StartOps
<1>3. Good(<<"apply", "start_restart">>)
  BY DEF QuietOrder, Ops, QuietOps, StartOps
<1>4. Good(<<"apply", "schedule_export", "set_task", "start_export">>)
  BY DEF QuietOrder, Ops, QuietOps, StartOps
<1>5. Good(<<"apply", "schedule_upload", "set_task", "start_export">>)
  BY DEF QuietOrder, Ops, QuietOps, StartOps
<1>6. Good(<<"stop">>)
  BY DEF QuietOrder, Ops, QuietOps, StartOps
<1>7. Good(<<"stop", "reset_export", "clear", "invalidate_all">>)
  BY DEF QuietOrder, Ops, QuietOps, StartOps
<1>8. Good(<<"stop", "join">>)
  BY DEF QuietOrder, Ops, QuietOps, StartOps
<1> HIDE DEF Good
<1>9. Good(Handler(h))
  BY <1>1, <1>2, <1>3, <1>4, <1>5, <1>6, <1>7, <1>8, InstanceAssumption, Zenon
     DEF Handler, AllHandlers
<1>10. QED
  BY <1>9 DEF Good

-----------------------------------------------------------------------------
(* m_state, the mutexes and the cancel status have their type. *)
LEMMA TypeSyncStep ==
    ASSUME TypeSync, [Next]_vars
    PROVE  TypeSync'
<1> USE DEF TypeSync, bsp, cancel, print, task, export, worker, control,
            locals, sync, data, vars
<1>1. CASE (\E h \in Handlers : UserAction(h)) \/ OnProcessCompleted \/
           UITaskBegin \/ UITaskDropped \/ UITaskEnd
  BY <1>1
     DEF UserAction, EventLoop, OnProcessCompleted, Completed, Cancelled,
         UITaskBegin, Goto, UITaskDropped, UITaskEnd
<1>2. CASE RestartRefused \/ RestartAccepted \/ StartLock \/ StartThread \/
           StartWait \/ StartAlreadyRunning \/ StartIdle \/ StartNotify
  BY <1>2
     DEF RestartRefused, Return, Calls, StartOps, RestartAccepted, Goto,
         StartLock, StartThread, StartWait, StartAlreadyRunning, Running,
         StartIdle, StartNotify, NotifyOne
<1>3. CASE StopLock \/ StopRunning \/ StopWait \/ StopNotRunning
  BY <1>3
     DEF StopLock, Goto, Calls, StopRunning, CancelUITask, Canceled, StopWait,
         Return, StopNotRunning
<1>4. CASE CancelCallback \/ SiCheck \/ SiLock \/ SiRunning \/ SiNotRunning \/
           SiWait \/ SiRelock
  BY <1>4
     DEF CancelCallback, Goto, StopInternalReturn, SiCheck, SiLock, SiRunning,
         CancelUITask, Canceled, SiNotRunning, SiWait, SiRelock
<1>5. CASE (\E k \in 0..LastStep : ApplyLock(k)) \/ ApplyInvalidate \/
           ApplyInvalidated \/ ApplyWrite \/
           (\E r \in {"none", "restart", "invalid"} : ApplyUnlock(r))
  BY <1>5
     DEF ApplyLock, Goto, Calls, CallStopInternal, Running, ApplyInvalidate,
         TryInvalidate, Entered, ApplyInvalidated, ApplyWrite, QueryResetDirty,
         ApplyUnlock, Return, Cancelled
<1>6. CASE (\E n \in PrintSteps : SetTaskLock(n)) \/ SetTaskInvalid \/
           SetTaskEnable
  BY <1>6
     DEF SetTaskLock, Goto, Calls, CallStopInternal, SetTaskInvalid,
         SetTaskEnable, Return
<1>7. CASE ScheduleInvalid \/ ScheduleLock \/ ScheduleSet \/ ResetExport \/
           ResetExportLock \/ ResetExportUnlock
  BY <1>7
     DEF ScheduleInvalid, Calls, ScheduleOps, ScheduleLock, Goto, StopInternal,
         InvalidateFinalize, TryInvalidate, Entered, ScheduleSet, Return,
         ResetExport, Running, ResetExportLock, ResetExportUnlock
<1>8. CASE ClearLock \/ ClearObjects \/ InvalidateAllSteps \/
           InvalidatedAllSteps \/ Join \/ JoinNotify \/ JoinThread
  BY <1>8
     DEF ClearLock, Goto, Calls, CallStopInternal, OwnSteps, TryInvalidate,
         Entered, ClearObjects, Return, InvalidateAllSteps, StopInternal,
         InvalidateFinalize, InvalidatedAllSteps, Join, JoinNotify, NotifyOne,
         JoinThread
<1>9. CASE WInit \/ WNotify \/ WWait \/ WEnterSkip \/ WEnterCanceled \/ WEnter
  BY <1>9
     DEF WInit, WGoto, WNotify, NotifyOne, WWait, WEnterSkip, NextStep,
         Skipped, StepEnabled, Canceled, WEnterCanceled, WEnter
<1>10. CASE WCompute \/ WThrow \/ (\E c \in Ctx : WPlanTask(c)) \/ WSkipTask \/
            WTaskWait \/ WDone
  BY <1>10
     DEF WCompute, WGoto, WThrow, WPlanTask, Canceled, TaskEvent, WSkipTask,
         WTaskWait, Posted, WDone, NextStep
<1>11. CASE WFinalize \/ WPost \/ WCleanup \/ WRestart \/ SpuriousWake
  BY <1>11
     DEF WFinalize, MarkCanceled, WPost, WGoto, Canceled, Completed, Cancelled,
         WCleanup, QueryResetDirty, WRestart, SpuriousWake
<1>12. CASE Terminated \/ UNCHANGED vars
  BY <1>12 DEF Terminated
<1>13. QED
  BY <1>1, <1>2, <1>3, <1>4, <1>5, <1>6, <1>7, <1>8, <1>9, <1>10, <1>11, <1>12
     DEF Next, UIEvent, UICall, Worker

(* The milestones of the print have their type. *)
LEMMA TypePrintStep ==
    ASSUME TypePrint, wstep \in AllSteps, from \in 0..LastStep,
           inv \in 0..FinalizeStep, ApplyInv, [Next]_vars
    PROVE  TypePrint'
<1> USE DEF TypePrint, bsp, cancel, print, task, export, worker, control,
            locals, sync, data, vars
<1>1. CASE (\E h \in Handlers : UserAction(h)) \/ OnProcessCompleted \/
           UITaskBegin \/ UITaskDropped \/ UITaskEnd
  BY <1>1
     DEF UserAction, EventLoop, OnProcessCompleted, Completed, Cancelled,
         UITaskBegin, Goto, UITaskDropped, UITaskEnd
<1>2. CASE RestartRefused \/ RestartAccepted \/ StartLock \/ StartThread \/
           StartWait \/ StartAlreadyRunning \/ StartIdle \/ StartNotify
  BY <1>2
     DEF RestartRefused, Return, Calls, StartOps, RestartAccepted, Goto,
         StartLock, StartThread, StartWait, StartAlreadyRunning, Running,
         StartIdle, StartNotify, NotifyOne
<1>3. CASE StopLock \/ StopRunning \/ StopWait \/ StopNotRunning
  BY <1>3
     DEF StopLock, Goto, Calls, StopRunning, CancelUITask, Canceled, StopWait,
         Return, StopNotRunning
<1>4. CASE CancelCallback \/ SiCheck \/ SiLock \/ SiRunning \/ SiNotRunning \/
           SiWait \/ SiRelock
  BY <1>4
     DEF CancelCallback, Goto, StopInternalReturn, SiCheck, SiLock, SiRunning,
         CancelUITask, Canceled, SiNotRunning, SiWait, SiRelock
<1>5. CASE ApplyInvalidate
  BY <1>5, Steps
     DEF ApplyInvalidate, Goto, CallStopInternal, TryInvalidate, Entered,
         StepState
<1>6. CASE ApplyWrite
  <2>1. outdated' \subseteq PrintSteps
    <3>1. from \in PrintSteps /\ outdated' = outdated \cup from..LastStep
      BY <1>6, Zenon DEF ApplyWrite, ApplyInv, Caller, SiPcs
    <3>2. QED
      BY <3>1, Steps DEF PrintSteps
  <2>2. step' \in [AllSteps -> StepState]
    <3>1. step' = [s \in AllSteps |-> IF s \in CleanupSteps THEN QueryResetDirty(step[s]) ELSE step[s]]
      BY <1>6, Zenon DEF ApplyWrite
    <3>2. QED
      BY <3>1 DEF QueryResetDirty, IsDirty, StepState
  <2>3. QED
    BY <1>6, <2>1, <2>2 DEF ApplyWrite
<1>7. CASE (\E k \in 0..LastStep : ApplyLock(k)) \/ ApplyInvalidated \/
           (\E r \in {"none", "restart", "invalid"} : ApplyUnlock(r))
  BY <1>7
     DEF ApplyLock, Goto, Calls, CallStopInternal, Running, ApplyInvalidated,
         ApplyUnlock, Return, Cancelled
<1>8. CASE SetTaskEnable
  <2>1. ASSUME NEW s \in PrintSteps
        PROVE  (IF s \in ObjectSteps THEN s <= inv ELSE inv = LastStep /\ enabled[s]) \in BOOLEAN
    <3>1. (s <= inv) \in BOOLEAN /\ (inv = LastStep /\ enabled[s]) \in BOOLEAN
      OBVIOUS
    <3>2. QED
      BY <3>1, Zenon
  <2>2. QED
    BY <1>8, <2>1 DEF SetTaskEnable
<1>9. CASE (\E n \in PrintSteps : SetTaskLock(n)) \/ SetTaskInvalid
  BY <1>9 DEF SetTaskLock, Goto, Calls, CallStopInternal, SetTaskInvalid
<1>10. CASE ScheduleLock
  BY <1>10
     DEF ScheduleLock, Goto, Calls, StopInternal, InvalidateFinalize,
         ScheduleOps, TryInvalidate, Entered, StepState
<1>11. CASE ResetExportLock
  BY <1>11
     DEF ResetExportLock, Goto, StopInternal, InvalidateFinalize,
         TryInvalidate, Entered, StepState
<1>12. CASE ScheduleInvalid \/ ScheduleSet \/ ResetExport \/ ResetExportUnlock
  BY <1>12
     DEF ScheduleInvalid, Calls, ScheduleOps, ScheduleSet, Return, ResetExport,
         Goto, Running, ResetExportUnlock
<1>13. CASE ClearLock
  BY <1>13
     DEF ClearLock, Goto, Calls, CallStopInternal, OwnSteps, TryInvalidate,
         Entered, StepState
<1>14. CASE ClearObjects
  BY <1>14 DEF ClearObjects, Return, StepState
<1>15. CASE InvalidateAllSteps
  BY <1>15
     DEF InvalidateAllSteps, Goto, Calls, StopInternal, InvalidateFinalize,
         TryInvalidate, Entered, StepState
<1>16. CASE InvalidatedAllSteps \/ Join \/ JoinNotify \/ JoinThread
  BY <1>16
     DEF InvalidatedAllSteps, Return, Join, Goto, Calls, JoinNotify, NotifyOne,
         JoinThread
<1>17. CASE WEnter
  BY <1>17 DEF WEnter, WGoto, Skipped, StepEnabled, Canceled, StepState
<1>18. CASE WInit \/ WNotify \/ WWait \/ WEnterSkip \/ WEnterCanceled
  BY <1>18
     DEF WInit, WGoto, WNotify, NotifyOne, WWait, WEnterSkip, NextStep,
         Skipped, StepEnabled, Canceled, WEnterCanceled
<1>19. CASE WDone
  BY <1>19 DEF WDone, WGoto, NextStep, Canceled, StepState
<1>20. CASE WCompute \/ WThrow \/ (\E c \in Ctx : WPlanTask(c)) \/ WSkipTask \/
            WTaskWait
  BY <1>20
     DEF WCompute, WGoto, WThrow, WPlanTask, Canceled, TaskEvent, WSkipTask,
         WTaskWait, Posted
<1>21. CASE WFinalize
  BY <1>21 DEF WFinalize, MarkCanceled, StepState
<1>22. CASE WCleanup
  BY <1>22 DEF WCleanup, WGoto, QueryResetDirty, StepState, IsDirty
<1>23. CASE WPost \/ WRestart \/ SpuriousWake
  BY <1>23
     DEF WPost, WGoto, Canceled, Completed, Cancelled, WRestart, SpuriousWake
<1>24. CASE Terminated \/ UNCHANGED vars
  BY <1>24 DEF Terminated
<1>25. QED
  BY <1>1, <1>2, <1>3, <1>4, <1>5, <1>6, <1>7, <1>8, <1>9, <1>10, <1>11, <1>12,
     <1>13, <1>14, <1>15, <1>16, <1>17, <1>18, <1>19, <1>20, <1>21, <1>22,
     <1>23, <1>24
     DEF Next, UIEvent, UICall, Worker

(* The UI task, the destination and the posted events have their type. *)
LEMMA TypeDataStep ==
    ASSUME TypeData, CallInv, [Next]_vars
    PROVE  TypeData'
<1> USE DEF TypeData, bsp, cancel, print, task, export, worker, control,
            locals, sync, data, vars
<1>1. CASE UITaskDropped
  <2>1. events' \in Seq(Event)
    BY <1>1 DEF UITaskDropped
  <2>2. ctx' \in [Ctx -> {"Free", "Planned", "Finished", "Canceled"}]
    BY <1>1 DEF UITaskDropped
  <2>3. QED
    BY <1>1, <2>1, <2>2 DEF UITaskDropped
<1>2. CASE UITaskEnd
  <2>1. events' \in Seq(Event)
    BY <1>2 DEF UITaskEnd, CallInv
  <2>2. ctx' \in [Ctx -> {"Free", "Planned", "Finished", "Canceled"}]
    BY <1>2 DEF UITaskEnd
  <2>3. QED
    BY <1>2, <2>1, <2>2 DEF UITaskEnd
<1>3. CASE (\E h \in Handlers : UserAction(h)) \/ OnProcessCompleted \/
           UITaskBegin
  BY <1>3
     DEF UserAction, EventLoop, OnProcessCompleted, Completed, Cancelled,
         UITaskBegin, Goto
<1>4. CASE RestartRefused \/ RestartAccepted \/ StartLock \/ StartThread \/
           StartWait \/ StartAlreadyRunning \/ StartIdle \/ StartNotify
  BY <1>4
     DEF RestartRefused, Return, Calls, StartOps, RestartAccepted, Goto,
         StartLock, StartThread, StartWait, StartAlreadyRunning, Running,
         StartIdle, StartNotify, NotifyOne
<1>5. CASE StopLock \/ StopRunning \/ StopWait \/ StopNotRunning
  BY <1>5
     DEF StopLock, Goto, Calls, StopRunning, CancelUITask, Canceled, StopWait,
         Return, StopNotRunning
<1>6. CASE CancelCallback \/ SiCheck \/ SiLock \/ SiRunning \/ SiNotRunning \/
           SiWait \/ SiRelock
  BY <1>6
     DEF CancelCallback, Goto, StopInternalReturn, SiCheck, SiLock, SiRunning,
         CancelUITask, Canceled, SiNotRunning, SiWait, SiRelock
<1>7. ASSUME NEW r \in {"none", "restart", "invalid"}, ApplyUnlock(r) PROVE TypeData'
  <2>1. Cancelled \in Event
    BY DEF Cancelled, Event
  <2>2. events' = Append(events, Cancelled) \/ events' = events
    BY <1>7, Zenon DEF ApplyUnlock
  <2>3. UNCHANGED <<uiTask, ctx, exportPath, uploadJob>>
    BY <1>7, Zenon DEF ApplyUnlock
  <2>4. QED
    BY <1>7, <2>1, <2>2, <2>3
<1>8. CASE (\E k \in 0..LastStep : ApplyLock(k)) \/ ApplyInvalidate \/
           ApplyInvalidated \/ ApplyWrite
  BY <1>8
     DEF ApplyLock, Goto, Calls, CallStopInternal, Running, ApplyInvalidate,
         TryInvalidate, Entered, ApplyInvalidated, ApplyWrite, QueryResetDirty
<1>9. CASE (\E n \in PrintSteps : SetTaskLock(n)) \/ SetTaskInvalid \/
           SetTaskEnable
  BY <1>9
     DEF SetTaskLock, Goto, Calls, CallStopInternal, SetTaskInvalid,
         SetTaskEnable, Return
<1>10. CASE ScheduleInvalid \/ ScheduleLock \/ ScheduleSet \/ ResetExport \/
            ResetExportLock \/ ResetExportUnlock
  BY <1>10
     DEF ScheduleInvalid, Calls, ScheduleOps, ScheduleLock, Goto, StopInternal,
         InvalidateFinalize, TryInvalidate, Entered, ScheduleSet, Return,
         ResetExport, Running, ResetExportLock, ResetExportUnlock
<1>11. CASE ClearLock \/ ClearObjects \/ InvalidateAllSteps \/
            InvalidatedAllSteps \/ Join \/ JoinNotify \/ JoinThread
  BY <1>11
     DEF ClearLock, Goto, Calls, CallStopInternal, OwnSteps, TryInvalidate,
         Entered, ClearObjects, Return, InvalidateAllSteps, StopInternal,
         InvalidateFinalize, InvalidatedAllSteps, Join, JoinNotify, NotifyOne,
         JoinThread
<1>12. CASE WInit \/ WNotify \/ WWait \/ WEnterSkip \/ WEnterCanceled \/ WEnter
  BY <1>12
     DEF WInit, WGoto, WNotify, NotifyOne, WWait, WEnterSkip, NextStep,
         Skipped, StepEnabled, Canceled, WEnterCanceled, WEnter
<1>13. ASSUME NEW c \in Ctx, WPlanTask(c) PROVE TypeData'
  BY <1>13 DEF WPlanTask, WGoto, Canceled, TaskEvent, Event
<1>14. CASE WCompute \/ WThrow \/ WSkipTask \/ WTaskWait \/ WDone
  BY <1>14
     DEF WCompute, WGoto, WThrow, WSkipTask, Canceled, WTaskWait, TaskEvent,
         Posted, WDone, NextStep
<1>15. CASE WPost
  <2>1. Cancelled \in Event /\ Completed \in Event
    BY DEF Cancelled, Completed, Event
  <2>2. \/ events' = Append(events, Cancelled)
        \/ events' = Append(events, Completed)
        \/ events' = events
    BY <1>15 DEF WPost
  <2>3. QED
    BY <1>15, <2>1, <2>2 DEF WPost
<1>16. CASE WFinalize \/ WCleanup \/ WRestart \/ SpuriousWake
  BY <1>16
     DEF WFinalize, MarkCanceled, WCleanup, WGoto, QueryResetDirty, WRestart,
         SpuriousWake
<1>17. CASE Terminated \/ UNCHANGED vars
  BY <1>17 DEF Terminated
<1>18. QED
  BY <1>1, <1>2, <1>3, <1>4, <1>5, <1>6, <1>7, <1>8, <1>9, <1>10, <1>11, <1>12,
     <1>13, <1>14, <1>15, <1>16, <1>17
     DEF Next, UIEvent, UICall, Worker

(* The program counter of the worker has its type. *)
LEMMA TypeWorkerStep ==
    ASSUME TypeWorker, [Next]_vars
    PROVE  TypeWorker'
<1> USE DEF TypeWorker, bsp, cancel, print, task, export, worker, control,
            locals, sync, data, vars
<1>1. CASE (\E h \in Handlers : UserAction(h)) \/ OnProcessCompleted \/
           UITaskBegin \/ UITaskDropped \/ UITaskEnd
  BY <1>1, Steps
     DEF UserAction, EventLoop, OnProcessCompleted, Completed, Cancelled,
         UITaskBegin, Goto, UITaskDropped, UITaskEnd
<1>2. CASE StartThread
  BY <1>2, Steps DEF StartThread, Goto, WorkerPcs, AllSteps
<1>3. CASE RestartRefused \/ RestartAccepted \/ StartLock \/ StartWait \/
           StartAlreadyRunning \/ StartIdle \/ StartNotify
  BY <1>3, Steps
     DEF RestartRefused, Return, Calls, StartOps, RestartAccepted, Goto,
         StartLock, StartWait, StartAlreadyRunning, Running, StartIdle,
         StartNotify, NotifyOne
<1>4. CASE StopLock \/ StopRunning \/ StopWait \/ StopNotRunning
  BY <1>4, Steps
     DEF StopLock, Goto, Calls, StopRunning, CancelUITask, Canceled, StopWait,
         Return, StopNotRunning
<1>5. CASE CancelCallback \/ SiCheck \/ SiLock \/ SiRunning \/ SiNotRunning \/
           SiWait \/ SiRelock
  BY <1>5, Steps
     DEF CancelCallback, Goto, StopInternalReturn, SiCheck, SiLock, SiRunning,
         CancelUITask, Canceled, SiNotRunning, SiWait, SiRelock
<1>6. CASE (\E k \in 0..LastStep : ApplyLock(k)) \/ ApplyInvalidate \/
           ApplyInvalidated \/ ApplyWrite \/
           (\E r \in {"none", "restart", "invalid"} : ApplyUnlock(r))
  BY <1>6, Steps
     DEF ApplyLock, Goto, Calls, CallStopInternal, Running, ApplyInvalidate,
         TryInvalidate, Entered, ApplyInvalidated, ApplyWrite, QueryResetDirty,
         ApplyUnlock, Return, Cancelled
<1>7. CASE (\E n \in PrintSteps : SetTaskLock(n)) \/ SetTaskInvalid \/
           SetTaskEnable
  BY <1>7, Steps
     DEF SetTaskLock, Goto, Calls, CallStopInternal, SetTaskInvalid,
         SetTaskEnable, Return
<1>8. CASE ScheduleInvalid \/ ScheduleLock \/ ScheduleSet \/ ResetExport \/
           ResetExportLock \/ ResetExportUnlock
  BY <1>8, Steps
     DEF ScheduleInvalid, Calls, ScheduleOps, ScheduleLock, Goto, StopInternal,
         InvalidateFinalize, TryInvalidate, Entered, ScheduleSet, Return,
         ResetExport, Running, ResetExportLock, ResetExportUnlock
<1>9. CASE ClearLock \/ ClearObjects \/ InvalidateAllSteps \/
           InvalidatedAllSteps \/ Join \/ JoinNotify \/ JoinThread
  BY <1>9, Steps
     DEF ClearLock, Goto, Calls, CallStopInternal, OwnSteps, TryInvalidate,
         Entered, ClearObjects, Return, InvalidateAllSteps, StopInternal,
         InvalidateFinalize, InvalidatedAllSteps, Join, JoinNotify, NotifyOne,
         JoinThread
<1>10. CASE WInit
  BY <1>10, Steps DEF WInit, WGoto, WorkerPcs, AllSteps
<1>11. CASE WNotify
  BY <1>11, Steps DEF WNotify, NotifyOne, WGoto, WorkerPcs, AllSteps
<1>12. CASE WWait
  BY <1>12, Steps DEF WWait, WGoto, WorkerPcs, AllSteps
<1>13. CASE WEnterSkip
  BY <1>13, Steps
     DEF WEnterSkip, WGoto, NextStep, Skipped, StepEnabled, Canceled,
         WorkerPcs, AllSteps
<1>14. CASE WEnterCanceled
  BY <1>14, Steps
     DEF WEnterCanceled, WGoto, Skipped, StepEnabled, Canceled, WorkerPcs,
         AllSteps
<1>15. CASE WEnter
  BY <1>15, Steps
     DEF WEnter, WGoto, Skipped, StepEnabled, Canceled, WorkerPcs, AllSteps
<1>16. CASE WCompute
  BY <1>16, Steps DEF WCompute, WGoto, WorkerPcs, AllSteps
<1>17. CASE WThrow
  BY <1>17, Steps DEF WThrow, WGoto, WorkerPcs, AllSteps
<1>18. ASSUME NEW c \in Ctx, WPlanTask(c) PROVE TypeWorker'
  BY <1>18, Steps
     DEF WPlanTask, WGoto, Canceled, TaskEvent, WorkerPcs, AllSteps
<1>19. CASE WSkipTask
  BY <1>19, Steps DEF WSkipTask, WGoto, Canceled, WorkerPcs, AllSteps
<1>20. CASE WTaskWait
  BY <1>20, Steps
     DEF WTaskWait, WGoto, Canceled, TaskEvent, Posted, WorkerPcs, AllSteps
<1>21. CASE WDone
  BY <1>21, Steps DEF WDone, WGoto, NextStep, Canceled, WorkerPcs, AllSteps
<1>22. CASE WFinalize
  BY <1>22, Steps DEF WFinalize, MarkCanceled, WorkerPcs, AllSteps
<1>23. CASE WPost
  BY <1>23, Steps
     DEF WPost, WGoto, Canceled, Completed, Cancelled, WorkerPcs, AllSteps
<1>24. CASE WCleanup
  BY <1>24, Steps DEF WCleanup, WGoto, QueryResetDirty, WorkerPcs, AllSteps
<1>25. CASE WRestart
  BY <1>25, Steps DEF WRestart, WGoto, WorkerPcs, AllSteps
<1>26. CASE SpuriousWake
  BY <1>26, Steps DEF SpuriousWake
<1>27. CASE Terminated \/ UNCHANGED vars
  BY <1>27, Steps DEF Terminated
<1>28. QED
  BY <1>1, <1>2, <1>3, <1>4, <1>5, <1>6, <1>7, <1>8, <1>9, <1>10, <1>11, <1>12,
     <1>13, <1>14, <1>15, <1>16, <1>17, <1>18, <1>19, <1>20, <1>21, <1>22,
     <1>23, <1>24, <1>25, <1>26, <1>27
     DEF Next, UIEvent, UICall, Worker

(* The program counter and the locals of the UI thread have their type. *)
LEMMA TypeUIStep ==
    ASSUME TypeUI, CallInv, [Next]_vars
    PROVE  TypeUI'
<1> USE DEF TypeUI, CallInv, bsp, cancel, print, task, export, worker, control,
            locals, sync, data, vars
<1>1. ASSUME NEW h \in Handlers, UserAction(h) PROVE TypeUI'
  BY <1>1, HandlerCalls DEF UserAction, EventLoop
<1>2. CASE OnProcessCompleted
  BY <1>2 DEF OnProcessCompleted, EventLoop, Completed, Cancelled, Ops
<1>3. CASE UITaskBegin
  BY <1>3 DEF UITaskBegin, Goto, EventLoop, UIPcs, Returns, StartPcs, StopPcs
<1>4. CASE UITaskEnd
  BY <1>4 DEF UITaskEnd, Goto, UIPcs, Returns, StartPcs, StopPcs
<1>5. CASE UITaskDropped
  BY <1>5 DEF UITaskDropped, EventLoop
<1>6. CASE RestartRefused
  BY <1>6
     DEF RestartRefused, Return, Calls, StartOps, UIPcs, Returns, StartPcs,
         StopPcs
<1>7. CASE RestartAccepted
  BY <1>7 DEF RestartAccepted, Goto, Calls, UIPcs, Returns, StartPcs, StopPcs
<1>8. CASE StartLock
  BY <1>8 DEF StartLock, Goto, UIPcs, Returns, StartPcs, StopPcs
<1>9. CASE StartThread
  BY <1>9 DEF StartThread, Goto, UIPcs, Returns, StartPcs, StopPcs
<1>10. CASE StartWait
  BY <1>10 DEF StartWait, Goto, UIPcs, Returns, StartPcs, StopPcs
<1>11. CASE StartAlreadyRunning
  BY <1>11
     DEF StartAlreadyRunning, Return, Running, UIPcs, Returns, StartPcs,
         StopPcs
<1>12. CASE StartIdle
  BY <1>12 DEF StartIdle, Goto, UIPcs, Returns, StartPcs, StopPcs
<1>13. CASE StartNotify
  BY <1>13
     DEF StartNotify, Return, NotifyOne, UIPcs, Returns, StartPcs, StopPcs
<1>14. CASE StopLock
  BY <1>14 DEF StopLock, Goto, Calls, UIPcs, Returns, StartPcs, StopPcs
<1>15. CASE StopRunning
  BY <1>15
     DEF StopRunning, Goto, CancelUITask, Canceled, UIPcs, Returns, StartPcs,
         StopPcs
<1>16. CASE StopWait
  BY <1>16 DEF StopWait, Return, UIPcs, Returns, StartPcs, StopPcs
<1>17. CASE StopNotRunning
  BY <1>17 DEF StopNotRunning, Return, UIPcs, Returns, StartPcs, StopPcs
<1>18. CASE CancelCallback
  BY <1>18
     DEF CancelCallback, Goto, StopInternalReturn, UIPcs, Returns, StartPcs,
         StopPcs
<1>19. CASE SiCheck
  BY <1>19
     DEF SiCheck, Goto, StopInternalReturn, UIPcs, Returns, StartPcs, StopPcs
<1>20. CASE SiLock
  BY <1>20 DEF SiLock, Goto, UIPcs, Returns, StartPcs, StopPcs
<1>21. CASE SiRunning
  BY <1>21
     DEF SiRunning, Goto, CancelUITask, Canceled, UIPcs, Returns, StartPcs,
         StopPcs
<1>22. CASE SiNotRunning
  BY <1>22
     DEF SiNotRunning, Goto, StopInternalReturn, UIPcs, Returns, StartPcs,
         StopPcs
<1>23. CASE SiWait
  BY <1>23 DEF SiWait, Goto, UIPcs, Returns, StartPcs, StopPcs
<1>24. CASE SiRelock
  BY <1>24
     DEF SiRelock, Goto, StopInternalReturn, UIPcs, Returns, StartPcs, StopPcs
<1>25. ASSUME NEW k \in 0..LastStep, ApplyLock(k) PROVE TypeUI'
  BY <1>25, Steps
     DEF ApplyLock, Goto, Calls, CallStopInternal, Running, UIPcs, Returns,
         PrintSteps, FinalizeStep
<1>26. CASE ApplyInvalidate
  BY <1>26, Steps
     DEF ApplyInvalidate, Goto, CallStopInternal, TryInvalidate, Entered,
         UIPcs, Returns, PrintSteps, FinalizeStep
<1>27. CASE ApplyInvalidated
  BY <1>27 DEF ApplyInvalidated, Goto, UIPcs, Returns, StartPcs, StopPcs
<1>28. CASE ApplyWrite
  BY <1>28
     DEF ApplyWrite, Goto, QueryResetDirty, UIPcs, Returns, StartPcs, StopPcs
<1>29. ASSUME NEW r \in {"none", "restart", "invalid"}, ApplyUnlock(r) PROVE TypeUI'
  <2>1. from' \in 0..LastStep /\ inv' \in 0..FinalizeStep
    BY <1>29, Steps DEF ApplyUnlock
  <2>2. todo' \in Seq(Ops) /\ upc' \in UIPcs /\ upd' \in {"none", "restart", "invalid"}
    BY <1>29 DEF ApplyUnlock, Return, UIPcs
  <2>3. uret' = uret /\ wasRunning' = FALSE
    BY <1>29, Zenon DEF ApplyUnlock
  <2>4. QED
    BY <2>1, <2>2, <2>3
<1>30. ASSUME NEW n \in PrintSteps, SetTaskLock(n) PROVE TypeUI'
  BY <1>30, Steps
     DEF SetTaskLock, Goto, Calls, CallStopInternal, UIPcs, Returns,
         PrintSteps, FinalizeStep
<1>31. CASE SetTaskInvalid
  BY <1>31 DEF SetTaskInvalid, Calls, UIPcs, Returns, StartPcs, StopPcs
<1>32. CASE SetTaskEnable
  BY <1>32, Steps
     DEF SetTaskEnable, Return, UIPcs, Returns, PrintSteps, FinalizeStep
<1>33. CASE ScheduleInvalid
  BY <1>33
     DEF ScheduleInvalid, Calls, ScheduleOps, UIPcs, Returns, StartPcs, StopPcs
<1>34. CASE ScheduleLock
  BY <1>34
     DEF ScheduleLock, Goto, Calls, StopInternal, InvalidateFinalize,
         ScheduleOps, TryInvalidate, Entered, UIPcs, Returns, StartPcs, StopPcs
<1>35. CASE ScheduleSet
  BY <1>35 DEF ScheduleSet, Return, UIPcs, Returns, StartPcs, StopPcs
<1>36. CASE ResetExport
  BY <1>36
     DEF ResetExport, Goto, Return, Calls, Running, UIPcs, Returns, StartPcs,
         StopPcs
<1>37. CASE ResetExportLock
  BY <1>37
     DEF ResetExportLock, Goto, StopInternal, InvalidateFinalize,
         TryInvalidate, Entered, UIPcs, Returns, StartPcs, StopPcs
<1>38. CASE ResetExportUnlock
  BY <1>38 DEF ResetExportUnlock, Return, UIPcs, Returns, StartPcs, StopPcs
<1>39. CASE ClearLock
  BY <1>39
     DEF ClearLock, Goto, Calls, CallStopInternal, OwnSteps, TryInvalidate,
         Entered, UIPcs, Returns, StartPcs, StopPcs
<1>40. CASE ClearObjects
  BY <1>40 DEF ClearObjects, Return, UIPcs, Returns, StartPcs, StopPcs
<1>41. CASE InvalidateAllSteps
  BY <1>41
     DEF InvalidateAllSteps, Goto, Calls, StopInternal, InvalidateFinalize,
         TryInvalidate, Entered, UIPcs, Returns, StartPcs, StopPcs
<1>42. CASE InvalidatedAllSteps
  BY <1>42 DEF InvalidatedAllSteps, Return, UIPcs, Returns, StartPcs, StopPcs
<1>43. CASE Join
  BY <1>43 DEF Join, Goto, Calls, UIPcs, Returns, StartPcs, StopPcs
<1>44. CASE JoinNotify
  BY <1>44 DEF JoinNotify, Goto, NotifyOne, UIPcs, Returns, StartPcs, StopPcs
<1>45. CASE JoinThread
  BY <1>45 DEF JoinThread, Goto, UIPcs, Returns, StartPcs, StopPcs
<1>46. CASE WInit \/ WNotify \/ WWait \/ WEnterSkip \/ WEnterCanceled \/ WEnter
  BY <1>46
     DEF WInit, WGoto, WNotify, NotifyOne, WWait, WEnterSkip, NextStep,
         Skipped, StepEnabled, Canceled, WEnterCanceled, WEnter
<1>47. CASE WCompute \/ WThrow \/ (\E c \in Ctx : WPlanTask(c)) \/ WSkipTask \/
            WTaskWait \/ WDone
  BY <1>47
     DEF WCompute, WGoto, WThrow, WPlanTask, Canceled, TaskEvent, WSkipTask,
         WTaskWait, Posted, WDone, NextStep
<1>48. CASE WFinalize \/ WPost \/ WCleanup \/ WRestart \/ SpuriousWake
  BY <1>48
     DEF WFinalize, MarkCanceled, WPost, WGoto, Canceled, Completed, Cancelled,
         WCleanup, QueryResetDirty, WRestart, SpuriousWake
<1>49. CASE Terminated \/ UNCHANGED vars
  BY <1>49 DEF Terminated
<1>50. QED
  BY <1>1, <1>2, <1>3, <1>4, <1>5, <1>6, <1>7, <1>8, <1>9, <1>10, <1>11, <1>12,
     <1>13, <1>14, <1>15, <1>16, <1>17, <1>18, <1>19, <1>20, <1>21, <1>22,
     <1>23, <1>24, <1>25, <1>26, <1>27, <1>28, <1>29, <1>30, <1>31, <1>32,
     <1>33, <1>34, <1>35, <1>36, <1>37, <1>38, <1>39, <1>40, <1>41, <1>42,
     <1>43, <1>44, <1>45, <1>46, <1>47, <1>48, <1>49
     DEF Next, UIEvent, UICall, Worker

(* Every action leaves the UI thread inside the call its labels belong to:   *)
(* a call is left through Return only, which takes it off the list.          *)
LEMMA CallStep ==
    ASSUME TypeOK, CallInv, [Next]_vars
    PROVE  CallInv'
<1> USE DEF CallInv, Caller, SiPcs, StartPcs, StopPcs, JoinPcs, bsp, cancel,
            print, task, export, worker, control, locals, sync, data, vars
<1>1. ASSUME NEW h \in Handlers, UserAction(h) PROVE CallInv'
  BY <1>1, HandlerCalls DEF UserAction, EventLoop
<1>2. CASE OnProcessCompleted \/ UITaskBegin \/ UITaskDropped \/ UITaskEnd
  BY <1>2
     DEF OnProcessCompleted, EventLoop, Completed, Cancelled, UITaskBegin,
         Goto, UITaskDropped, UITaskEnd
<1>3. CASE RestartAccepted
  BY <1>3 DEF RestartAccepted, Goto, Calls, StartOps
<1>4. CASE RestartRefused \/ StartLock \/ StartThread \/ StartWait \/
           StartAlreadyRunning \/ StartIdle \/ StartNotify
  BY <1>4
     DEF RestartRefused, Return, Calls, StartOps, StartLock, Goto, StartThread,
         StartWait, StartAlreadyRunning, Running, StartIdle, StartNotify,
         NotifyOne
<1>5. CASE StopLock \/ StopRunning \/ StopWait \/ StopNotRunning
  BY <1>5
     DEF StopLock, Goto, Calls, StopRunning, CancelUITask, Canceled, StopWait,
         Return, StopNotRunning
<1>6. CASE CancelCallback
  BY <1>6 DEF CancelCallback, Goto, StopInternalReturn, TypeOK, Returns
<1>7. CASE SiCheck
  BY <1>7 DEF SiCheck, Goto, StopInternalReturn, TypeOK, Returns
<1>8. CASE SiNotRunning
  BY <1>8 DEF SiNotRunning, Goto, StopInternalReturn, TypeOK, Returns
<1>9. CASE SiRelock
  BY <1>9 DEF SiRelock, Goto, StopInternalReturn, TypeOK, Returns
<1>10. CASE SiLock \/ SiRunning \/ SiWait
  BY <1>10 DEF SiLock, Goto, SiRunning, CancelUITask, Canceled, SiWait
<1>11. CASE (\E k \in 0..LastStep : ApplyLock(k)) \/ ApplyInvalidate \/
            ApplyInvalidated \/ ApplyWrite \/
            (\E r \in {"none", "restart", "invalid"} : ApplyUnlock(r))
  BY <1>11
     DEF ApplyLock, Goto, Calls, CallStopInternal, Running, ApplyInvalidate,
         TryInvalidate, Entered, ApplyInvalidated, ApplyWrite, QueryResetDirty,
         ApplyUnlock, Return, Cancelled
<1>12. CASE (\E n \in PrintSteps : SetTaskLock(n)) \/ SetTaskInvalid \/
            SetTaskEnable
  BY <1>12
     DEF SetTaskLock, Goto, Calls, CallStopInternal, SetTaskInvalid,
         SetTaskEnable, Return
<1>13. CASE ScheduleInvalid \/ ScheduleLock \/ ScheduleSet \/ ResetExport \/
            ResetExportLock \/ ResetExportUnlock
  BY <1>13
     DEF ScheduleInvalid, Calls, ScheduleOps, ScheduleLock, Goto, StopInternal,
         InvalidateFinalize, TryInvalidate, Entered, ScheduleSet, Return,
         ResetExport, Running, ResetExportLock, ResetExportUnlock
<1>14. CASE ClearLock \/ ClearObjects \/ InvalidateAllSteps \/
            InvalidatedAllSteps \/ Join \/ JoinNotify \/ JoinThread
  BY <1>14
     DEF ClearLock, Goto, Calls, CallStopInternal, OwnSteps, TryInvalidate,
         Entered, ClearObjects, Return, InvalidateAllSteps, StopInternal,
         InvalidateFinalize, InvalidatedAllSteps, Join, JoinNotify, NotifyOne,
         JoinThread
<1>15. CASE WInit \/ WNotify \/ WWait \/ WEnterSkip \/ WEnterCanceled \/ WEnter
  BY <1>15
     DEF WInit, WGoto, WNotify, NotifyOne, WWait, WEnterSkip, NextStep,
         Skipped, StepEnabled, Canceled, WEnterCanceled, WEnter
<1>16. ASSUME NEW c \in Ctx, WPlanTask(c) PROVE CallInv'
  BY <1>16 DEF WPlanTask, WGoto, Canceled, TaskEvent, TypeOK
<1>17. CASE WTaskWait
  BY <1>17 DEF WTaskWait, WGoto, Canceled, TaskEvent, Posted
<1>18. CASE WDone
  BY <1>18 DEF WDone, WGoto, NextStep, Canceled
<1>19. CASE WCompute \/ WThrow \/ WSkipTask
  BY <1>19 DEF WCompute, WGoto, WThrow, WSkipTask, Canceled
<1>20. CASE WFinalize \/ WPost \/ WCleanup \/ WRestart \/ SpuriousWake
  BY <1>20
     DEF WFinalize, MarkCanceled, WPost, WGoto, Canceled, Completed, Cancelled,
         WCleanup, QueryResetDirty, WRestart, SpuriousWake
<1>21. CASE Terminated \/ UNCHANGED vars
  BY <1>21 DEF Terminated
<1>22. QED
  BY <1>1, <1>2, <1>3, <1>4, <1>5, <1>6, <1>7, <1>8, <1>9, <1>10, <1>11, <1>12,
     <1>13, <1>14, <1>15, <1>16, <1>17, <1>18, <1>19, <1>20, <1>21
     DEF Next, UIEvent, UICall, Worker

(* Three ways in which an action keeps QuietInv: the handler goes on with the *)
(* same calls, it goes on to the next call, or it starts the process.         *)
LEMMA QuietKept ==
    ASSUME QuietInv, todo' = todo,
           Quiet \/ upc \in JoinPcs => Quiet' \/ upc' \in JoinPcs
    PROVE  QuietInv'
BY DEF QuietInv, JoinPcs

LEMMA QuietNext ==
    ASSUME TypeOK, QuietInv, todo # <<>>, todo' = Tail(todo), upc \notin JoinPcs,
           Quiet => Quiet', Head(todo) = "stop" => Quiet'
    PROVE  QuietInv'
<1>1. Len(todo') \in Nat /\ Len(todo) = Len(todo') + 1
  BY DEF TypeOK
<1>2. ASSUME NEW i \in 1..Len(todo') PROVE todo'[i] = todo[i + 1]
  BY DEF TypeOK
<1>3. ASSUME NEW i \in 1..Len(todo'), todo'[i] \in QuietOps
      PROVE  Quiet' \/ \E j \in 1..Len(todo') : j < i /\ todo'[j] = "stop"
  <2>1. i + 1 \in 1..Len(todo) /\ todo[i + 1] \in QuietOps
    BY <1>1, <1>2, <1>3
  <2>2. Quiet \/ \E j \in 1..Len(todo) : j < i + 1 /\ todo[j] = "stop"
    BY <2>1 DEF QuietInv
  <2>3. CASE Quiet
    BY <2>3
  <2>4. ASSUME NEW j \in 1..Len(todo), j < i + 1, todo[j] = "stop"
        PROVE  Quiet' \/ \E k \in 1..Len(todo') : k < i /\ todo'[k] = "stop"
    <3>1. CASE j = 1
      BY <2>4, <3>1 DEF TypeOK
    <3>2. CASE j > 1
      <4>1. j - 1 \in 1..Len(todo') /\ j - 1 < i /\ todo'[j - 1] = todo[j]
        BY <2>4, <3>2, <1>1, <1>2
      <4>2. QED
        BY <4>1, <2>4
    <3>3. QED
      BY <3>1, <3>2
  <2>5. QED
    BY <2>2, <2>3, <2>4
<1>4. ASSUME NEW i \in 1..Len(todo'), NEW j \in 1..Len(todo'), todo'[i] \in StartOps
      PROVE  todo'[j] \notin QuietOps
  <2>1. i + 1 \in 1..Len(todo) /\ j + 1 \in 1..Len(todo)
    BY <1>1
  <2>2. QED
    BY <2>1, <1>2, <1>4 DEF QuietInv
<1>5. QED
  BY <1>3, <1>4 DEF QuietInv

LEMMA QuietStart ==
    ASSUME TypeOK, QuietInv, todo # <<>>, Head(todo) \in StartOps, todo' = todo
    PROVE  QuietInv'
BY DEF TypeOK, QuietInv

(* The calls that need a stopped process stay behind the stop() before them,  *)
(* and the process stays stopped: only start() and the join leave that state, *)
(* and no such call is left when they run.                                    *)
LEMMA QuietStep ==
    ASSUME TypeOK, CallInv, QuietInv, StateInv, CancelInv, [Next]_vars
    PROVE  QuietInv'
<1> USE DEF Quiet, CallInv, JoinPcs, bsp, cancel, print, task, export, worker,
            control, locals, sync, data, vars
<1>1. ASSUME NEW h \in Handlers, UserAction(h) PROVE QuietInv'
  BY <1>1, HandlerCalls DEF UserAction, EventLoop, QuietInv, QuietOrder
<1>2. CASE OnProcessCompleted
  BY <1>2
     DEF OnProcessCompleted, EventLoop, Completed, Cancelled, QuietInv,
         QuietOps, StartOps
<1>3. CASE UITaskBegin
  BY <1>3, QuietKept DEF UITaskBegin, Goto, EventLoop
<1>4. CASE UITaskDropped \/ UITaskEnd
  BY <1>4, QuietKept DEF UITaskDropped, EventLoop, UITaskEnd, Goto
<1>5. CASE RestartRefused
  BY <1>5, QuietNext DEF RestartRefused, Return, Calls, StartOps
<1>6. CASE StartWait
  BY <1>6, QuietKept DEF StartWait, Goto
<1>7. CASE StartAlreadyRunning
  BY <1>7, QuietNext
     DEF StartAlreadyRunning, Return, Running, StartPcs, StartOps
<1>8. CASE StartIdle
  BY <1>8, QuietStart DEF StartIdle, Goto, StartPcs
<1>9. CASE StartNotify
  BY <1>9, QuietNext DEF StartNotify, Return, NotifyOne, StartPcs, StartOps
<1>10. CASE RestartAccepted \/ StartLock \/ StartThread
  BY <1>10, QuietKept DEF RestartAccepted, Goto, Calls, StartLock, StartThread
<1>11. CASE StopWait
  BY <1>11, QuietNext, QuietKept DEF StopWait, Return
<1>12. CASE StopNotRunning
  BY <1>12, QuietNext DEF StopNotRunning, Return, StateInv, TypeOK
<1>13. CASE StopLock \/ StopRunning
  BY <1>13, QuietKept
     DEF StopLock, Goto, Calls, StopRunning, CancelUITask, Canceled
<1>14. CASE CancelCallback
  BY <1>14, QuietKept
     DEF CancelCallback, Goto, StopInternalReturn, TypeOK, Returns, SiPcs
<1>15. CASE SiCheck
  BY <1>15, QuietKept
     DEF SiCheck, Goto, StopInternalReturn, TypeOK, Returns, SiPcs
<1>16. CASE SiNotRunning
  BY <1>16, QuietKept
     DEF SiNotRunning, Goto, StopInternalReturn, TypeOK, Returns, SiPcs
<1>17. CASE SiRelock
  BY <1>17, QuietKept
     DEF SiRelock, Goto, StopInternalReturn, CancelInv, TypeOK, Returns, SiPcs
<1>18. CASE SiLock \/ SiRunning \/ SiWait
  BY <1>18, QuietKept
     DEF SiLock, Goto, SiRunning, CancelUITask, Canceled, SiWait
<1>19. ASSUME NEW r \in {"none", "restart", "invalid"}, ApplyUnlock(r) PROVE QuietInv'
  BY <1>19, QuietNext
     DEF ApplyUnlock, Return, Running, Cancelled, Caller, SiPcs
<1>20. CASE (\E k \in 0..LastStep : ApplyLock(k)) \/ ApplyInvalidate \/
            ApplyInvalidated \/ ApplyWrite
  BY <1>20, QuietKept
     DEF ApplyLock, Goto, Calls, CallStopInternal, Running, ApplyInvalidate,
         TryInvalidate, Entered, ApplyInvalidated, ApplyWrite, QueryResetDirty
<1>21. CASE SetTaskInvalid
  BY <1>21 DEF SetTaskInvalid, Calls, QuietInv
<1>22. CASE SetTaskEnable
  BY <1>22, QuietNext DEF SetTaskEnable, Return, Caller, SiPcs
<1>23. ASSUME NEW n \in PrintSteps, SetTaskLock(n) PROVE QuietInv'
  BY <1>23, QuietKept DEF SetTaskLock, Goto, Calls, CallStopInternal
<1>24. CASE ScheduleInvalid
  BY <1>24 DEF ScheduleInvalid, Calls, ScheduleOps, QuietInv
<1>25. CASE ScheduleSet
  BY <1>25, QuietNext DEF ScheduleSet, Return, Caller, SiPcs, ScheduleOps
<1>26. CASE ResetExport
  BY <1>26, QuietNext, QuietKept DEF ResetExport, Goto, Return, Calls, Running
<1>27. CASE ResetExportUnlock
  BY <1>27, QuietNext DEF ResetExportUnlock, Return, Caller, SiPcs
<1>28. CASE ScheduleLock \/ ResetExportLock
  BY <1>28, QuietKept
     DEF ScheduleLock, Goto, Calls, StopInternal, InvalidateFinalize,
         ScheduleOps, TryInvalidate, Entered, ResetExportLock
<1>29. CASE ClearObjects
  BY <1>29, QuietNext DEF ClearObjects, Return, Caller, SiPcs
<1>30. CASE InvalidatedAllSteps
  BY <1>30, QuietNext DEF InvalidatedAllSteps, Return, Caller, SiPcs
<1>31. CASE ClearLock \/ InvalidateAllSteps \/ Join \/ JoinNotify \/ JoinThread
  BY <1>31, QuietKept
     DEF ClearLock, Goto, Calls, CallStopInternal, OwnSteps, TryInvalidate,
         Entered, InvalidateAllSteps, StopInternal, InvalidateFinalize, Join,
         JoinNotify, NotifyOne, JoinThread
<1>32. CASE WInit \/ WNotify \/ WWait \/ WEnterSkip \/ WEnterCanceled \/ WEnter
  BY <1>32, QuietKept
     DEF WInit, WGoto, WNotify, NotifyOne, WWait, WEnterSkip, NextStep,
         Skipped, StepEnabled, Canceled, WEnterCanceled, WEnter
<1>33. CASE WCompute \/ WThrow \/ (\E c \in Ctx : WPlanTask(c)) \/ WSkipTask \/
            WTaskWait \/ WDone
  BY <1>33, QuietKept
     DEF WCompute, WGoto, WThrow, WPlanTask, Canceled, TaskEvent, WSkipTask,
         WTaskWait, Posted, WDone, NextStep
<1>34. CASE WPost
  BY <1>34, QuietKept
     DEF WPost, WGoto, Canceled, Completed, Cancelled, StateInv, RunPcs
<1>35. CASE WFinalize \/ WCleanup \/ WRestart \/ SpuriousWake
  BY <1>35, QuietKept
     DEF WFinalize, MarkCanceled, WCleanup, WGoto, QueryResetDirty, WRestart,
         SpuriousWake
<1>36. CASE Terminated \/ UNCHANGED vars
  BY <1>36, QuietKept DEF Terminated
<1>37. QED
  BY <1>1, <1>2, <1>3, <1>4, <1>5, <1>6, <1>7, <1>8, <1>9, <1>10, <1>11, <1>12,
     <1>13, <1>14, <1>15, <1>16, <1>17, <1>18, <1>19, <1>20, <1>21, <1>22,
     <1>23, <1>24, <1>25, <1>26, <1>27, <1>28, <1>29, <1>30, <1>31, <1>32,
     <1>33, <1>34, <1>35, <1>36
     DEF Next, UIEvent, UICall, Worker

(* m_state follows the worker.  The UI thread changes it under m_mutex only,   *)
(* so never between the worker's "m_state = FINISHED" and its unlock; and      *)
(* stop_internal() is not entered before the first start(), which it would     *)
(* otherwise turn into IDLE without a thread.                                  *)
LEMMA StateStep ==
    ASSUME TypeOK, CallInv, QuietInv, StateInv, MutexInv, CancelInv,
           [Next]_vars
    PROVE  StateInv'
<1> USE DEF StateInv, MutexInv, Caller, SiPcs, RunPcs, JoinPcs, Running,
            Entered, bsp, cancel, print, task, export, worker, control, locals,
            sync, data, vars
<1>1. CASE (\E h \in Handlers : UserAction(h)) \/ OnProcessCompleted \/
           UITaskBegin \/ UITaskDropped \/ UITaskEnd
  BY <1>1
     DEF UserAction, EventLoop, OnProcessCompleted, Completed, Cancelled,
         UITaskBegin, Goto, UITaskDropped, UITaskEnd
<1>2. CASE RestartRefused \/ RestartAccepted \/ StartLock \/ StartThread \/
           StartWait \/ StartAlreadyRunning \/ StartIdle \/ StartNotify
  BY <1>2
     DEF RestartRefused, Return, Calls, StartOps, RestartAccepted, Goto,
         StartLock, StartThread, StartWait, StartAlreadyRunning, StartIdle,
         StartNotify, NotifyOne
<1>3. CASE StopNotRunning
  BY <1>3 DEF StopNotRunning, Return
<1>4. CASE StopLock \/ StopRunning \/ StopWait
  BY <1>4
     DEF StopLock, Goto, Calls, StopRunning, CancelUITask, Canceled, StopWait,
         Return
<1>5. CASE CancelCallback
  BY <1>5 DEF CancelCallback, Goto, StopInternalReturn, TypeOK, Returns
<1>6. CASE SiCheck
  BY <1>6 DEF SiCheck, Goto, StopInternalReturn, TypeOK, Returns
<1>7. CASE SiNotRunning
  BY <1>7 DEF SiNotRunning, Goto, StopInternalReturn, TypeOK, Returns
<1>8. CASE SiRelock
  BY <1>8 DEF SiRelock, Goto, StopInternalReturn, TypeOK, Returns, CancelInv
<1>9. CASE SiLock \/ SiRunning \/ SiWait
  BY <1>9 DEF SiLock, Goto, SiRunning, CancelUITask, Canceled, SiWait
<1>10. CASE ApplyInvalidate
  BY <1>10, Steps
     DEF ApplyInvalidate, Goto, CallStopInternal, TryInvalidate, TypeOK
<1>11. CASE (\E k \in 0..LastStep : ApplyLock(k)) \/ ApplyInvalidated \/
            ApplyWrite \/
            (\E r \in {"none", "restart", "invalid"} : ApplyUnlock(r))
  BY <1>11
     DEF ApplyLock, Goto, Calls, CallStopInternal, ApplyInvalidated,
         ApplyWrite, QueryResetDirty, ApplyUnlock, Return, Cancelled
<1>12. CASE (\E n \in PrintSteps : SetTaskLock(n)) \/ SetTaskInvalid \/
            SetTaskEnable
  BY <1>12
     DEF SetTaskLock, Goto, Calls, CallStopInternal, SetTaskInvalid,
         SetTaskEnable, Return
<1>13. CASE ScheduleLock
  BY <1>13, Steps
     DEF ScheduleLock, Goto, Calls, StopInternal, InvalidateFinalize,
         ScheduleOps, TryInvalidate, TypeOK, Ops
<1>14. CASE ResetExportLock
  BY <1>14, Steps
     DEF ResetExportLock, Goto, StopInternal, InvalidateFinalize,
         TryInvalidate, TypeOK
<1>15. CASE ScheduleInvalid \/ ScheduleSet \/ ResetExport \/ ResetExportUnlock
  BY <1>15
     DEF ScheduleInvalid, Calls, ScheduleOps, ScheduleSet, Return, ResetExport,
         Goto, ResetExportUnlock
<1>16. CASE ClearLock
  BY <1>16, Steps
     DEF ClearLock, Goto, Calls, CallStopInternal, OwnSteps, TryInvalidate,
         TypeOK
<1>17. CASE InvalidateAllSteps
  BY <1>17, Steps
     DEF InvalidateAllSteps, Goto, Calls, StopInternal, InvalidateFinalize,
         TryInvalidate, TypeOK
<1>18. CASE Join
  BY <1>18, HeadQuiet DEF Join, Goto, Calls, QuietOps, Quiet
<1>19. CASE ClearObjects \/ InvalidatedAllSteps \/ JoinNotify \/ JoinThread
  BY <1>19
     DEF ClearObjects, Return, InvalidatedAllSteps, JoinNotify, Goto,
         NotifyOne, JoinThread
<1>20. CASE WInit \/ WNotify \/ WWait \/ WEnterSkip \/ WEnterCanceled \/ WEnter
  BY <1>20
     DEF WInit, WGoto, WNotify, NotifyOne, WWait, WEnterSkip, NextStep,
         Skipped, StepEnabled, Canceled, WEnterCanceled, WEnter
<1>21. CASE WCompute \/ WThrow \/ (\E c \in Ctx : WPlanTask(c)) \/ WSkipTask \/
            WTaskWait \/ WDone
  BY <1>21
     DEF WCompute, WGoto, WThrow, WPlanTask, Canceled, TaskEvent, WSkipTask,
         WTaskWait, Posted, WDone, NextStep
<1>22. CASE WFinalize \/ WPost \/ WCleanup \/ WRestart \/ SpuriousWake
  BY <1>22
     DEF WFinalize, MarkCanceled, WPost, WGoto, Canceled, Completed, Cancelled,
         WCleanup, QueryResetDirty, WRestart, SpuriousWake
<1>23. CASE Terminated \/ UNCHANGED vars
  BY <1>23 DEF Terminated
<1>24. QED
  BY <1>1, <1>2, <1>3, <1>4, <1>5, <1>6, <1>7, <1>8, <1>9, <1>10, <1>11, <1>12,
     <1>13, <1>14, <1>15, <1>16, <1>17, <1>18, <1>19, <1>20, <1>21, <1>22,
     <1>23
     DEF Next, UIEvent, UICall, Worker

(* Every path through stop_internal() gives its caller back the lock state it  *)
(* came with; invalidate_all_steps(), which calls it without state_mutex, finds*)
(* the process stopped and never gets as far as unlocking.                     *)
LEMMA MutexStep ==
    ASSUME TypeOK, CallInv, QuietInv, StateInv, MutexInv, CancelInv,
           [Next]_vars
    PROVE  MutexInv'
<1> USE DEF MutexInv, Caller, SiPcs, bsp, cancel, print, task, export, worker,
            control, locals, sync, data, vars
<1>1. CASE (\E h \in Handlers : UserAction(h)) \/ OnProcessCompleted \/
           UITaskBegin \/ UITaskDropped \/ UITaskEnd
  BY <1>1
     DEF UserAction, EventLoop, OnProcessCompleted, Completed, Cancelled,
         UITaskBegin, Goto, UITaskDropped, UITaskEnd
<1>2. CASE RestartRefused \/ RestartAccepted \/ StartLock \/ StartThread \/
           StartWait \/ StartAlreadyRunning \/ StartIdle \/ StartNotify
  BY <1>2
     DEF RestartRefused, Return, Calls, StartOps, RestartAccepted, Goto,
         StartLock, StartThread, StartWait, StartAlreadyRunning, Running,
         StartIdle, StartNotify, NotifyOne
<1>3. CASE StopLock \/ StopRunning \/ StopWait \/ StopNotRunning
  BY <1>3
     DEF StopLock, Goto, Calls, StopRunning, CancelUITask, Canceled, StopWait,
         Return, StopNotRunning
<1>4. CASE CancelCallback
  BY <1>4
     DEF CancelCallback, Goto, StopInternalReturn, TypeOK, CallInv, Returns
<1>5. CASE SiCheck
  BY <1>5 DEF SiCheck, Goto, StopInternalReturn, TypeOK, CallInv, Returns
<1>6. CASE SiRunning
  BY <1>6, HeadQuiet
     DEF SiRunning, Goto, CancelUITask, Canceled, CallInv, Quiet, QuietOps,
         JoinPcs
<1>7. CASE SiNotRunning
  BY <1>7 DEF SiNotRunning, Goto, StopInternalReturn, TypeOK, CallInv, Returns
<1>8. CASE SiWait
  BY <1>8, HeadQuiet DEF SiWait, Goto, CallInv, Quiet, QuietOps, JoinPcs
<1>9. CASE SiRelock
  BY <1>9, HeadQuiet
     DEF SiRelock, Goto, StopInternalReturn, TypeOK, CallInv, Returns,
         CancelInv, Quiet, QuietOps, JoinPcs
<1>10. CASE SiLock
  BY <1>10 DEF SiLock, Goto
<1>11. CASE (\E k \in 0..LastStep : ApplyLock(k)) \/ ApplyInvalidate \/
            ApplyInvalidated \/ ApplyWrite \/
            (\E r \in {"none", "restart", "invalid"} : ApplyUnlock(r))
  BY <1>11
     DEF ApplyLock, Goto, Calls, CallStopInternal, Running, ApplyInvalidate,
         TryInvalidate, Entered, ApplyInvalidated, ApplyWrite, QueryResetDirty,
         ApplyUnlock, Return, Cancelled
<1>12. CASE (\E n \in PrintSteps : SetTaskLock(n)) \/ SetTaskInvalid \/
            SetTaskEnable
  BY <1>12
     DEF SetTaskLock, Goto, Calls, CallStopInternal, SetTaskInvalid,
         SetTaskEnable, Return
<1>13. CASE ScheduleInvalid \/ ScheduleLock \/ ScheduleSet \/ ResetExport \/
            ResetExportLock \/ ResetExportUnlock
  BY <1>13
     DEF ScheduleInvalid, Calls, ScheduleOps, ScheduleLock, Goto, StopInternal,
         InvalidateFinalize, TryInvalidate, Entered, ScheduleSet, Return,
         ResetExport, Running, ResetExportLock, ResetExportUnlock
<1>14. CASE ClearLock \/ ClearObjects \/ InvalidateAllSteps \/
            InvalidatedAllSteps \/ Join \/ JoinNotify \/ JoinThread
  BY <1>14
     DEF ClearLock, Goto, Calls, CallStopInternal, OwnSteps, TryInvalidate,
         Entered, ClearObjects, Return, InvalidateAllSteps, StopInternal,
         InvalidateFinalize, InvalidatedAllSteps, Join, JoinNotify, NotifyOne,
         JoinThread
<1>15. CASE WInit \/ WNotify \/ WWait \/ WEnterSkip \/ WEnterCanceled \/ WEnter
  BY <1>15
     DEF WInit, WGoto, WNotify, NotifyOne, WWait, WEnterSkip, NextStep,
         Skipped, StepEnabled, Canceled, WEnterCanceled, WEnter
<1>16. CASE WCompute \/ WThrow \/ (\E c \in Ctx : WPlanTask(c)) \/ WSkipTask \/
            WTaskWait \/ WDone
  BY <1>16
     DEF WCompute, WGoto, WThrow, WPlanTask, Canceled, TaskEvent, WSkipTask,
         WTaskWait, Posted, WDone, NextStep
<1>17. CASE WPost
  BY <1>17 DEF WPost, WGoto, Canceled, Completed, Cancelled, StateInv
<1>18. CASE WRestart
  BY <1>18 DEF WRestart, WGoto, StateInv
<1>19. CASE WFinalize \/ WCleanup \/ SpuriousWake
  BY <1>19
     DEF WFinalize, MarkCanceled, WCleanup, WGoto, QueryResetDirty,
         SpuriousWake
<1>20. CASE Terminated \/ UNCHANGED vars
  BY <1>20 DEF Terminated
<1>21. QED
  BY <1>1, <1>2, <1>3, <1>4, <1>5, <1>6, <1>7, <1>8, <1>9, <1>10, <1>11, <1>12,
     <1>13, <1>14, <1>15, <1>16, <1>17, <1>18, <1>19, <1>20
     DEF Next, UIEvent, UICall, Worker

(* A cancel status is set by a UI thread that then sleeps until the run has    *)
(* ended as CANCELED, and the worker resets it before it releases m_mutex.     *)
LEMMA CancelStep ==
    ASSUME TypeOK, CallInv, QuietInv, StateInv, MutexInv, CancelInv,
           [Next]_vars
    PROVE  CancelInv'
<1> USE DEF CancelInv, Canceled, StateInv, MutexInv, RunPcs, JoinPcs, SiPcs,
            bsp, cancel, print, task, export, worker, control, locals, sync,
            data, vars
<1>1. CASE (\E h \in Handlers : UserAction(h)) \/ OnProcessCompleted \/
           UITaskBegin \/ UITaskDropped \/ UITaskEnd
  BY <1>1
     DEF UserAction, EventLoop, OnProcessCompleted, Completed, Cancelled,
         UITaskBegin, Goto, UITaskDropped, UITaskEnd
<1>2. CASE RestartRefused \/ RestartAccepted \/ StartLock \/ StartThread \/
           StartWait \/ StartAlreadyRunning \/ StartIdle \/ StartNotify
  BY <1>2
     DEF RestartRefused, Return, Calls, StartOps, RestartAccepted, Goto,
         StartLock, StartThread, StartWait, StartAlreadyRunning, Running,
         StartIdle, StartNotify, NotifyOne
<1>3. CASE StopLock \/ StopRunning \/ StopWait \/ StopNotRunning
  BY <1>3
     DEF StopLock, Goto, Calls, StopRunning, CancelUITask, StopWait, Return,
         StopNotRunning
<1>4. CASE CancelCallback
  BY <1>4 DEF CancelCallback, Goto, StopInternalReturn, TypeOK, Returns
<1>5. CASE SiCheck
  BY <1>5 DEF SiCheck, Goto, StopInternalReturn, TypeOK, Returns
<1>6. CASE SiNotRunning
  BY <1>6 DEF SiNotRunning, Goto, StopInternalReturn, TypeOK, Returns
<1>7. CASE SiRelock
  BY <1>7 DEF SiRelock, Goto, StopInternalReturn, TypeOK, Returns
<1>8. CASE SiLock \/ SiRunning \/ SiWait
  BY <1>8 DEF SiLock, Goto, SiRunning, CancelUITask, SiWait
<1>9. CASE (\E k \in 0..LastStep : ApplyLock(k)) \/ ApplyInvalidate \/
           ApplyInvalidated \/ ApplyWrite \/
           (\E r \in {"none", "restart", "invalid"} : ApplyUnlock(r))
  BY <1>9
     DEF ApplyLock, Goto, Calls, CallStopInternal, Running, ApplyInvalidate,
         TryInvalidate, Entered, ApplyInvalidated, ApplyWrite, QueryResetDirty,
         ApplyUnlock, Return, Cancelled
<1>10. CASE (\E n \in PrintSteps : SetTaskLock(n)) \/ SetTaskInvalid \/
            SetTaskEnable
  BY <1>10
     DEF SetTaskLock, Goto, Calls, CallStopInternal, SetTaskInvalid,
         SetTaskEnable, Return
<1>11. CASE ScheduleInvalid \/ ScheduleLock \/ ScheduleSet \/ ResetExport \/
            ResetExportLock \/ ResetExportUnlock
  BY <1>11
     DEF ScheduleInvalid, Calls, ScheduleOps, ScheduleLock, Goto, StopInternal,
         InvalidateFinalize, TryInvalidate, Entered, ScheduleSet, Return,
         ResetExport, Running, ResetExportLock, ResetExportUnlock
<1>12. CASE Join
  BY <1>12, HeadQuiet DEF Join, Goto, Calls, QuietOps, Quiet
<1>13. CASE ClearLock \/ ClearObjects \/ InvalidateAllSteps \/
            InvalidatedAllSteps \/ JoinNotify \/ JoinThread
  BY <1>13
     DEF ClearLock, Goto, Calls, CallStopInternal, OwnSteps, TryInvalidate,
         Entered, ClearObjects, Return, InvalidateAllSteps, StopInternal,
         InvalidateFinalize, InvalidatedAllSteps, JoinNotify, NotifyOne,
         JoinThread
<1>14. CASE WInit \/ WNotify \/ WWait \/ WEnterSkip \/ WEnterCanceled \/ WEnter
  BY <1>14
     DEF WInit, WGoto, WNotify, NotifyOne, WWait, WEnterSkip, NextStep,
         Skipped, StepEnabled, WEnterCanceled, WEnter
<1>15. CASE WCompute \/ WThrow \/ (\E c \in Ctx : WPlanTask(c)) \/ WSkipTask \/
            WTaskWait \/ WDone
  BY <1>15
     DEF WCompute, WGoto, WThrow, WPlanTask, TaskEvent, WSkipTask, WTaskWait,
         Posted, WDone, NextStep
<1>16. CASE WPost
  BY <1>16 DEF WPost, WGoto, Completed, Cancelled
<1>17. CASE WRestart
  BY <1>17 DEF WRestart, WGoto
<1>18. CASE WFinalize \/ WCleanup \/ SpuriousWake
  BY <1>18
     DEF WFinalize, MarkCanceled, WCleanup, WGoto, QueryResetDirty,
         SpuriousWake
<1>19. CASE Terminated \/ UNCHANGED vars
  BY <1>19 DEF Terminated
<1>20. QED
  BY <1>1, <1>2, <1>3, <1>4, <1>5, <1>6, <1>7, <1>8, <1>9, <1>10, <1>11, <1>12,
     <1>13, <1>14, <1>15, <1>16, <1>17, <1>18, <1>19
     DEF Next, UIEvent, UICall, Worker

(* The worker's milestone.  A UI thread that takes Started away from it holds  *)
(* state_mutex until it has set the cancel status, so set_done() throws.       *)
LEMMA StepStep ==
    ASSUME TypeOK, CallInv, QuietInv, StateInv, MutexInv, CancelInv, StepInv,
           ApplyInv, [Next]_vars
    PROVE  StepInv'
<1> USE DEF StepInv, InsidePcs, SiPcs, Entered, bsp, cancel, print, task,
            export, worker, control, locals, sync, data, vars
<1>1. CASE (\E h \in Handlers : UserAction(h)) \/ OnProcessCompleted \/
           UITaskBegin \/ UITaskDropped \/ UITaskEnd
  BY <1>1
     DEF UserAction, EventLoop, OnProcessCompleted, Completed, Cancelled,
         UITaskBegin, Goto, UITaskDropped, UITaskEnd
<1>2. CASE StartThread
  BY <1>2 DEF StartThread, Goto, StateInv, RunPcs
<1>3. CASE RestartRefused \/ RestartAccepted \/ StartLock \/ StartWait \/
           StartAlreadyRunning \/ StartIdle \/ StartNotify
  BY <1>3
     DEF RestartRefused, Return, Calls, StartOps, RestartAccepted, Goto,
         StartLock, StartWait, StartAlreadyRunning, Running, StartIdle,
         StartNotify, NotifyOne
<1>4. CASE StopLock \/ StopRunning \/ StopWait \/ StopNotRunning
  BY <1>4
     DEF StopLock, Goto, Calls, StopRunning, CancelUITask, Canceled, StopWait,
         Return, StopNotRunning
<1>5. CASE CancelCallback
  BY <1>5
     DEF CancelCallback, Goto, StopInternalReturn, TypeOK, Returns, StateInv,
         Running, RunPcs
<1>6. CASE SiCheck
  BY <1>6
     DEF SiCheck, Goto, StopInternalReturn, TypeOK, Returns, StateInv, RunPcs
<1>7. CASE SiNotRunning
  BY <1>7
     DEF SiNotRunning, Goto, StopInternalReturn, TypeOK, Returns, StateInv,
         RunPcs
<1>8. CASE SiWait
  BY <1>8 DEF SiWait, Goto, StateInv, RunPcs
<1>9. CASE SiRelock
  BY <1>9
     DEF SiRelock, Goto, StopInternalReturn, TypeOK, Returns, CancelInv,
         StateInv, RunPcs
<1>10. CASE SiLock \/ SiRunning
  BY <1>10 DEF SiLock, Goto, SiRunning, CancelUITask, Canceled
<1>11. CASE ApplyInvalidate
  BY <1>11, Steps
     DEF ApplyInvalidate, Goto, CallStopInternal, TryInvalidate, TypeOK
<1>12. CASE ApplyWrite
  <2>1. /\ upc = "ap_write" /\ upc' = "ap_unlock" /\ UNCHANGED <<wpc, wstep>>
        /\ outdated' = outdated \cup from..LastStep
        /\ step' = [s \in AllSteps |-> IF s \in CleanupSteps THEN QueryResetDirty(step[s]) ELSE step[s]]
    BY <1>12, Zenon DEF ApplyWrite, Goto
  <2>2. \A s \in AllSteps : Entered(step'[s]) \/ step[s] = "Started" => step'[s] = step[s]
    BY <2>1 DEF QueryResetDirty, IsDirty
  <2>3. \A s \in from..LastStep : ~Entered(step[s])
    BY <2>1, Steps DEF ApplyInv, Caller, PrintSteps, TypeOK
  <2>4. \A s \in AllSteps : step'[s] = "Started" => step[s] = "Started"
    BY <2>2
  <2>5. \A s \in PrintSteps : Entered(step'[s]) => s \notin outdated'
    BY <2>1, <2>2, <2>3, Steps
  <2>6. wstep \in AllSteps
    BY DEF TypeOK
  <2>7. QED
    BY <2>1, <2>2, <2>4, <2>5, <2>6, Steps
<1>13. CASE (\E k \in 0..LastStep : ApplyLock(k)) \/ ApplyInvalidated \/
            (\E r \in {"none", "restart", "invalid"} : ApplyUnlock(r))
  BY <1>13
     DEF ApplyLock, Goto, Calls, CallStopInternal, Running, ApplyInvalidated,
         ApplyUnlock, Return, Cancelled
<1>14. CASE (\E n \in PrintSteps : SetTaskLock(n)) \/ SetTaskInvalid \/
            SetTaskEnable
  BY <1>14
     DEF SetTaskLock, Goto, Calls, CallStopInternal, SetTaskInvalid,
         SetTaskEnable, Return
<1>15. CASE ScheduleLock
  BY <1>15, Steps
     DEF ScheduleLock, Goto, Calls, StopInternal, InvalidateFinalize,
         ScheduleOps, TryInvalidate, TypeOK, StepState
<1>16. CASE ResetExportLock
  BY <1>16, Steps
     DEF ResetExportLock, Goto, StopInternal, InvalidateFinalize,
         TryInvalidate, TypeOK, StepState
<1>17. CASE ScheduleInvalid \/ ScheduleSet \/ ResetExport \/ ResetExportUnlock
  BY <1>17
     DEF ScheduleInvalid, Calls, ScheduleOps, ScheduleSet, Return, ResetExport,
         Goto, Running, ResetExportUnlock
<1>18. CASE ClearLock
  BY <1>18, Steps
     DEF ClearLock, Goto, Calls, CallStopInternal, OwnSteps, TryInvalidate,
         TypeOK
<1>19. CASE ClearObjects
  BY <1>19, Steps, HeadQuiet
     DEF ClearObjects, Return, TypeOK, CallInv, Caller, QuietOps, JoinPcs,
         Quiet, StateInv, RunPcs, ApplyInv
<1>20. CASE InvalidateAllSteps
  BY <1>20, Steps
     DEF InvalidateAllSteps, Goto, Calls, StopInternal, InvalidateFinalize,
         TryInvalidate, TypeOK, StepState
<1>21. CASE InvalidatedAllSteps \/ Join \/ JoinNotify \/ JoinThread
  BY <1>21
     DEF InvalidatedAllSteps, Return, Join, Goto, Calls, JoinNotify, NotifyOne,
         JoinThread
<1>22. CASE WEnter
  BY <1>22, Steps DEF WEnter, WGoto, Skipped, StepEnabled, Canceled, TypeOK
<1>23. CASE WInit \/ WNotify \/ WWait \/ WEnterSkip \/ WEnterCanceled
  BY <1>23
     DEF WInit, WGoto, WNotify, NotifyOne, WWait, WEnterSkip, NextStep,
         Skipped, StepEnabled, Canceled, WEnterCanceled
<1>24. CASE WDone
  BY <1>24, Steps, HeadQuiet
     DEF WDone, WGoto, NextStep, Canceled, TypeOK, MutexInv, CancelInv,
         StateInv, RunPcs, CallInv, Caller, QuietOps, JoinPcs, Quiet
<1>25. CASE WCompute \/ WThrow \/ (\E c \in Ctx : WPlanTask(c)) \/ WSkipTask \/
            WTaskWait
  BY <1>25
     DEF WCompute, WGoto, WThrow, WPlanTask, Canceled, TaskEvent, WSkipTask,
         WTaskWait, Posted
<1>26. CASE WFinalize
  BY <1>26, Steps DEF WFinalize, MarkCanceled, TypeOK
<1>27. CASE WCleanup
  BY <1>27, Steps DEF WCleanup, WGoto, QueryResetDirty, TypeOK
<1>28. CASE WPost \/ WRestart \/ SpuriousWake
  BY <1>28
     DEF WPost, WGoto, Canceled, Completed, Cancelled, WRestart, SpuriousWake
<1>29. CASE Terminated \/ UNCHANGED vars
  BY <1>29 DEF Terminated
<1>30. QED
  BY <1>1, <1>2, <1>3, <1>4, <1>5, <1>6, <1>7, <1>8, <1>9, <1>10, <1>11, <1>12,
     <1>13, <1>14, <1>15, <1>16, <1>17, <1>18, <1>19, <1>20, <1>21, <1>22,
     <1>23, <1>24, <1>25, <1>26, <1>27, <1>28, <1>29
     DEF Next, UIEvent, UICall, Worker

(* What apply() or clear() has invalidated cannot be entered again: state_mutex*)
(* is held, or released by a stop_internal() that has set the cancel status.   *)
LEMMA ApplyStep ==
    ASSUME TypeOK, CallInv, QuietInv, StateInv, MutexInv, CancelInv, StepInv,
           ApplyInv, [Next]_vars
    PROVE  ApplyInv'
<1> USE DEF ApplyInv, Caller, SiPcs, Entered, bsp, cancel, print, task, export,
            worker, control, locals, sync, data, vars
<1>1. CASE (\E h \in Handlers : UserAction(h)) \/ OnProcessCompleted \/
           UITaskBegin \/ UITaskDropped \/ UITaskEnd
  BY <1>1
     DEF UserAction, EventLoop, OnProcessCompleted, Completed, Cancelled,
         UITaskBegin, Goto, UITaskDropped, UITaskEnd
<1>2. CASE RestartRefused \/ RestartAccepted \/ StartLock \/ StartThread \/
           StartWait \/ StartAlreadyRunning \/ StartIdle \/ StartNotify
  BY <1>2
     DEF RestartRefused, Return, Calls, StartOps, RestartAccepted, Goto,
         StartLock, StartThread, StartWait, StartAlreadyRunning, Running,
         StartIdle, StartNotify, NotifyOne
<1>3. CASE StopLock \/ StopRunning \/ StopWait \/ StopNotRunning
  BY <1>3
     DEF StopLock, Goto, Calls, StopRunning, CancelUITask, Canceled, StopWait,
         Return, StopNotRunning
<1>4. CASE CancelCallback
  BY <1>4 DEF CancelCallback, Goto, StopInternalReturn, TypeOK, Returns
<1>5. CASE SiCheck
  BY <1>5 DEF SiCheck, Goto, StopInternalReturn, TypeOK, Returns
<1>6. CASE SiNotRunning
  BY <1>6 DEF SiNotRunning, Goto, StopInternalReturn, TypeOK, Returns
<1>7. CASE SiRelock
  BY <1>7 DEF SiRelock, Goto, StopInternalReturn, TypeOK, Returns
<1>8. CASE SiLock \/ SiRunning \/ SiWait
  BY <1>8 DEF SiLock, Goto, SiRunning, CancelUITask, Canceled, SiWait
<1>9. ASSUME NEW k \in 0..LastStep, ApplyLock(k) PROVE ApplyInv'
  BY <1>9, Steps
     DEF ApplyLock, Goto, Calls, CallStopInternal, Running, TypeOK, PrintSteps
<1>10. CASE ApplyInvalidate
  BY <1>10, Steps
     DEF ApplyInvalidate, Goto, CallStopInternal, TryInvalidate, TypeOK,
         PrintSteps, AllSteps, StepState
<1>11. CASE ApplyWrite
  BY <1>11, Steps DEF ApplyWrite, Goto, QueryResetDirty, TypeOK
<1>12. CASE ApplyInvalidated \/
            (\E r \in {"none", "restart", "invalid"} : ApplyUnlock(r))
  BY <1>12 DEF ApplyInvalidated, Goto, ApplyUnlock, Return, Running, Cancelled
<1>13. CASE (\E n \in PrintSteps : SetTaskLock(n)) \/ SetTaskInvalid \/
            SetTaskEnable
  BY <1>13
     DEF SetTaskLock, Goto, Calls, CallStopInternal, SetTaskInvalid,
         SetTaskEnable, Return
<1>14. CASE ScheduleLock
  BY <1>14, Steps
     DEF ScheduleLock, Goto, Calls, StopInternal, InvalidateFinalize,
         ScheduleOps, TryInvalidate, TypeOK, StepState
<1>15. CASE ResetExportLock
  BY <1>15, Steps
     DEF ResetExportLock, Goto, StopInternal, InvalidateFinalize,
         TryInvalidate, TypeOK, StepState
<1>16. CASE ScheduleInvalid \/ ScheduleSet \/ ResetExport \/ ResetExportUnlock
  BY <1>16
     DEF ScheduleInvalid, Calls, ScheduleOps, ScheduleSet, Return, ResetExport,
         Goto, Running, ResetExportUnlock
<1>17. CASE ClearLock
  BY <1>17, Steps
     DEF ClearLock, Goto, Calls, CallStopInternal, OwnSteps, TryInvalidate,
         TypeOK, StepState
<1>18. CASE InvalidateAllSteps
  BY <1>18, Steps
     DEF InvalidateAllSteps, Goto, Calls, StopInternal, InvalidateFinalize,
         TryInvalidate, TypeOK, StepState
<1>19. CASE ClearObjects \/ InvalidatedAllSteps \/ Join \/ JoinNotify \/
            JoinThread
  BY <1>19
     DEF ClearObjects, Return, InvalidatedAllSteps, Join, Goto, Calls,
         JoinNotify, NotifyOne, JoinThread
<1>20. CASE WEnter
  BY <1>20, Steps, HeadQuiet
     DEF WEnter, WGoto, Skipped, StepEnabled, Canceled, TypeOK, MutexInv,
         CancelInv, StateInv, RunPcs, CallInv, QuietOps, JoinPcs, Quiet
<1>21. CASE WInit \/ WNotify \/ WWait \/ WEnterSkip \/ WEnterCanceled
  BY <1>21
     DEF WInit, WGoto, WNotify, NotifyOne, WWait, WEnterSkip, NextStep,
         Skipped, StepEnabled, Canceled, WEnterCanceled
<1>22. CASE WDone
  BY <1>22, Steps, HeadQuiet
     DEF WDone, WGoto, NextStep, Canceled, TypeOK, MutexInv, CancelInv,
         StateInv, RunPcs, CallInv, QuietOps, JoinPcs, Quiet
<1>23. CASE WCompute \/ WThrow \/ (\E c \in Ctx : WPlanTask(c)) \/ WSkipTask \/
            WTaskWait
  BY <1>23
     DEF WCompute, WGoto, WThrow, WPlanTask, Canceled, TaskEvent, WSkipTask,
         WTaskWait, Posted
<1>24. CASE WFinalize
  BY <1>24, Steps DEF WFinalize, MarkCanceled, TypeOK
<1>25. CASE WCleanup
  BY <1>25, Steps DEF WCleanup, WGoto, QueryResetDirty, TypeOK
<1>26. CASE WPost \/ WRestart \/ SpuriousWake
  BY <1>26
     DEF WPost, WGoto, Canceled, Completed, Cancelled, WRestart, SpuriousWake
<1>27. CASE Terminated \/ UNCHANGED vars
  BY <1>27 DEF Terminated
<1>28. QED
  BY <1>1, <1>2, <1>3, <1>4, <1>5, <1>6, <1>7, <1>8, <1>9, <1>10, <1>11, <1>12,
     <1>13, <1>14, <1>15, <1>16, <1>17, <1>18, <1>19, <1>20, <1>21, <1>22,
     <1>23, <1>24, <1>25, <1>26, <1>27
     DEF Next, UIEvent, UICall, Worker

-----------------------------------------------------------------------------
(* IInv holds initially. *)
LEMMA InitIInv == Init => IInv
<1> SUFFICES ASSUME Init PROVE IInv
  OBVIOUS
<1> USE DEF Init
<1>1. TypeSync
  BY DEF TypeSync
<1>2. TypeData
  <2>1. events \in Seq(Event)
    OBVIOUS
  <2>2. ctx \in [Ctx -> {"Free", "Planned", "Finished", "Canceled"}]
    OBVIOUS
  <2>3. QED
    BY <2>1, <2>2 DEF TypeData
<1>3. TypePrint
  BY DEF TypePrint, StepState
<1>4. TypeWorker
  BY Steps DEF TypeWorker, WorkerPcs
<1>5. TypeUI
  <2>1. todo \in Seq(Ops)
    OBVIOUS
  <2>2. upc \in UIPcs /\ uret \in Returns
    BY DEF UIPcs, Returns
  <2>3. from \in 0..LastStep /\ inv \in 0..FinalizeStep
    BY Steps
  <2>4. QED
    BY <2>1, <2>2, <2>3 DEF TypeUI
<1>6. TypeOK
  BY <1>1, <1>2, <1>3, <1>4, <1>5 DEF TypeOK, TypeSync, TypeData, TypePrint, TypeWorker, TypeUI
<1>7. CallInv /\ QuietInv
  BY DEF CallInv, QuietInv, Quiet, Caller, SiPcs, StartPcs, StopPcs, JoinPcs
<1>8. StateInv /\ MutexInv /\ CancelInv
  BY DEF StateInv, MutexInv, CancelInv, Canceled, Running, RunPcs, SiPcs, JoinPcs,
         Entered
<1>9. StepInv /\ ApplyInv
  BY Steps DEF StepInv, ApplyInv, Caller, SiPcs, InsidePcs, Entered
<1>10. QED
  BY <1>6, <1>7, <1>8, <1>9 DEF IInv

(* Every step preserves IInv. *)
LEMMA NextIInv == IInv /\ [Next]_vars => IInv'
<1> SUFFICES ASSUME IInv, [Next]_vars PROVE IInv'
  OBVIOUS
<1>1. TypeSync /\ TypePrint /\ TypeData /\ TypeWorker /\ TypeUI
  BY DEF IInv, TypeOK, TypeSync, TypePrint, TypeData, TypeWorker, TypeUI
<1>2. wstep \in AllSteps /\ from \in 0..LastStep /\ inv \in 0..FinalizeStep
  BY <1>1 DEF TypeWorker, TypeUI
<1>3. TypeSync' /\ TypePrint' /\ TypeData' /\ TypeWorker' /\ TypeUI'
  BY <1>1, <1>2, TypeSyncStep, TypePrintStep, TypeDataStep, TypeWorkerStep,
     TypeUIStep DEF IInv
<1>4. TypeOK'
  BY <1>3 DEF TypeOK, TypeSync, TypePrint, TypeData, TypeWorker, TypeUI
<1>5. CallInv' /\ QuietInv' /\ StateInv' /\ MutexInv' /\ CancelInv'
  BY CallStep, QuietStep, StateStep, MutexStep, CancelStep DEF IInv
<1>6. StepInv' /\ ApplyInv'
  BY StepStep, ApplyStep DEF IInv
<1>7. QED
  BY <1>4, <1>5, <1>6 DEF IInv

(* The inductive invariant of the background slicing process: what m_state,   *)
(* the two mutexes and the cancel status say of where the two threads are.    *)
THEOREM Invariance == Spec => []IInv
<1>1. QED
  BY InitIInv, NextIInv, PTL DEF Spec

(* Every variable keeps its type. *)
THEOREM TypeCorrect == Spec => []TypeOK
<1>1. IInv => TypeOK
  BY DEF IInv
<1>2. QED
  BY <1>1, Invariance, PTL

(* Print::apply() and Print::clear() change the data of milestones only while  *)
(* the worker is in none of them.                                             *)
THEOREM ApplyExcludesWorker == Spec => []WriteExcludesWorker
<1>1. ASSUME IInv PROVE WriteExcludesWorker
  <2>1. ASSUME upc = "ap_write", NEW s \in from..LastStep PROVE ~Inside(s)
    <3>1. s \in PrintSteps /\ ~Entered(step[s])
      BY <1>1, <2>1, Steps DEF IInv, ApplyInv, Caller, SiPcs, PrintSteps, TypeOK
    <3>2. step[s] # "Started" /\ upc \notin SiPcs
      BY <3>1, <2>1 DEF Entered, SiPcs
    <3>3. QED
      BY <1>1, <3>2 DEF IInv, StepInv, Inside, InsidePcs
  <2>2. ASSUME upc = "clear_objects" PROVE wpc \notin RunPcs
    <3>1. Quiet
      BY <1>1, <2>2, HeadQuiet DEF IInv, CallInv, Caller, SiPcs, QuietOps, JoinPcs
    <3>2. QED
      BY <1>1, <3>1 DEF IInv, StateInv, Quiet
  <2>3. QED
    BY <2>1, <2>2 DEF WriteExcludesWorker, Inside, RunPcs
<1>2. QED
  BY <1>1, Invariance, PTL

(* A milestone that the next run will skip was computed from the current data. *)
THEOREM DoneMilestonesCurrent == Spec => []DoneIsCurrent
<1>1. IInv => DoneIsCurrent
  BY DEF IInv, StepInv, Entered, DoneIsCurrent
<1>2. QED
  BY <1>1, Invariance, PTL

(* No milestone is left Started outside of a run. *)
THEOREM NothingStartedOutsideRun == Spec => []StartedOnlyInRun
<1>1. IInv => StartedOnlyInRun
  BY DEF IInv, StepInv, StateInv, RunPcs, InsidePcs, StartedOnlyInRun
<1>2. QED
  BY <1>1, Invariance, PTL

(* A process at rest has no cancel request pending. *)
THEOREM NoCancelLeft == Spec => []CancelDoesNotLinger
<1>1. IInv => CancelDoesNotLinger
  BY DEF IInv, CancelInv, StateInv, CancelDoesNotLinger
<1>2. QED
  BY <1>1, Invariance, PTL

(* stop_internal() holds state_mutex when it unlocks it; stop() does not hold  *)
(* it while it waits for a worker that may need it.                           *)
THEOREM StateMutexContract == Spec => []LockContract
<1>1. ASSUME IInv PROVE LockContract
  <2>1. ASSUME upc = "si_body", state \in {"STARTED", "RUNNING"} PROVE smutex = "ui"
    <3>1. uret # "invalidated"
      <4>1. SUFFICES ASSUME uret = "invalidated" PROVE FALSE
        OBVIOUS
      <4>2. Quiet
        BY <1>1, <2>1, <4>1, HeadQuiet
           DEF IInv, CallInv, Caller, SiPcs, QuietOps, JoinPcs
      <4>3. QED
        BY <2>1, <4>2 DEF Quiet
    <3>2. QED
      BY <1>1, <2>1, <3>1 DEF IInv, MutexInv, SiPcs
  <2>2. ASSUME upc \in {"stop_body", "stop_wait"} PROVE smutex = "none"
    BY <1>1, <2>2 DEF IInv, MutexInv, SiPcs, TypeOK
  <2>3. QED
    BY <2>1, <2>2 DEF LockContract
<1>2. QED
  BY <1>1, Invariance, PTL

=============================================================================
