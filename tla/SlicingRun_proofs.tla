-------------------------- MODULE SlicingRun_proofs --------------------------
(***************************************************************************)
(* What BackgroundSlicing promises of a run: the UI task that is executed  *)
(* is the one the worker waits for, the result is announced, the           *)
(* destination stays under an export, and the G-code that is exported is   *)
(* complete and current.  Each follows from a part of the second half of   *)
(* BackgroundSlicingInv, which is invariant on top of IInv.                *)
(***************************************************************************)
EXTENDS BackgroundSlicing_proofs

-----------------------------------------------------------------------------
(* UI tasks. *)
LEMMA AppendEvent ==
    ASSUME TypeOK, NEW e, events' = Append(events, e)
    PROVE  /\ Len(events) \in Nat /\ Len(events') = Len(events) + 1
           /\ events'[Len(events) + 1] = e
           /\ \A i \in 1..Len(events) : events'[i] = events[i]
           /\ events # <<>> => Head(events') = Head(events)
<1>1. events \in Seq(Event)
  BY DEF TypeOK
<1>2. /\ Len(events) \in Nat /\ Len(events') = Len(events) + 1
      /\ events'[Len(events) + 1] = e
      /\ \A i \in 1..Len(events) : events'[i] = events[i]
  BY <1>1
<1>3. events # <<>> => Head(events') = Head(events)
  BY <1>1, <1>2
<1>4. QED
  BY <1>2, <1>3

LEMMA TailEvent ==
    ASSUME TypeOK, events # <<>>, events' = Tail(events)
    PROVE  /\ Len(events) \in Nat /\ Len(events) > 0 /\ Len(events') = Len(events) - 1
           /\ Head(events) = events[1]
           /\ \A i \in 1..Len(events') : i + 1 \in 1..Len(events) /\ events'[i] = events[i + 1]
           /\ \A i \in 1..Len(events) : i = 1 \/ (i - 1 \in 1..Len(events') /\ events'[i - 1] = events[i])
<1>1. events \in Seq(Event)
  BY DEF TypeOK
<1>2. /\ Len(events) \in Nat /\ Len(events) > 0 /\ Len(events') = Len(events) - 1
      /\ Head(events) = events[1]
      /\ \A i \in 1..Len(events) - 1 : events'[i] = events[i + 1]
  BY <1>1
<1>3. QED
  BY <1>2

(* Steps that leave the task and its context alone. *)
LEMMA TaskKept ==
    ASSUME TypeOK, CallInv, TaskInv, UNCHANGED <<uiTask, ctx>>,
           wpc' = "task_wait" <=> wpc = "task_wait",
           upc' = "task" => upc = "task",
           \/ events' = events
           \/ \E e \in {Completed, Cancelled} : events' = Append(events, e)
           \/ events # <<>> /\ events' = Tail(events) /\ upc' # "task"
    PROVE  TaskInv'
<1>1. upc = "task" => events # <<>>
  BY DEF CallInv
<1>2. CASE events' = events
  BY <1>2 DEF TaskInv
<1>3. ASSUME NEW e \in {Completed, Cancelled}, events' = Append(events, e) PROVE TaskInv'
  <2>1. e.type # "task"
    BY <1>3 DEF Completed, Cancelled
  <2>2. QED
    BY <1>1, <1>3, <2>1, AppendEvent DEF TaskInv
<1>4. CASE events # <<>> /\ events' = Tail(events) /\ upc' # "task"
  <2>1. \A i \in 1..Len(events') : i + 1 \in 1..Len(events) /\ events'[i] = events[i + 1]
    BY <1>4, TailEvent
  <2>2. \A i \in 1..Len(events') : events'[i].type = "task" => events'[i].ctx \in Ctx
    BY <2>1 DEF TaskInv
  <2>3. QED
    BY <1>4, <2>2 DEF TaskInv
<1>5. QED
  BY <1>2, <1>3, <1>4

(* Steps of the UI thread that cancel the task, or not. *)
LEMMA TaskCancelled ==
    ASSUME TypeOK, TaskInv, CancelUITask, UNCHANGED <<uiTask, events, wpc>>, upc' # "task"
    PROVE  TaskInv'
<1>1. CASE uiTask = NoCtx
  BY <1>1 DEF TaskInv, CancelUITask
<1>2. CASE uiTask # NoCtx
  <2>1. uiTask \in Ctx /\ ctx' = [ctx EXCEPT ![uiTask] = "Canceled"] /\ DOMAIN ctx = Ctx
    BY <1>2 DEF CancelUITask, TypeOK
  <2>2. \A c \in Ctx : ctx'[c] = "Planned" => ctx[c] = "Planned"
    BY <2>1
  <2>3. QED
    BY <2>2 DEF TaskInv
<1>3. QED
  BY <1>1, <1>2

(* The worker waits for its task from the moment it is planned until it has   *)
(* been run or cancelled, so the task that the UI thread runs is that one.     *)
LEMMA TaskStep ==
    ASSUME TypeOK, CallInv, StateInv, TaskInv, [Next]_vars
    PROVE  TaskInv'
<1> USE DEF bsp, cancel, print, task, export, worker, control, locals, sync, data, vars
<1>1. CASE (\E h \in Handlers : UserAction(h)) \/ OnProcessCompleted
  BY <1>1, TaskKept DEF UserAction, EventLoop, OnProcessCompleted
<1>2. CASE UITaskBegin
  <2>1. /\ UNCHANGED <<uiTask, ctx, events, wpc>> /\ ctx[Head(events).ctx] = "Planned"
    BY <1>2 DEF UITaskBegin
  <2>2. QED
    BY <2>1 DEF TaskInv
<1>3. CASE UITaskDropped \/ UITaskEnd
  <2> DEFINE c == Head(events).ctx
  <2>1. /\ events # <<>> /\ events' = Tail(events) /\ Head(events).type = "task"
        /\ UNCHANGED <<uiTask, wpc>> /\ upc' # "task"
        /\ \E v \in {"Free", "Finished", ctx[c]} : ctx' = [ctx EXCEPT ![c] = v]
    BY <1>3 DEF UITaskDropped, UITaskEnd, EventLoop, Goto, CallInv
  <2>2. ASSUME NEW d \in Ctx, ctx'[d] = "Planned" PROVE ctx[d] = "Planned"
    <3>1. PICK v \in {"Free", "Finished", ctx[c]} : ctx' = [ctx EXCEPT ![c] = v]
      BY <2>1
    <3>2. d # c => ctx'[d] = ctx[d]
      BY <3>1 DEF TypeOK
    <3>3. d = c => ctx'[d] \in {v, ctx[d]}
      BY <3>1 DEF TypeOK
    <3>4. QED
      BY <2>2, <3>1, <3>2, <3>3
  <2>3. \A i \in 1..Len(events') : events'[i].type = "task" => events'[i].ctx \in Ctx
    <3>1. \A i \in 1..Len(events') : i + 1 \in 1..Len(events) /\ events'[i] = events[i + 1]
      BY <2>1, TailEvent
    <3>2. \A i \in 1..Len(events) : events[i].type = "task" => events[i].ctx \in Ctx
      BY DEF TaskInv
    <3>3. QED
      BY <3>1, <3>2
  <2>4. QED
    BY <2>1, <2>2, <2>3 DEF TaskInv
<1>4. CASE RestartRefused \/ RestartAccepted \/ StartLock \/ StartWait \/
           StartAlreadyRunning \/ StartIdle \/ StartNotify
  BY <1>4, TaskKept
     DEF RestartRefused, Return, Calls, StartOps, RestartAccepted, Goto,
         StartLock, StartWait, StartAlreadyRunning, StartIdle, StartNotify
<1>5. CASE StopLock \/ StopWait \/ StopNotRunning
  BY <1>5, TaskKept DEF StopLock, Goto, Calls, StopWait, Return, StopNotRunning
<1>6. CASE StopRunning \/ SiRunning
  BY <1>6, TaskCancelled DEF StopRunning, SiRunning, Goto
<1>7. CASE CancelCallback \/ SiCheck \/ SiNotRunning \/ SiRelock
  <2>1. uret # "task"
    BY DEF TypeOK, Returns
  <2>2. /\ UNCHANGED <<uiTask, ctx, events, wpc>> /\ upc' \in {uret, "si_check", "si_lock"}
    BY <1>7
       DEF CancelCallback, Goto, StopInternalReturn, SiCheck, SiNotRunning, SiRelock
  <2>3. QED
    BY <2>1, <2>2, TaskKept
<1>8. CASE SiLock \/ SiWait
  BY <1>8, TaskKept DEF SiLock, Goto, SiWait
<1>9. CASE (\E k \in 0..LastStep : ApplyLock(k)) \/ ApplyInvalidate \/
           ApplyInvalidated \/ ApplyWrite \/
           (\E r \in {"none", "restart", "invalid"} : ApplyUnlock(r))
  BY <1>9, TaskKept
     DEF ApplyLock, Goto, Calls, CallStopInternal, ApplyInvalidate,
         ApplyInvalidated, ApplyWrite, ApplyUnlock, Return
<1>10. CASE (\E n \in PrintSteps : SetTaskLock(n)) \/ SetTaskInvalid \/
            SetTaskEnable
  BY <1>10, TaskKept
     DEF SetTaskLock, Goto, Calls, CallStopInternal, SetTaskInvalid,
         SetTaskEnable, Return
<1>11. CASE ScheduleInvalid \/ ScheduleLock \/ ScheduleSet \/ ResetExport \/
            ResetExportLock \/ ResetExportUnlock
  BY <1>11, TaskKept
     DEF ScheduleInvalid, Calls, ScheduleOps, ScheduleLock, Goto, StopInternal,
         InvalidateFinalize, ScheduleSet, Return, ResetExport, ResetExportLock,
         ResetExportUnlock
<1>12. CASE ClearLock \/ ClearObjects \/ InvalidateAllSteps \/
            InvalidatedAllSteps \/ Join \/ JoinNotify \/ JoinThread
  BY <1>12, TaskKept
     DEF ClearLock, Goto, Calls, CallStopInternal, ClearObjects, Return,
         InvalidateAllSteps, StopInternal, InvalidateFinalize,
         InvalidatedAllSteps, Join, JoinNotify, JoinThread
<1>13. CASE StartThread \/ WInit \/ WNotify \/ WWait \/ WEnterSkip \/ WEnterCanceled \/ WEnter
  <2>1. UNCHANGED <<uiTask, ctx, events>> /\ upc' \in {upc, "start_wait"}
    BY <1>13 DEF StartThread, Goto, WInit, WNotify, WWait, WEnterSkip, WEnterCanceled, WEnter
  <2>2. wpc' # "task_wait" /\ wpc # "task_wait"
    BY <1>13
       DEF StartThread, WInit, WGoto, WNotify, WWait, WEnterSkip, NextStep,
           WEnterCanceled, WEnter, StateInv
  <2>3. QED
    BY <2>1, <2>2, TaskKept
<1>14. CASE WCompute \/ WThrow \/ WSkipTask \/ WDone
  <2>1. /\ UNCHANGED <<uiTask, ctx, events, upc>>
        /\ wpc' # "task_wait" /\ wpc # "task_wait"
    BY <1>14 DEF WCompute, WThrow, WSkipTask, WDone, WGoto, NextStep
  <2>2. QED
    BY <2>1, TaskKept
<1>15. ASSUME NEW c \in Ctx, WPlanTask(c) PROVE TaskInv'
  <2>1. /\ wpc = "thumbnails" /\ wpc' = "task_wait" /\ uiTask' = c /\ upc' = upc
        /\ ctx' = [ctx EXCEPT ![c] = "Planned"] /\ events' = Append(events, TaskEvent(c))
    BY <1>15 DEF WPlanTask, WGoto
  <2>2. \A d \in Ctx : ctx'[d] = "Planned" => d = c
    BY <2>1 DEF TaskInv, TypeOK
  <2>3. upc # "task"
    <3>1. SUFFICES ASSUME upc = "task" PROVE FALSE
      OBVIOUS
    <3>2. events # <<>> /\ Head(events).type = "task" /\ ctx[Head(events).ctx] = "Planned"
      BY <3>1 DEF CallInv, TaskInv
    <3>3. Head(events).ctx \in Ctx
      BY <3>2 DEF TaskInv, TypeOK
    <3>4. QED
      BY <2>1, <3>2, <3>3 DEF TaskInv
  <2>4. TaskEvent(c).ctx = c /\ c # NoCtx
    BY InstanceAssumption DEF TaskEvent
  <2>5. \A i \in 1..Len(events') : events'[i].type = "task" => events'[i].ctx \in Ctx
    BY <2>1, <2>4, AppendEvent DEF TaskInv
  <2>6. QED
    BY <2>1, <2>2, <2>3, <2>4, <2>5 DEF TaskInv
<1>16. CASE WTaskWait
  <2>1. /\ wpc = "task_wait" /\ wpc' = "done" /\ uiTask' = NoCtx /\ UNCHANGED <<upc, events>>
        /\ ctx[uiTask] # "Planned"
        /\ \E v \in {"Free", ctx[uiTask]} : ctx' = [ctx EXCEPT ![uiTask] = v]
    BY <1>16 DEF WTaskWait, WGoto
  <2>2. \A d \in Ctx : ctx[d] # "Planned"
    BY <2>1 DEF TaskInv
  <2>3. \A d \in Ctx : ctx'[d] # "Planned"
    <3>1. PICK v \in {"Free", ctx[uiTask]} : ctx' = [ctx EXCEPT ![uiTask] = v]
      BY <2>1
    <3>2. v # "Planned"
      BY <2>1, <3>1
    <3>3. QED
      BY <2>2, <3>1, <3>2 DEF TypeOK
  <2>4. upc # "task"
    <3>1. SUFFICES ASSUME upc = "task" PROVE FALSE
      OBVIOUS
    <3>2. events # <<>> /\ Head(events).type = "task" /\ ctx[Head(events).ctx] = "Planned"
      BY <3>1 DEF CallInv, TaskInv
    <3>3. Head(events).ctx \in Ctx
      BY <3>2 DEF TaskInv, TypeOK
    <3>4. QED
      BY <2>2, <3>2, <3>3
  <2>5. QED
    BY <2>1, <2>3, <2>4 DEF TaskInv
<1>17. CASE WFinalize \/ WCleanup \/ WRestart \/ SpuriousWake \/ Terminated \/ UNCHANGED vars
  <2>1. /\ UNCHANGED <<uiTask, ctx, events, upc>>
        /\ wpc' = wpc \/ (wpc' # "task_wait" /\ wpc # "task_wait")
    BY <1>17 DEF WFinalize, WCleanup, WRestart, WGoto, SpuriousWake, Terminated
  <2>2. QED
    BY <2>1, TaskKept
<1>18. CASE WPost
  <2>1. /\ UNCHANGED <<uiTask, ctx, upc>> /\ wpc = "post" /\ wpc' # "task_wait"
        /\ \/ events' = events
           \/ \E e \in {Completed, Cancelled} : events' = Append(events, e)
    BY <1>18 DEF WPost, WGoto
  <2>2. QED
    BY <2>1, TaskKept
<1>19. QED
  BY <1>1, <1>2, <1>3, <1>4, <1>5, <1>6, <1>7, <1>8, <1>9, <1>10, <1>11, <1>12,
     <1>13, <1>14, <1>15, <1>16, <1>17, <1>18
     DEF Next, UIEvent, UICall, Worker

(* The task sent to the UI thread runs only while the worker waits for it.    *)
THEOREM UITaskRunsAlive == Spec => []UITaskAlive
<1>1. Init => TaskInv
  BY DEF Init, TaskInv
<1>2. IInv /\ TaskInv /\ [Next]_vars => TaskInv'
  BY TaskStep DEF IInv
<1>3. IInv /\ TaskInv => UITaskAlive
  <2>1. SUFFICES ASSUME IInv, TaskInv, upc = "task"
                 PROVE  wpc = "task_wait" /\ uiTask = Head(events).ctx
    BY DEF UITaskAlive
  <2>2. events # <<>> /\ Head(events).type = "task" /\ ctx[Head(events).ctx] = "Planned"
    BY <2>1 DEF IInv, CallInv, TaskInv
  <2>3. Head(events).ctx \in Ctx
    BY <2>1, <2>2 DEF TaskInv, IInv, TypeOK
  <2>4. QED
    BY <2>1, <2>2, <2>3 DEF TaskInv
<1>4. QED
  BY Invariance, <1>1, <1>2, <1>3, PTL DEF Spec

-----------------------------------------------------------------------------
(* Results. *)
Announced == \E i \in 1..Len(events) : events[i] \in {Completed, Cancelled}
Ended     == state \in {"FINISHED", "CANCELED"}
InStop    == todo # <<>> /\ Head(todo) = "stop"

LEMMA AnnouncedKept ==
    ASSUME TypeOK, Announced,
           \/ events' = events
           \/ \E e : events' = Append(events, e)
           \/ events # <<>> /\ events' = Tail(events) /\ Head(events).type = "task"
    PROVE  Announced'
<1>1. PICK i \in 1..Len(events) : events[i] \in {Completed, Cancelled}
  BY DEF Announced
<1>2. CASE events' = events
  BY <1>2 DEF Announced
<1>3. ASSUME NEW e, events' = Append(events, e) PROVE Announced'
  <2>1. i \in 1..Len(events') /\ events'[i] = events[i]
    BY <1>1, <1>3, AppendEvent
  <2>2. QED
    BY <1>1, <2>1 DEF Announced, Completed, Cancelled
<1>4. CASE events # <<>> /\ events' = Tail(events) /\ Head(events).type = "task"
  <2>1. i # 1
    <3>1. Completed.type # "task" /\ Cancelled.type # "task"
      BY DEF Completed, Cancelled
    <3>2. Head(events) = events[1]
      BY <1>4, TailEvent
    <3>3. QED
      BY <1>1, <1>4, <3>1, <3>2
  <2>2. i - 1 \in 1..Len(events') /\ events'[i - 1] = events[i]
    BY <1>1, <1>4, <2>1, TailEvent
  <2>3. QED
    BY <1>1, <2>2 DEF Announced, Completed, Cancelled
<1>5. QED
  BY <1>2, <1>3, <1>4

(* Steps that neither end a run nor consume its result.                       *)
LEMMA AnnounceKept ==
    ASSUME TypeOK, AnnounceInv, Ended' => Ended,
           \/ events' = events
           \/ \E e : events' = Append(events, e)
           \/ events # <<>> /\ events' = Tail(events) /\ Head(events).type = "task",
           upc \in {"si_wait", "si_relock"} /\ Ended' => upc' \in {"si_wait", "si_relock"},
           InStop /\ Ended' => InStop'
    PROVE  AnnounceInv'
BY AnnouncedKept DEF AnnounceInv, Announced, Ended, InStop

(* Only the worker ends a run; unless it announces the result, stop_internal()*)
(* waits for it.                                                              *)
LEMMA AnnounceStep ==
    ASSUME TypeOK, CallInv, StateInv, CancelInv, AnnounceInv, [Next]_vars
    PROVE  AnnounceInv'
<1> USE DEF Ended, InStop, bsp, cancel, print, task, export, worker, control, locals,
            sync, data, vars
<1>1. CASE (\E h \in Handlers : UserAction(h)) \/ UITaskBegin
  BY <1>1, AnnounceKept DEF UserAction, EventLoop, UITaskBegin, Goto
<1>2. CASE OnProcessCompleted
  BY <1>2 DEF OnProcessCompleted, AnnounceInv
<1>3. CASE UITaskDropped \/ UITaskEnd
  BY <1>3, AnnounceKept DEF UITaskDropped, EventLoop, UITaskEnd, Goto, CallInv
<1>4. CASE RestartRefused \/ RestartAccepted
  BY <1>4, AnnounceKept DEF RestartRefused, RestartAccepted, Return, Goto, Calls, StartOps
<1>5. CASE StartLock \/ StartThread \/ StartWait \/ StartAlreadyRunning \/
           StartIdle \/ StartNotify
  BY <1>5, AnnounceKept
     DEF StartLock, Goto, Calls, StartOps, StartThread, StartWait,
         StartAlreadyRunning, Return, StartIdle, StartNotify, CallInv, StartPcs
<1>6. CASE StopLock \/ StopRunning
  BY <1>6, AnnounceKept DEF StopLock, Goto, Calls, StopRunning
<1>7. CASE StopWait
  BY <1>7, AnnounceKept DEF StopWait, Goto
<1>8. CASE StopNotRunning
  BY <1>8 DEF StopNotRunning, AnnounceInv
<1>9. CASE CancelCallback \/ SiCheck \/ SiLock \/ SiRunning
  BY <1>9, AnnounceKept
     DEF CancelCallback, Goto, StopInternalReturn, SiCheck, SiLock, SiRunning
<1>10. CASE SiNotRunning \/ SiRelock
  BY <1>10 DEF SiNotRunning, SiRelock, AnnounceInv
<1>11. CASE SiWait
  BY <1>11, AnnounceKept DEF SiWait, Goto
<1>12. CASE (\E k \in 0..LastStep : ApplyLock(k)) \/ ApplyInvalidate \/
            ApplyInvalidated \/ ApplyWrite
  BY <1>12, AnnounceKept
     DEF ApplyLock, Goto, Calls, CallStopInternal, ApplyInvalidate,
         ApplyInvalidated, ApplyWrite
<1>13. ASSUME NEW r \in {"none", "restart", "invalid"}, ApplyUnlock(r) PROVE AnnounceInv'
  <2>1. /\ upc = "ap_unlock" /\ Head(todo) = "apply" /\ UNCHANGED state
        /\ events' = events \/ \E e : events' = Append(events, e)
    BY <1>13 DEF ApplyUnlock, CallInv, Caller, SiPcs
  <2>2. QED
    BY <2>1, AnnounceKept
<1>14. CASE (\E n \in PrintSteps : SetTaskLock(n)) \/ SetTaskInvalid \/
            SetTaskEnable
  BY <1>14, AnnounceKept
     DEF SetTaskLock, Goto, Calls, CallStopInternal, SetTaskInvalid,
         SetTaskEnable, Return, CallInv, Caller, SiPcs
<1>15. CASE ScheduleInvalid \/ ScheduleLock \/ ScheduleSet \/ ResetExport \/
            ResetExportLock \/ ResetExportUnlock
  BY <1>15, AnnounceKept
     DEF ScheduleInvalid, Calls, ScheduleOps, ScheduleLock, Goto, StopInternal,
         InvalidateFinalize, ScheduleSet, Return, ResetExport, ResetExportLock,
         ResetExportUnlock, CallInv, Caller, SiPcs
<1>16. CASE ClearLock \/ ClearObjects \/ InvalidateAllSteps \/ InvalidatedAllSteps
  BY <1>16, AnnounceKept
     DEF ClearLock, Goto, Calls, CallStopInternal, ClearObjects, Return,
         InvalidateAllSteps, StopInternal, InvalidateFinalize,
         InvalidatedAllSteps, CallInv, Caller, SiPcs
<1>17. CASE Join \/ JoinNotify \/ JoinThread
  BY <1>17, AnnounceKept DEF Join, Goto, Calls, JoinNotify, JoinThread
<1>18. CASE WPost
  <2>1. CASE cancelStatus # "CANCELED_INTERNAL"
    <3>1. PICK e \in {Completed, Cancelled} : events' = Append(events, e)
      BY <1>18, <2>1 DEF WPost
    <3>2. Len(events) + 1 \in 1..Len(events') /\ events'[Len(events) + 1] = e
      BY <3>1, AppendEvent
    <3>3. Announced'
      BY <3>1, <3>2 DEF Announced, Completed, Cancelled
    <3>4. QED
      BY <3>3 DEF AnnounceInv, Announced
  <2>2. CASE cancelStatus = "CANCELED_INTERNAL"
    <3>1. upc \in {"stop_wait", "si_wait"} /\ UNCHANGED <<upc, todo>>
      BY <1>18, <2>2 DEF WPost, CancelInv, Canceled
    <3>2. QED
      BY <3>1 DEF AnnounceInv, CallInv, StopPcs
  <2>3. QED
    BY <2>1, <2>2
<1>19. CASE WInit \/ WNotify \/ WWait \/ WEnterSkip \/ WEnterCanceled \/ WEnter
  BY <1>19, AnnounceKept
     DEF WInit, WNotify, WWait, WEnterSkip, WEnterCanceled, WEnter
<1>20. CASE WCompute \/ WThrow \/ (\E c \in Ctx : WPlanTask(c)) \/ WSkipTask \/
            WTaskWait \/ WDone
  BY <1>20, AnnounceKept DEF WCompute, WThrow, WPlanTask, WSkipTask, WTaskWait, WDone
<1>21. CASE WFinalize \/ WCleanup \/ WRestart \/ SpuriousWake \/ Terminated \/ UNCHANGED vars
  BY <1>21, AnnounceKept DEF WFinalize, WCleanup, WRestart, SpuriousWake, Terminated
<1>22. QED
  BY <1>1, <1>2, <1>3, <1>4, <1>5, <1>6, <1>7, <1>8, <1>9, <1>10, <1>11, <1>12,
     <1>13, <1>14, <1>15, <1>16, <1>17, <1>18, <1>19, <1>20, <1>21
     DEF Next, UIEvent, UICall, Worker

(* Whenever the UI thread is back in its event loop, the end of a run is       *)
(* announced by an event, so that the process does not count as running for    *)
(* ever.                                                                       *)
THEOREM ResultIsAnnounced == Spec => []ResultAnnounced
<1>1. Init => AnnounceInv
  BY DEF Init, AnnounceInv
<1>2. IInv /\ AnnounceInv /\ [Next]_vars => AnnounceInv'
  BY AnnounceStep DEF IInv
<1>3. AnnounceInv => ResultAnnounced
  BY DEF AnnounceInv, ResultAnnounced, EventLoop
<1>4. QED
  BY Invariance, <1>1, <1>2, <1>3, PTL DEF Spec

-----------------------------------------------------------------------------
(* The destination of an export. *)

(* A step outside of the scheduling call, or one that leaves the finalize     *)
(* milestone as it is, or clears it.                                          *)
LEMMA DestKept ==
    ASSUME DestInv, Caller' = "sched_set" => Caller = "sched_set",
           Entered(step'[FinalizeStep]) => Entered(step[FinalizeStep])
    PROVE  DestInv'
BY DEF DestInv, Entered

(* A worker may enter or finish a milestone only while no scheduling call has *)
(* the state mutex, and it is canceled when stop_internal() gives it back.    *)
LEMMA NoEntryUnderDest ==
    ASSUME TypeOK, StateInv, MutexInv, CancelInv, smutex = "none",
           wpc \in RunPcs, ~Canceled
    PROVE  Caller # "sched_set"
<1>1. SUFFICES ASSUME Caller = "sched_set" PROVE FALSE
  OBVIOUS
<1>2. state = "RUNNING"
  BY DEF StateInv
<1>3. upc # "sched_set"
  BY DEF MutexInv
<1>4. upc \in SiPcs /\ uret = "sched_set"
  BY <1>1, <1>3 DEF Caller
<1>5. upc \in {"si_wait", "si_relock"}
  BY <1>4 DEF MutexInv
<1>6. QED
  BY <1>2, <1>5 DEF CancelInv

LEMMA DestStep ==
    ASSUME TypeOK, StateInv, MutexInv, CancelInv, DestInv, [Next]_vars
    PROVE  DestInv'
<1> USE Steps DEF Caller, SiPcs, bsp, cancel, print, task, export, worker, control,
            locals, sync, data, vars
<1>1. CASE (\E h \in Handlers : UserAction(h)) \/ OnProcessCompleted \/
           UITaskBegin \/ UITaskDropped \/ UITaskEnd
  BY <1>1, DestKept
     DEF UserAction, EventLoop, OnProcessCompleted, UITaskBegin, Goto,
         UITaskDropped, UITaskEnd
<1>2. CASE RestartRefused \/ RestartAccepted \/ StartLock \/ StartThread \/
           StartWait \/ StartAlreadyRunning \/ StartIdle \/ StartNotify
  BY <1>2, DestKept
     DEF RestartRefused, Return, Calls, StartOps, RestartAccepted, Goto,
         StartLock, StartThread, StartWait, StartAlreadyRunning, StartIdle, StartNotify
<1>3. CASE StopLock \/ StopRunning \/ StopWait \/ StopNotRunning
  BY <1>3, DestKept DEF StopLock, Goto, Calls, StopRunning, StopWait, Return, StopNotRunning
<1>4. CASE CancelCallback \/ SiCheck \/ SiNotRunning \/ SiRelock
  BY <1>4, DestKept
     DEF CancelCallback, Goto, StopInternalReturn, SiCheck, SiNotRunning, SiRelock,
         TypeOK, Returns
<1>5. CASE SiLock \/ SiRunning \/ SiWait
  BY <1>5, DestKept DEF SiLock, Goto, SiRunning, SiWait
<1>6. CASE (\E k \in 0..LastStep : ApplyLock(k)) \/ ApplyInvalidated \/
           (\E r \in {"none", "restart", "invalid"} : ApplyUnlock(r))
  BY <1>6, DestKept
     DEF ApplyLock, Goto, Calls, CallStopInternal, ApplyInvalidated, ApplyUnlock, Return
<1>7. CASE ApplyInvalidate
  <2>1. Caller' # "sched_set"
    BY <1>7 DEF ApplyInvalidate, CallStopInternal, Goto
  <2>2. QED
    BY <2>1 DEF DestInv
<1>8. CASE ApplyWrite \/ ClearLock \/ ClearObjects \/ InvalidateAllSteps \/ ResetExportLock
  <2>1. Caller' # "sched_set"
    BY <1>8
       DEF ApplyWrite, ClearLock, Calls, CallStopInternal, ClearObjects, Return,
           InvalidateAllSteps, StopInternal, InvalidateFinalize, ResetExportLock, Goto
  <2>2. QED
    BY <2>1 DEF DestInv
<1>9. CASE (\E n \in PrintSteps : SetTaskLock(n)) \/ SetTaskInvalid \/ SetTaskEnable
  BY <1>9, DestKept
     DEF SetTaskLock, Goto, Calls, CallStopInternal, SetTaskInvalid, SetTaskEnable, Return
<1>10. CASE ScheduleLock
  <2>1. step' = [step EXCEPT ![FinalizeStep] = TryInvalidate(@)]
    BY <1>10 DEF ScheduleLock, InvalidateFinalize
  <2>2. ~Entered(step'[FinalizeStep])
    BY <2>1 DEF TypeOK, StepState, TryInvalidate, Entered
  <2>3. QED
    BY <2>2 DEF DestInv, Entered
<1>11. CASE ScheduleInvalid \/ ScheduleSet \/ ResetExport \/ ResetExportUnlock
  BY <1>11, DestKept
     DEF ScheduleInvalid, Calls, ScheduleOps, ScheduleSet, Return, ResetExport,
         Goto, ResetExportUnlock
<1>12. CASE InvalidatedAllSteps \/ Join \/ JoinNotify \/ JoinThread
  BY <1>12, DestKept
     DEF InvalidatedAllSteps, Return, Join, Goto, Calls, JoinNotify, JoinThread
<1>13. CASE WEnter \/ WDone
  <2>1. smutex = "none" /\ wpc \in RunPcs /\ UNCHANGED <<upc, uret>>
    BY <1>13 DEF WEnter, WDone, RunPcs
  <2>2. CASE Canceled
    <3>1. UNCHANGED step
      BY <1>13, <2>2 DEF WEnter, WDone
    <3>2. QED
      BY <2>1, <3>1, DestKept
  <2>3. CASE ~Canceled
    BY <2>1, <2>3, NoEntryUnderDest DEF DestInv
  <2>4. QED
    BY <2>2, <2>3
<1>14. CASE WInit \/ WNotify \/ WWait \/ WEnterSkip \/ WEnterCanceled
  BY <1>14, DestKept DEF WInit, WNotify, WWait, WEnterSkip, WEnterCanceled
<1>15. CASE WCompute \/ WThrow \/ (\E c \in Ctx : WPlanTask(c)) \/ WSkipTask \/ WTaskWait
  BY <1>15, DestKept DEF WCompute, WThrow, WPlanTask, WSkipTask, WTaskWait
<1>16. CASE WFinalize \/ WCleanup
  <2>1. UNCHANGED <<upc, uret>> /\ Entered(step'[FinalizeStep]) => Entered(step[FinalizeStep])
    BY <1>16 DEF WFinalize, WCleanup, MarkCanceled, QueryResetDirty, Entered
  <2>2. QED
    BY <1>16, <2>1, DestKept DEF WFinalize, WCleanup
<1>17. CASE WPost \/ WRestart \/ SpuriousWake \/ Terminated \/ UNCHANGED vars
  BY <1>17, DestKept DEF WPost, WRestart, SpuriousWake, Terminated
<1>18. QED
  BY <1>1, <1>2, <1>3, <1>4, <1>5, <1>6, <1>7, <1>8, <1>9, <1>10, <1>11, <1>12,
     <1>13, <1>14, <1>15, <1>16, <1>17
     DEF Next, UIEvent, UICall, Worker

(* Only two calls of the UI thread change the destination. *)
LEMMA DestinationChanges ==
    ASSUME [Next]_vars
    PROVE  /\ exportPath' # exportPath => upc = "sched_set" \/ ~Running
           /\ uploadJob' # uploadJob =>
                upc = "sched_set" \/ (wpc = "compute" /\ wpc' # "compute")
<1> DEFINE Changes == /\ exportPath' # exportPath => upc = "sched_set" \/ ~Running
                      /\ uploadJob' # uploadJob =>
                           upc = "sched_set" \/ (wpc = "compute" /\ wpc' # "compute")
<1> USE DEF bsp, cancel, print, task, export, worker, control, locals, sync, data, vars
<1>1. CASE (\E h \in Handlers : UserAction(h)) \/ UIEvent
  BY <1>1 DEF UserAction, UIEvent, OnProcessCompleted, UITaskBegin, UITaskDropped, UITaskEnd
<1>2. CASE ScheduleSet \/ ResetExport
  BY <1>2 DEF ScheduleSet, ResetExport
<1>3. CASE UICall /\ ~ScheduleSet /\ ~ResetExport
  <2>1. UNCHANGED <<exportPath, uploadJob>>
    BY <1>3
       DEF UICall, RestartRefused, RestartAccepted, StartLock, StartThread, StartWait,
           StartAlreadyRunning, StartIdle, StartNotify, StopLock, StopRunning,
           StopWait, StopNotRunning, CancelCallback, SiCheck, SiLock, SiRunning,
           SiNotRunning, SiWait, SiRelock, ApplyLock, ApplyInvalidate,
           ApplyInvalidated, ApplyWrite, ApplyUnlock, SetTaskLock, SetTaskInvalid,
           SetTaskEnable, ScheduleInvalid, ScheduleLock, ResetExportLock,
           ResetExportUnlock, ClearLock, ClearObjects, InvalidateAllSteps,
           InvalidatedAllSteps, Join, JoinNotify, JoinThread
  <2>2. QED
    BY <2>1
<1>4. CASE WCompute
  BY <1>4 DEF WCompute, WGoto
<1>5. CASE Worker /\ ~WCompute
  <2>1. UNCHANGED <<exportPath, uploadJob>>
    BY <1>5
       DEF Worker, WInit, WNotify, WWait, WEnterSkip, WEnterCanceled, WEnter,
           WThrow, WPlanTask, WSkipTask, WTaskWait, WDone, WFinalize, WPost,
           WCleanup, WRestart
  <2>2. QED
    BY <2>1
<1>6. CASE SpuriousWake \/ Terminated \/ UNCHANGED vars
  BY <1>6 DEF SpuriousWake, Terminated
<1>7. QED
  BY <1>1, <1>2, <1>3, <1>4, <1>5, <1>6 DEF Next

(* The destination does not change under a worker that is exporting to it.    *)
THEOREM DestinationIsStable == Spec => DestinationStable
<1>1. Init => DestInv
  BY DEF Init, DestInv, Caller, SiPcs
<1>2. IInv /\ DestInv /\ [Next]_vars => DestInv'
  BY DestStep DEF IInv
<1> DEFINE Kept == Inside(FinalizeStep) => exportPath' = exportPath
                                /\ (uploadJob' # uploadJob => wpc' # wpc)
<1>3. ASSUME IInv, DestInv, [Next]_vars PROVE Kept
  <2>1. SUFFICES ASSUME Inside(FinalizeStep) PROVE upc # "sched_set" /\ Running
    BY <1>3, DestinationChanges
  <2>2. wpc \in InsidePcs /\ wstep = FinalizeStep
    BY <2>1 DEF Inside, InsidePcs
  <2>3. Running
    BY <1>3, <2>2 DEF IInv, StateInv, InsidePcs, RunPcs, Running
  <2>4. upc = "sched_set" => step[wstep] # "Started"
    BY <1>3, <2>2 DEF DestInv, Caller, SiPcs, Entered
  <2>5. QED
    BY <1>3, <2>2, <2>3, <2>4 DEF IInv, StepInv, SiPcs
<1>4. IInv /\ DestInv /\ [Next]_vars => [Kept]_vars
  BY <1>3
<1>5. QED
  BY Invariance, <1>1, <1>2, <1>4, PTL DEF Spec, DestinationStable

-----------------------------------------------------------------------------
(* The order of the milestones. *)

(* Most steps move neither the worker nor a milestone that is Done.           *)
LEMMA OrderKept ==
    ASSUME OrderInv,
           Working' /\ Undisturbed' => Working /\ Undisturbed,
           Working' /\ Undisturbed' => UNCHANGED <<wstep, enabled>>,
           Working' /\ Undisturbed' =>
               \A t \in PrintSteps : step[t] = "Done" => step'[t] = "Done"
    PROVE  OrderInv'
BY DEF OrderInv, Ordered

(* A run that is going on is undisturbed only if stop_internal() is not done   *)
(* with it: it returns to its caller over a process that does not run.         *)
LEMMA ReturnOverStopped ==
    ASSUME TypeOK, StateInv, CancelInv,
           \/ CancelCallback /\ upc' = uret
           \/ SiCheck /\ upc' = uret
           \/ SiNotRunning \/ SiRelock
    PROVE  Quiet' /\ wpc' = wpc /\ wpc \notin RunPcs
<1> USE DEF bsp, cancel, print, task, export, worker, control, locals, sync, data, vars,
            Quiet, Goto, StopInternalReturn
<1>1. CASE CancelCallback /\ upc' = uret
  <2>1. ~cancelCb /\ UNCHANGED <<state, wpc>> /\ upc = "si_call"
    BY <1>1 DEF CancelCallback, TypeOK, Returns
  <2>2. state \in {"INITIAL", "IDLE"}
    BY <2>1 DEF StateInv, Running, TypeOK, JoinPcs
  <2>3. QED
    BY <2>1, <2>2 DEF StateInv
<1>2. CASE SiCheck /\ upc' = uret
  BY <1>2 DEF SiCheck, TypeOK, Returns, StateInv
<1>3. CASE SiNotRunning
  BY <1>3 DEF SiNotRunning, StateInv
<1>4. CASE SiRelock
  BY <1>4 DEF SiRelock, CancelInv, StateInv
<1>5. QED
  BY <1>1, <1>2, <1>3, <1>4

(* The milestones before the one the worker is at are Done or disabled.       *)
LEMMA OrderStep ==
    ASSUME TypeOK, CallInv, QuietInv, StateInv, MutexInv, CancelInv, ApplyInv,
           OrderInv, TargetInv, [Next]_vars
    PROVE  OrderInv'
<1> USE Steps DEF SiHeld, Canceled, Working, Undisturbed, bsp, cancel, print, task,
            export, worker, control, locals, sync, data, vars
<1>1. CASE (\E h \in Handlers : UserAction(h)) \/ OnProcessCompleted \/
           UITaskBegin \/ UITaskDropped \/ UITaskEnd
  BY <1>1, OrderKept
     DEF UserAction, EventLoop, OnProcessCompleted, UITaskBegin, Goto,
         UITaskDropped, UITaskEnd
<1>2. CASE RestartRefused \/ RestartAccepted \/ StartLock \/ StartThread \/
           StartWait \/ StartAlreadyRunning \/ StartIdle \/ StartNotify
  BY <1>2, OrderKept
     DEF RestartRefused, Return, Calls, StartOps, RestartAccepted, Goto, InsidePcs,
         StartLock, StartThread, StartWait, StartAlreadyRunning, StartIdle, StartNotify
<1>3. CASE StopLock \/ StopRunning \/ StopWait \/ StopNotRunning
  BY <1>3, OrderKept DEF StopLock, Goto, Calls, StopRunning, StopWait, Return, StopNotRunning
<1>4. CASE CancelCallback \/ SiCheck \/ SiNotRunning \/ SiRelock
  <2>1. CASE upc' \in SiHeld
    BY <1>4, <2>1 DEF OrderInv
  <2>2. CASE upc' \notin SiHeld
    <3>1. \/ CancelCallback /\ upc' = uret
          \/ SiCheck /\ upc' = uret
          \/ SiNotRunning \/ SiRelock
      BY <1>4, <2>2 DEF CancelCallback, SiCheck, Goto, StopInternalReturn
    <3>2. QED
      BY <3>1, ReturnOverStopped DEF OrderInv, RunPcs, InsidePcs
  <2>3. QED
    BY <2>1, <2>2
<1>5. CASE SiLock \/ SiRunning \/ SiWait
  BY <1>5, OrderKept DEF SiLock, Goto, SiRunning, SiWait
<1>6. CASE (\E k \in 0..LastStep : ApplyLock(k)) \/ ApplyInvalidated \/
           (\E r \in {"none", "restart", "invalid"} : ApplyUnlock(r))
  BY <1>6, OrderKept
     DEF ApplyLock, Goto, Calls, CallStopInternal, ApplyInvalidated, ApplyUnlock, Return
<1>7. CASE ApplyInvalidate
  <2>1. /\ upc = "ap_inv" /\ UNCHANGED <<wpc, wstep, cancelStatus, enabled>>
        /\ step' = [step EXCEPT ![inv] = TryInvalidate(@)]
        /\ Entered(step[inv]) => upc' = "si_call"
    BY <1>7 DEF ApplyInvalidate, CallStopInternal, Goto
  <2>2. CASE Entered(step[inv])
    BY <2>1, <2>2 DEF OrderInv
  <2>3. CASE ~Entered(step[inv])
    <3>1. \A t \in PrintSteps : step[t] = "Done" => step'[t] = "Done"
      BY <2>1, <2>3 DEF TypeOK, Entered
    <3>2. QED
      BY <2>1, <3>1, OrderKept
  <2>4. QED
    BY <2>2, <2>3
<1>8. CASE ApplyWrite
  <2>1. \A t \in PrintSteps : step[t] = "Done" => step'[t] = "Done"
    BY <1>8 DEF ApplyWrite, QueryResetDirty, IsDirty
  <2>2. QED
    BY <1>8, <2>1, OrderKept DEF ApplyWrite, Goto
<1>9. CASE (\E n \in PrintSteps : SetTaskLock(n)) \/ SetTaskInvalid
  BY <1>9, OrderKept DEF SetTaskLock, Goto, Calls, CallStopInternal, SetTaskInvalid
<1>10. CASE SetTaskEnable
  <2>1. /\ upc = "task_set" /\ UNCHANGED <<wpc, wstep, cancelStatus, step, state>>
        /\ enabled' = [s \in PrintSteps |->
                          IF s \in ObjectSteps THEN s <= inv
                                               ELSE inv = LastStep /\ enabled[s]]
    BY <1>10 DEF SetTaskEnable
  <2>2. CASE Quiet \/ wpc = "finalize"
    BY <2>1, <2>2 DEF OrderInv, Quiet, StateInv, RunPcs, InsidePcs
  <2>3. CASE TaskRunning
    <3>1. \A t \in PrintSteps : t < wstep => enabled[t]
      BY <2>3 DEF TaskRunning, ObjectSteps, PrintSteps
    <3>2. QED
      BY <2>1, <3>1 DEF OrderInv, Ordered
  <2>4. QED
    BY <2>1, <2>2, <2>3 DEF TargetInv
<1>11. CASE ScheduleLock \/ ResetExportLock \/ InvalidateAllSteps
  <2>1. /\ step' = [step EXCEPT ![FinalizeStep] = TryInvalidate(@)]
        /\ UNCHANGED <<wpc, wstep, cancelStatus, enabled>> /\ upc \notin SiHeld
    BY <1>11
       DEF ScheduleLock, ResetExportLock, InvalidateAllSteps, InvalidateFinalize, Calls
  <2>2. \A t \in PrintSteps : step[t] = "Done" => step'[t] = "Done"
    BY <2>1 DEF TypeOK
  <2>3. QED
    BY <2>1, <2>2, OrderKept
<1>12. CASE ScheduleInvalid \/ ScheduleSet \/ ResetExport \/ ResetExportUnlock
  BY <1>12, OrderKept
     DEF ScheduleInvalid, Calls, ScheduleOps, ScheduleSet, Return, ResetExport,
         Goto, ResetExportUnlock
<1>13. CASE ClearLock \/ ClearObjects
  <2>1. Quiet /\ UNCHANGED <<wpc, state>>
    BY <1>13, HeadQuiet
       DEF ClearLock, ClearObjects, Calls, CallInv, Caller, SiPcs, QuietOps, JoinPcs
  <2>2. QED
    BY <2>1 DEF OrderInv, Quiet, StateInv, RunPcs, InsidePcs
<1>14. CASE InvalidatedAllSteps \/ Join \/ JoinNotify \/ JoinThread
  BY <1>14, OrderKept
     DEF InvalidatedAllSteps, Return, Join, Goto, Calls, JoinNotify, JoinThread
<1>15. CASE WInit \/ WNotify \/ WEnterCanceled
  BY <1>15, OrderKept DEF WInit, WNotify, WEnterCanceled, WGoto, InsidePcs
<1>16. CASE WWait
  <2>1. Working' => Working \/ wstep' = 1
    BY <1>16 DEF WWait, WGoto, InsidePcs
  <2>2. CASE wstep' = 1
    BY <2>2 DEF OrderInv, Ordered, PrintSteps
  <2>3. QED
    BY <1>16, <2>1, <2>2, OrderKept DEF WWait, WGoto, InsidePcs
<1>17. CASE WEnterSkip
  <2>1. /\ wpc = "enter" /\ Skipped(wstep) /\ UNCHANGED <<cancelStatus, upc, step, enabled>>
        /\ Working' => wstep' = wstep + 1
    BY <1>17 DEF WEnterSkip, NextStep, WGoto, InsidePcs
  <2>2. \A t \in PrintSteps : t < wstep + 1 => t < wstep \/ t = wstep
    BY DEF TypeOK, PrintSteps, AllSteps
  <2>3. QED
    BY <2>1, <2>2 DEF OrderInv, Ordered, Skipped, StepEnabled
<1>18. CASE WEnter
  <2>1. /\ Working /\ UNCHANGED <<wstep, enabled, cancelStatus, upc>>
        /\ step' = [step EXCEPT ![wstep] = "Started"]
    BY <1>18 DEF WEnter, WGoto
  <2>2. \A t \in PrintSteps : t < wstep => step'[t] = step[t]
    BY <2>1 DEF TypeOK, PrintSteps, AllSteps
  <2>3. QED
    BY <2>1, <2>2 DEF OrderInv, Ordered
<1>19. CASE WDone
  <2>1. CASE Canceled
    BY <1>19, <2>1, OrderKept DEF WDone, WGoto, InsidePcs
  <2>2. CASE ~Canceled
    <3>1. /\ Working /\ UNCHANGED <<cancelStatus, upc, enabled>>
          /\ Working' => wstep' = wstep + 1
          /\ step' = [step EXCEPT ![wstep] = "Done"]
      BY <1>19, <2>2 DEF WDone, NextStep, WGoto, InsidePcs
    <3>2. \A t \in PrintSteps : t < wstep + 1 => t < wstep \/ t = wstep
      BY DEF TypeOK, PrintSteps, AllSteps
    <3>3. \A t \in PrintSteps : step'[t] = step[t] \/ step'[t] = "Done"
      BY <3>1 DEF TypeOK
    <3>4. wstep \in PrintSteps => step'[wstep] = "Done"
      BY <3>1 DEF TypeOK
    <3>5. QED
      BY <3>1, <3>2, <3>3, <3>4 DEF OrderInv, Ordered
  <2>3. QED
    BY <2>1, <2>2
<1>20. CASE WCompute \/ WThrow \/ (\E c \in Ctx : WPlanTask(c)) \/ WSkipTask \/ WTaskWait
  BY <1>20, OrderKept DEF WCompute, WThrow, WPlanTask, WSkipTask, WTaskWait, WGoto, InsidePcs
<1>21. CASE WFinalize \/ WCleanup \/ WPost \/ WRestart
  BY <1>21 DEF OrderInv, WFinalize, WCleanup, WPost, WRestart, WGoto, InsidePcs
<1>22. CASE SpuriousWake \/ Terminated \/ UNCHANGED vars
  BY <1>22, OrderKept DEF SpuriousWake, Terminated
<1>23. QED
  BY <1>1, <1>2, <1>3, <1>4, <1>5, <1>6, <1>7, <1>8, <1>9, <1>10, <1>11, <1>12,
     <1>13, <1>14, <1>15, <1>16, <1>17, <1>18, <1>19, <1>20, <1>21, <1>22
     DEF Next, UIEvent, UICall, Worker

(* set_task() holds state_mutex, so the worker stays in the milestone in which*)
(* set_task() found it, or is thrown out of it.                               *)
LEMMA TargetStep ==
    ASSUME TypeOK, StateInv, MutexInv, CancelInv, StepInv, TargetInv, [Next]_vars
    PROVE  TargetInv'
<1> USE Steps DEF bsp, cancel, print, task, export, worker, control, locals, sync, data, vars
<1>1. CASE (\E h \in Handlers : UserAction(h)) \/ UIEvent \/ RestartRefused \/
           RestartAccepted \/ StartLock \/ StartThread \/ StartWait \/
           StartAlreadyRunning \/ StartIdle \/ StartNotify
  BY <1>1
     DEF TargetInv, UserAction, UIEvent, EventLoop, OnProcessCompleted, UITaskBegin,
         UITaskDropped, UITaskEnd, Goto, RestartRefused, Return, RestartAccepted,
         StartLock, StartThread, StartWait, StartAlreadyRunning, StartIdle, StartNotify
<1>2. CASE StopLock \/ StopRunning \/ StopWait \/ StopNotRunning \/ SiLock \/
           SiRunning \/ SiWait
  BY <1>2
     DEF TargetInv, StopLock, Goto, StopRunning, StopWait, Return, StopNotRunning,
         SiLock, SiRunning, SiWait
<1>3. CASE CancelCallback \/ SiCheck \/ SiNotRunning \/ SiRelock
  <2>1. CASE upc' = "task_set"
    <3>1. \/ CancelCallback /\ upc' = uret
          \/ SiCheck /\ upc' = uret
          \/ SiNotRunning \/ SiRelock
      BY <1>3, <2>1 DEF CancelCallback, SiCheck, Goto, StopInternalReturn
    <3>2. QED
      BY <3>1, ReturnOverStopped DEF TargetInv
  <2>2. QED
    BY <2>1 DEF TargetInv
<1>4. CASE (\E k \in 0..LastStep : ApplyLock(k)) \/ ApplyInvalidate \/
           ApplyInvalidated \/ ApplyWrite \/
           (\E r \in {"none", "restart", "invalid"} : ApplyUnlock(r))
  BY <1>4
     DEF TargetInv, ApplyLock, Goto, CallStopInternal, ApplyInvalidate,
         ApplyInvalidated, ApplyWrite, ApplyUnlock, Return
<1>5. ASSUME NEW n \in PrintSteps, SetTaskLock(n) PROVE TargetInv'
  <2>1. /\ UNCHANGED <<wpc, wstep, enabled>> /\ inv' = n
        /\ upc' = "task_set" =>
             \E s \in ObjectSteps : /\ s <= n /\ step[s] = "Started"
                                    /\ \A t \in 1..s : enabled[t]
    BY <1>5 DEF SetTaskLock, CallStopInternal, Goto
  <2>2. ASSUME NEW s \in ObjectSteps, s <= n, step[s] = "Started", \A t \in 1..s : enabled[t]
        PROVE  wpc = "finalize" \/ TaskRunning'
    BY <2>1, <2>2 DEF StepInv, TaskRunning
  <2>3. QED
    BY <2>1, <2>2 DEF TargetInv
<1>6. CASE SetTaskInvalid \/ SetTaskEnable \/ ScheduleInvalid \/ ScheduleLock \/
           ScheduleSet \/ ResetExport \/ ResetExportLock \/ ResetExportUnlock
  BY <1>6
     DEF TargetInv, SetTaskInvalid, Calls, SetTaskEnable, Return, ScheduleInvalid,
         ScheduleOps, ScheduleLock, Goto, StopInternal, InvalidateFinalize,
         ScheduleSet, ResetExport, ResetExportLock, ResetExportUnlock
<1>7. CASE ClearLock \/ ClearObjects \/ InvalidateAllSteps \/ InvalidatedAllSteps \/
           Join \/ JoinNotify \/ JoinThread
  BY <1>7
     DEF TargetInv, ClearLock, Goto, Calls, CallStopInternal, ClearObjects, Return,
         InvalidateAllSteps, StopInternal, InvalidateFinalize,
         InvalidatedAllSteps, Join, JoinNotify, JoinThread
<1>8. CASE Worker
  <2>1. SUFFICES ASSUME upc = "task_set" PROVE Quiet' \/ wpc' = "finalize" \/ TaskRunning'
    BY <1>8
       DEF TargetInv, Worker, WInit, WNotify, WWait, WEnterSkip, WEnterCanceled, WEnter,
           WCompute, WThrow, WPlanTask, WSkipTask, WTaskWait, WDone, WFinalize, WPost,
           WCleanup, WRestart
  <2>2. smutex = "ui"
    BY <2>1 DEF MutexInv
  <2>3. CASE Quiet
    <3>1. WInit \/ WNotify \/ WWait
      BY <1>8, <2>3 DEF StateInv, RunPcs, Quiet, Worker, WEnterSkip, WEnterCanceled, WEnter,
           WCompute, WThrow, WPlanTask, WSkipTask, WTaskWait, WDone, WFinalize, WPost,
           WCleanup, WRestart
    <3>2. QED
      BY <2>3, <3>1 DEF Quiet, WInit, WNotify, WWait
  <2>4. CASE wpc = "finalize"
    BY <1>8, <2>2, <2>4
       DEF Worker, WInit, WNotify, WWait, WEnterSkip, WEnterCanceled, WEnter,
           WCompute, WThrow, WPlanTask, WSkipTask, WTaskWait, WDone, WFinalize, WPost,
           WCleanup, WRestart
  <2>5. CASE TaskRunning
    <3>1. WCompute \/ WThrow \/ (\E c \in Ctx : WPlanTask(c)) \/ WSkipTask \/ WTaskWait
      BY <1>8, <2>2, <2>5
         DEF TaskRunning, InsidePcs, Worker, WInit, WNotify, WWait, WEnterSkip,
             WEnterCanceled, WEnter, WDone, WFinalize, WPost, WCleanup, WRestart
    <3>2. wpc' \in InsidePcs \cup {"finalize"} /\ UNCHANGED <<wstep, inv, enabled>>
      BY <3>1 DEF WCompute, WThrow, WPlanTask, WSkipTask, WTaskWait, WGoto, InsidePcs
    <3>3. QED
      BY <2>5, <3>2 DEF TaskRunning
  <2>6. QED
    BY <2>1, <2>3, <2>4, <2>5 DEF TargetInv
<1>9. CASE SpuriousWake \/ Terminated \/ UNCHANGED vars
  BY <1>9 DEF TargetInv, Quiet, TaskRunning, SpuriousWake, Terminated
<1>10. QED
  BY <1>1, <1>2, <1>3, <1>4, <1>5, <1>6, <1>7, <1>8, <1>9 DEF Next, UICall

-----------------------------------------------------------------------------
(* Programs in which single objects are not sliced alone. *)

LEMMA EnabledKept ==
    ASSUME EnabledInv,
           UNCHANGED enabled \/ \A s \in PrintSteps : enabled'[s],
           \/ UNCHANGED todo
           \/ todo' = <<>>
           \/ TypeOK /\ todo # <<>> /\ todo' = Tail(todo),
           Caller' = "task_set" => Caller = "task_set" /\ inv' = inv
    PROVE  EnabledInv'
<1>1. \A i \in 1..Len(todo') : \E j \in 1..Len(todo) : todo'[i] = todo[j]
  <2>1. CASE TypeOK /\ todo # <<>> /\ todo' = Tail(todo)
    <3>1. /\ Len(todo) \in Nat /\ Len(todo') = Len(todo) - 1
          /\ \A i \in 1..Len(todo') : todo'[i] = todo[i + 1]
      BY <2>1 DEF TypeOK
    <3>2. QED
      BY <3>1
  <2>2. QED
    BY <2>1
<1>2. QED
  BY <1>1 DEF EnabledInv

(* Without reslice_until() every set_task() is for all milestones.            *)
LEMMA EnabledStep ==
    ASSUME TypeOK, CallInv, EnabledInv, [Next]_vars
    PROVE  EnabledInv'
<1> USE Steps DEF Caller, SiPcs, bsp, cancel, print, task, export, worker, control,
            locals, sync, data, vars
<1>1. ASSUME NEW h \in Handlers, UserAction(h) PROVE EnabledInv'
  <2>1. /\ UNCHANGED enabled /\ todo' = Handler(h) /\ upc' = "ready"
    BY <1>1 DEF UserAction, EventLoop
  <2>2. h # "reslice_until" => \A i \in 1..Len(Handler(h)) : Handler(h)[i] # "set_task_until"
    BY InstanceAssumption DEF Handler, AllHandlers
  <2>3. QED
    BY <2>1, <2>2 DEF EnabledInv
<1>2. CASE OnProcessCompleted
  BY <1>2 DEF OnProcessCompleted, EventLoop, EnabledInv
<1>3. CASE UITaskBegin \/ UITaskDropped \/ UITaskEnd
  BY <1>3, EnabledKept DEF UITaskBegin, EventLoop, Goto, UITaskDropped, UITaskEnd
<1>4. CASE RestartRefused \/ RestartAccepted \/ StartLock \/ StartThread \/
           StartWait \/ StartAlreadyRunning \/ StartIdle \/ StartNotify
  BY <1>4, EnabledKept
     DEF RestartRefused, Return, Calls, StartOps, RestartAccepted, Goto, CallInv, StartPcs,
         StartLock, StartThread, StartWait, StartAlreadyRunning, StartIdle, StartNotify
<1>5. CASE StopLock \/ StopRunning \/ StopWait \/ StopNotRunning
  BY <1>5, EnabledKept
     DEF StopLock, Goto, Calls, StopRunning, StopWait, Return, StopNotRunning,
         CallInv, StopPcs
<1>6. CASE CancelCallback \/ SiCheck \/ SiNotRunning \/ SiRelock
  BY <1>6, EnabledKept
     DEF CancelCallback, Goto, StopInternalReturn, SiCheck, SiNotRunning, SiRelock,
         TypeOK, Returns
<1>7. CASE SiLock \/ SiRunning \/ SiWait
  BY <1>7, EnabledKept DEF SiLock, Goto, SiRunning, SiWait
<1>8. CASE (\E k \in 0..LastStep : ApplyLock(k)) \/ ApplyInvalidated \/
           (\E r \in {"none", "restart", "invalid"} : ApplyUnlock(r))
  BY <1>8, EnabledKept
     DEF ApplyLock, Goto, Calls, CallStopInternal, ApplyInvalidated, ApplyUnlock,
         Return, CallInv
<1>9. CASE ApplyInvalidate \/ ApplyWrite
  <2>1. UNCHANGED <<enabled, todo>> /\ Caller' # "task_set"
    BY <1>9 DEF ApplyInvalidate, CallStopInternal, ApplyWrite, Goto
  <2>2. QED
    BY <2>1, EnabledKept
<1>10. ASSUME NEW n \in PrintSteps, SetTaskLock(n) PROVE EnabledInv'
  <2>1. /\ UNCHANGED <<enabled, todo>> /\ inv' = n
        /\ n = LastStep \/ (todo # <<>> /\ Head(todo) = "set_task_until")
    BY <1>10 DEF SetTaskLock, Calls, CallStopInternal, Goto
  <2>2. Head(todo) = todo[1] /\ (todo # <<>> => 1 \in 1..Len(todo))
    BY DEF TypeOK
  <2>3. QED
    BY <2>1, <2>2 DEF EnabledInv
<1>11. CASE SetTaskInvalid
  BY <1>11, EnabledKept DEF SetTaskInvalid, Calls
<1>12. CASE SetTaskEnable
  <2>1. /\ upc = "task_set" /\ upc' = "ready" /\ todo' = Tail(todo) /\ todo # <<>>
        /\ enabled' = [s \in PrintSteps |->
                          IF s \in ObjectSteps THEN s <= inv
                                               ELSE inv = LastStep /\ enabled[s]]
    BY <1>12 DEF SetTaskEnable, Return, CallInv
  <2>2. CASE "reslice_until" \notin Handlers
    <3>1. \A s \in PrintSteps : enabled'[s]
      <4>1. inv = LastStep /\ \A s \in PrintSteps : enabled[s]
        BY <2>1, <2>2 DEF EnabledInv
      <4>2. \A s \in PrintSteps : s <= LastStep
        BY DEF PrintSteps
      <4>3. QED
        BY <2>1, <4>1, <4>2, Zenon
    <3>2. QED
      BY <2>1, <3>1, EnabledKept
  <2>3. QED
    BY <2>2 DEF EnabledInv
<1>13. CASE ScheduleLock \/ ScheduleSet \/ ScheduleInvalid
  BY <1>13, EnabledKept
     DEF ScheduleInvalid, Calls, ScheduleOps, ScheduleSet, Return, ScheduleLock,
         Goto, StopInternal, InvalidateFinalize, CallInv
<1>14. CASE ResetExport \/ ResetExportLock \/ ResetExportUnlock
  BY <1>14, EnabledKept
     DEF ResetExport, ResetExportLock, ResetExportUnlock, Calls, Return,
         Goto, StopInternal, InvalidateFinalize, CallInv
<1>15. CASE ClearLock \/ InvalidateAllSteps \/ InvalidatedAllSteps
  BY <1>15, EnabledKept
     DEF ClearLock, Goto, Calls, CallStopInternal, Return, InvalidateAllSteps,
         StopInternal, InvalidateFinalize, InvalidatedAllSteps, CallInv
<1>16. CASE ClearObjects
  <2>1. /\ upc = "clear_objects" /\ upc' = "ready" /\ todo' = Tail(todo) /\ todo # <<>>
        /\ enabled' = [s \in PrintSteps |-> s \in ObjectSteps \/ enabled[s]]
    BY <1>16 DEF ClearObjects, Return, CallInv
  <2>2. CASE "reslice_until" \notin Handlers
    <3>1. \A s \in PrintSteps : enabled'[s]
      BY <2>1, <2>2 DEF EnabledInv
    <3>2. QED
      BY <2>1, <3>1, EnabledKept
  <2>3. QED
    BY <2>2 DEF EnabledInv
<1>17. CASE Join \/ JoinNotify \/ JoinThread
  BY <1>17, EnabledKept DEF Join, Goto, Calls, JoinNotify, JoinThread
<1>18. CASE Worker /\ ~WFinalize
  <2>1. UNCHANGED <<enabled, todo, upc, uret, inv>>
    BY <1>18
       DEF Worker, WInit, WNotify, WWait, WEnterSkip, WEnterCanceled, WEnter,
           WCompute, WThrow, WPlanTask, WSkipTask, WTaskWait, WDone, WPost,
           WCleanup, WRestart
  <2>2. QED
    BY <2>1, EnabledKept
<1>19. CASE WFinalize \/ SpuriousWake \/ Terminated \/ UNCHANGED vars
  BY <1>19, EnabledKept DEF WFinalize, SpuriousWake, Terminated
<1>20. QED
  BY <1>1, <1>2, <1>3, <1>4, <1>5, <1>6, <1>7, <1>8, <1>9, <1>10, <1>11, <1>12,
     <1>13, <1>14, <1>15, <1>16, <1>17, <1>18, <1>19
     DEF Next, UIEvent, UICall

-----------------------------------------------------------------------------
(* A worker that gets state_mutex and finds no cancel request is disturbed by  *)
(* nobody: stop_internal() holds the mutex until it has set the cancel status. *)
LEMMA EnteredInOrder ==
    ASSUME IInv, OrderInv, WEnter
    PROVE  Ordered
<1>1. wpc = "enter" /\ smutex = "none" /\ ~Canceled
  BY DEF WEnter
<1>2. upc \notin SiHeld
  <2>1. SUFFICES ASSUME upc \in SiHeld PROVE FALSE
    OBVIOUS
  <2>2. uret = "invalidated"
    BY <1>1, <2>1 DEF IInv, MutexInv, SiHeld, SiPcs
  <2>3. Quiet
    BY <2>1, <2>2, HeadQuiet DEF IInv, CallInv, Caller, SiHeld, SiPcs, QuietOps, JoinPcs
  <2>4. QED
    BY <1>1, <2>3 DEF IInv, StateInv, Quiet, RunPcs
<1>3. QED
  BY <1>1, <1>2 DEF OrderInv, Working, Undisturbed

-----------------------------------------------------------------------------
(* The second half of the invariant. *)
RunInv == TaskInv /\ AnnounceInv /\ DestInv /\ OrderInv /\ TargetInv /\ EnabledInv

(* What IInv leaves open of a run is invariant as well.                       *)
THEOREM RunInvariance == Spec => []RunInv
<1>1. Init => RunInv
  BY DEF Init, RunInv, TaskInv, AnnounceInv, DestInv, OrderInv, TargetInv, EnabledInv,
         Working, InsidePcs, Caller, SiPcs
<1>2. IInv /\ RunInv /\ [Next]_vars => RunInv'
  BY TaskStep, AnnounceStep, DestStep, OrderStep, TargetStep, EnabledStep DEF IInv, RunInv
<1>3. QED
  BY Invariance, <1>1, <1>2, PTL DEF Spec

(* A milestone is entered only when all enabled ones before it are Done: the   *)
(* finalize milestone over the complete G-code of the current configuration.   *)
(* A task limited to one object disables milestones under a destination, see   *)
(* the run bg_reslice_until; every other handler is covered.                   *)
THEOREM ExportedGCodeIsCurrent ==
    ASSUME "reslice_until" \notin Handlers
    PROVE  Spec => ExportsCurrentGCode
<1> DEFINE Complete == step[LastStep] = "Done" /\ LastStep \notin outdated
           Entry == wpc' = "compute" /\ wstep = FinalizeStep /\ wpc # "compute"
                    /\ (exportPath \/ uploadJob) => Complete
<1>1. ASSUME IInv, RunInv, [Next]_vars PROVE Entry
  <2>1. SUFFICES ASSUME wpc' = "compute", wpc # "compute", wstep = FinalizeStep PROVE Complete
    OBVIOUS
  <2>2. WEnter
    <3> USE <1>1, <2>1 DEF bsp, cancel, print, task, export, worker, control, locals,
                           sync, data, vars
    <3>1. ~\E h \in Handlers : UserAction(h)
      BY DEF UserAction
    <3>2. ~UIEvent
      BY DEF UIEvent, OnProcessCompleted, UITaskBegin, UITaskDropped, UITaskEnd
    <3>3. ~UICall
      BY DEF UICall, RestartRefused, RestartAccepted, StartLock, StartThread, StartWait,
             StartAlreadyRunning, StartIdle, StartNotify, StopLock, StopRunning,
             StopWait, StopNotRunning, CancelCallback, SiCheck, SiLock, SiRunning,
             SiNotRunning, SiWait, SiRelock, ApplyLock, ApplyInvalidate,
             ApplyInvalidated, ApplyWrite, ApplyUnlock, SetTaskLock, SetTaskInvalid,
             SetTaskEnable, ScheduleInvalid, ScheduleLock, ScheduleSet, ResetExport,
             ResetExportLock, ResetExportUnlock, ClearLock, ClearObjects,
             InvalidateAllSteps, InvalidatedAllSteps, Join, JoinNotify, JoinThread
    <3>4. Worker => WEnter
      BY DEF Worker, WInit, WNotify, WWait, WEnterSkip, WEnterCanceled, WCompute,
             WThrow, WPlanTask, WSkipTask, WTaskWait, WDone, WFinalize, WPost,
             WCleanup, WRestart, WGoto, NextStep
    <3>5. ~SpuriousWake /\ ~Terminated /\ ~UNCHANGED vars
      BY DEF SpuriousWake, Terminated
    <3>6. QED
      BY <3>1, <3>2, <3>3, <3>4, <3>5 DEF Next
  <2>5. Ordered
    BY <1>1, <2>2, EnteredInOrder DEF RunInv
  <2>6. step[LastStep] = "Done"
    BY <1>1, <2>1, <2>5, Steps DEF Ordered, RunInv, EnabledInv, FinalizeStep
  <2>7. QED
    BY <1>1, <2>6, Steps DEF IInv, StepInv, Entered
<1>2. IInv /\ RunInv /\ [Next]_vars => [Entry]_vars
  BY <1>1
<1>3. QED
  BY Invariance, RunInvariance, <1>2, PTL DEF Spec, ExportsCurrentGCode

=============================================================================
