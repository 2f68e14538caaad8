-------------------------- MODULE BackgroundSlicing --------------------------
(***************************************************************************)
(* BackgroundSlicingProcess together with the Print it drives and the      *)
(* Plater handlers that call it.  Two threads: the UI thread, which runs   *)
(* one event handler at a time and, inside it, the methods start(),        *)
(* stop(), stop_internal(), apply(), set_task(), schedule_export(), ...;   *)
(* and the worker thread, which runs thread_proc().  They share m_state    *)
(* under m_mutex and m_condition, the milestones of the Print under        *)
(* state_mutex, the atomic cancel status and a planned UITask.             *)
(*                                                                         *)
(* Milestones are a pipeline 1..LastStep whose last one is psGCodeExport;  *)
(* milestone FinalizeStep is bspsGCodeFinalize, kept by the process itself.*)
(* An action is what a thread does between two points where the other      *)
(* thread can see or delay it: taking or releasing a mutex, sleeping in    *)
(* the condition variable, a notification, posting or taking an event.     *)
(***************************************************************************)
EXTENDS Integers, Sequences, PrintStateBase

CONSTANTS
    LastObjectStep,   \* milestones 1..LastObjectStep are PrintObject steps
    LastStep,         \* psGCodeExport; the ones between are Print steps
    CleanupSteps,     \* object steps whose data PrintObject::cleanup() frees
    Ctx, NoCtx,       \* UITask contexts, and the null shared_ptr
    MaxEvents,        \* bound: a new handler starts with at most so many events
    Handlers          \* the Plater handlers the user may trigger

ObjectSteps  == 1..LastObjectStep
PrintSteps   == 1..LastStep
FinalizeStep == LastStep + 1
AllSteps     == 1..FinalizeStep

AllHandlers == {"reslice", "reslice_until", "update", "export", "upload",
                "cancel", "reset", "close"}

ASSUME StepsAssumption ==
    /\ LastObjectStep \in Nat \ {0}
    /\ LastStep \in Nat
    /\ LastObjectStep < LastStep
    /\ CleanupSteps \subseteq ObjectSteps
ASSUME InstanceAssumption ==
    /\ NoCtx \notin Ctx
    /\ MaxEvents \in Nat
    /\ Handlers \subseteq AllHandlers

VARIABLES
    state,        \* m_state
    mutex,        \* owner of m_mutex: "none", "ui" or "worker"
    waiting,      \* threads asleep in m_condition
    cancelStatus, \* m_print->m_cancel_status
    cancelCb,     \* is m_print->m_cancel_callback stop_internal()?
    smutex,       \* owner of m_print->state_mutex()
    step,         \* state of every milestone
    enabled,      \* the milestones set_task() left enabled
    uiTask,       \* m_ui_task
    ctx,          \* UITask::state of every context
    exportPath,   \* ! m_export_path.empty()
    uploadJob,    \* ! m_upload_job.empty()
    events,       \* events posted to the Plater and not yet handled
    wpc, wstep,   \* worker: where it is, and in which milestone
    upc,          \* UI thread: where it is
    todo,         \* UI thread: calls the current handler has still to make
    uret,         \* UI thread: where stop_internal() returns to
    from,         \* apply(): first milestone the new configuration affects
    inv,          \* apply(): next milestone to invalidate; set_task(): limit
    wasRunning,   \* update_background_process(): was_running
    upd,          \* update_background_process(): its result
    outdated      \* history: milestones whose input changed since they were run

bsp     == <<state, mutex, waiting>>
cancel  == <<cancelStatus, cancelCb>>
print   == <<smutex, step, enabled>>
task    == <<uiTask, ctx>>
export  == <<exportPath, uploadJob>>
worker  == <<wpc, wstep>>
control == <<upc, todo>>
locals  == <<uret, from, inv, wasRunning, upd>>
sync    == <<bsp, cancel>>
data    == <<task, export, events, outdated>>
vars    == <<sync, print, data, worker, control, locals>>

Running     == state \in {"STARTED", "RUNNING", "FINISHED", "CANCELED"}
Canceled    == cancelStatus # "NOT_CANCELED"
EventLoop   == upc = "ready" /\ todo = <<>>
Calls(op)   == upc = "ready" /\ todo # <<>> /\ Head(todo) = op

Goto(l) == upc' = l /\ UNCHANGED todo
Return  == upc' = "ready" /\ todo' = Tail(todo)

NotifyOne ==
    IF waiting = {} THEN UNCHANGED waiting
                    ELSE \E t \in waiting : waiting' = waiting \ {t}

(* Mutant: stop() forgets the task planned on the UI thread. *)
ForgetUITask == UNCHANGED ctx

CancelUITask ==
    ctx' = IF uiTask = NoCtx THEN ctx ELSE [ctx EXCEPT ![uiTask] = "Canceled"]

Completed == [type |-> "completed", ctx |-> NoCtx]
Cancelled == [type |-> "cancelled", ctx |-> NoCtx]
TaskEvent(c) == [type |-> "task", ctx |-> c]
Posted(c) == \E i \in 1..Len(events) : events[i] = TaskEvent(c)

-----------------------------------------------------------------------------
Init ==
    /\ state = "INITIAL" /\ mutex = "none" /\ waiting = {}
    /\ cancelStatus = "NOT_CANCELED" /\ cancelCb = FALSE
    /\ smutex = "none"
    /\ step = [s \in AllSteps |-> "Fresh"]
    /\ enabled = [s \in PrintSteps |-> TRUE]
    /\ uiTask = NoCtx /\ ctx = [c \in Ctx |-> "Free"]
    /\ exportPath = FALSE /\ uploadJob = FALSE
    /\ events = <<>>
    /\ wpc = "none" /\ wstep = 1
    /\ upc = "ready" /\ todo = <<>>
    /\ uret = "ready" /\ from = 0 /\ inv = 0 /\ wasRunning = FALSE
    /\ upd = "none"
    /\ outdated = {}

(***************************************************************************)
(* The UI thread, outer level: the event loop takes a user action, a timer *)
(* or a posted event and runs its handler to the end.                      *)
(***************************************************************************)
Handler(h) ==
    CASE h = "reslice"       -> <<"apply", "set_task", "start_forced">>
      [] h = "reslice_until" -> <<"apply", "set_task_until", "start_forced">>
      [] h = "update"        -> <<"apply", "start_restart">>
      [] h = "export"        -> <<"apply", "schedule_export", "set_task", "start_export">>
      [] h = "upload"        -> <<"apply", "schedule_upload", "set_task", "start_export">>
      [] h = "cancel"        -> <<"stop">>
      [] h = "reset"         -> <<"stop", "reset_export", "clear", "invalidate_all">>
      [] h = "close"         -> <<"stop", "join">>

(* The user's action, or the 500 ms timer of schedule_background_process().*)
UserAction(h) ==
    /\ EventLoop /\ Len(events) <= MaxEvents
    /\ h \in {"export", "upload"} => ~exportPath   \* is_export_scheduled()
    /\ h = "cancel" => state # "IDLE"              \* background_process.idle()
    /\ todo' = Handler(h)
    /\ UNCHANGED <<sync, print, data, worker, upc, locals>>

(* on_process_completed(): stop(), then reset_export(). *)
OnProcessCompleted ==
    /\ EventLoop /\ events # <<>> /\ Head(events) \in {Completed, Cancelled}
    /\ events' = Tail(events)
    /\ todo' = <<"stop", "reset_export">>
    /\ UNCHANGED <<sync, print, task, export, worker, upc, locals, outdated>>

(* Mutant: the lambda does not look at the state of its context. *)
UITaskBeginUnchecked ==
    /\ EventLoop /\ events # <<>> /\ Head(events).type = "task"
    /\ Goto("task")
    /\ UNCHANGED <<sync, print, data, worker, locals>>

(* The lambda of execute_ui_task(): runs the task only if still Planned.   *)
(* A context is freed with the last reference to it.                       *)
UITaskBegin ==
    /\ EventLoop /\ events # <<>> /\ Head(events).type = "task"
    /\ ctx[Head(events).ctx] = "Planned"
    /\ Goto("task")
    /\ UNCHANGED <<sync, print, data, worker, locals>>

UITaskDropped ==
    /\ EventLoop /\ events # <<>> /\ Head(events).type = "task"
    /\ ctx[Head(events).ctx] # "Planned"
    /\ events' = Tail(events)
    /\ ctx' = [ctx EXCEPT ![Head(events).ctx] =
                  IF uiTask = Head(events).ctx THEN @ ELSE "Free"]
    /\ UNCHANGED <<sync, print, uiTask, export, worker, control, locals,
                   outdated>>

UITaskEnd ==
    /\ upc = "task"
    /\ ctx' = [ctx EXCEPT ![Head(events).ctx] = "Finished"]
    /\ events' = Tail(events)
    /\ Goto("ready")
    /\ UNCHANGED <<sync, print, uiTask, export, worker, locals, outdated>>

-----------------------------------------------------------------------------
(***************************************************************************)
(* start()                                                                 *)
(***************************************************************************)
StartOps == {"start_forced", "start_restart", "start_export"}

(* restart_background_process(): the job worker may be busy or the print   *)
(* empty, in which case nothing is started.                                *)
RestartRefused ==
    /\ \E op \in StartOps : Calls(op)
    /\ Return
    /\ upd' = "none"
    /\ UNCHANGED <<sync, print, data, worker, uret, from, inv, wasRunning>>

RestartAccepted ==
    /\ smutex = "none"                       \* finished() locks state_mutex
    /\ \/ /\ Calls("start_forced")
          /\ upd # "invalid"
          /\ upd = "restart" \/ step[LastStep] # "Done"
       \/ Calls("start_restart") /\ upd = "restart"
       \/ Calls("start_export")
    /\ Goto("start_lock")
    /\ upd' = "none"
    /\ UNCHANGED <<sync, print, data, worker, uret, from, inv, wasRunning>>

StartLock ==
    /\ upc = "start_lock" /\ mutex = "none"
    /\ mutex' = "ui"
    /\ Goto("start_body")
    /\ UNCHANGED <<state, waiting, cancel, print, data, worker, locals>>

(* First start: create the thread and wait until it is idle. *)
StartThread ==
    /\ upc = "start_body" /\ state = "INITIAL"
    /\ wpc' = "init"
    /\ mutex' = "none" /\ waiting' = waiting \cup {"ui"}
    /\ Goto("start_wait")
    /\ UNCHANGED <<state, cancel, print, data, wstep, locals>>

StartWait ==
    /\ upc = "start_wait" /\ "ui" \notin waiting /\ mutex = "none"
    /\ IF state = "IDLE"
         THEN mutex' = "ui" /\ Goto("start_body") /\ UNCHANGED waiting
         ELSE waiting' = waiting \cup {"ui"} /\ UNCHANGED <<mutex, control>>
    /\ UNCHANGED <<state, cancel, print, data, worker, locals>>

StartAlreadyRunning ==
    /\ upc = "start_body" /\ Running
    /\ mutex' = "none"
    /\ Return
    /\ UNCHANGED <<state, waiting, cancel, print, data, worker, locals>>

StartIdle ==
    /\ upc = "start_body" /\ state = "IDLE"
    /\ state' = "STARTED" /\ cancelCb' = TRUE
    /\ mutex' = "none"
    /\ Goto("start_notify")
    /\ UNCHANGED <<waiting, cancelStatus, print, data, worker, locals>>

(* Mutant: start() does not notify the worker. *)
StartSilently ==
    /\ upc = "start_notify"
    /\ Return
    /\ UNCHANGED <<sync, print, data, worker, locals>>

StartNotify ==
    /\ upc = "start_notify"
    /\ NotifyOne
    /\ Return
    /\ UNCHANGED <<state, mutex, cancel, print, data, worker, locals>>

-----------------------------------------------------------------------------
(***************************************************************************)
(* stop(), called without state_mutex.                                     *)
(***************************************************************************)
StopLock ==
    /\ Calls("stop") /\ mutex = "none"
    /\ mutex' = "ui"
    /\ Goto("stop_body")
    /\ UNCHANGED <<state, waiting, cancel, print, data, worker, locals>>

StopRunning ==
    /\ upc = "stop_body" /\ state \in {"STARTED", "RUNNING"}
    /\ CancelUITask
    /\ cancelStatus' = "CANCELED_BY_USER"
    /\ mutex' = "none" /\ waiting' = waiting \cup {"ui"}
    /\ Goto("stop_wait")
    /\ UNCHANGED <<state, cancelCb, print, uiTask, export, events, worker,
                   locals, outdated>>

StopWait ==
    /\ upc = "stop_wait" /\ "ui" \notin waiting /\ mutex = "none"
    /\ IF state = "CANCELED"
         THEN state' = "IDLE" /\ cancelCb' = FALSE /\ Return /\ UNCHANGED waiting
         ELSE waiting' = waiting \cup {"ui"} /\ UNCHANGED <<state, cancelCb,
                                                            control>>
    /\ UNCHANGED <<mutex, cancelStatus, print, data, worker, locals>>

StopNotRunning ==
    /\ upc = "stop_body" /\ state \notin {"STARTED", "RUNNING"}
    /\ IF state \in {"FINISHED", "CANCELED"}
         THEN state' = "IDLE" /\ cancelCb' = FALSE
         ELSE UNCHANGED <<state, cancelCb>>
    /\ mutex' = "none"
    /\ Return
    /\ UNCHANGED <<waiting, cancelStatus, print, data, worker, locals>>

-----------------------------------------------------------------------------
(***************************************************************************)
(* stop_internal(), called with state_mutex held: "si_call" goes through   *)
(* m_print->m_cancel_callback, "si_check" is a direct call.                *)
(***************************************************************************)
(* Back to the caller, with the lock state it expects. *)
StopInternalReturn == Goto(uret) /\ uret' = "ready"

CallStopInternal(ret) == Goto("si_call") /\ uret' = ret
StopInternal(ret)     == Goto("si_check") /\ uret' = ret

CancelCallback ==
    /\ upc = "si_call"
    /\ IF cancelCb THEN Goto("si_check") /\ UNCHANGED uret
                   ELSE StopInternalReturn
    /\ UNCHANGED <<sync, print, data, worker, from, inv, wasRunning, upd>>

(* m_state is read here without m_mutex. *)
SiCheck ==
    /\ upc = "si_check"
    /\ IF state = "IDLE" THEN StopInternalReturn
                         ELSE Goto("si_lock") /\ UNCHANGED uret
    /\ UNCHANGED <<sync, print, data, worker, from, inv, wasRunning, upd>>

SiLock ==
    /\ upc = "si_lock" /\ mutex = "none"
    /\ mutex' = "ui"
    /\ Goto("si_body")
    /\ UNCHANGED <<state, waiting, cancel, print, data, worker, locals>>

(* state_mutex is released so that a worker blocked on it can be canceled. *)
SiRunning ==
    /\ upc = "si_body" /\ state \in {"STARTED", "RUNNING"}
    /\ CancelUITask
    /\ cancelStatus' = "CANCELED_INTERNAL"
    /\ smutex' = "none"
    /\ mutex' = "none" /\ waiting' = waiting \cup {"ui"}
    /\ Goto("si_wait")
    /\ UNCHANGED <<state, cancelCb, step, enabled, uiTask, export, events,
                   worker, locals, outdated>>

SiNotRunning ==
    /\ upc = "si_body" /\ state \notin {"STARTED", "RUNNING"}
    /\ state' = "IDLE" /\ cancelCb' = FALSE
    /\ mutex' = "none"
    /\ StopInternalReturn
    /\ UNCHANGED <<waiting, cancelStatus, print, data, worker, from, inv,
                   wasRunning, upd>>

SiWait ==
    /\ upc = "si_wait" /\ "ui" \notin waiting /\ mutex = "none"
    /\ IF state = "CANCELED"
         THEN mutex' = "ui" /\ Goto("si_relock") /\ UNCHANGED waiting
         ELSE waiting' = waiting \cup {"ui"} /\ UNCHANGED <<mutex, control>>
    /\ UNCHANGED <<state, cancel, print, data, worker, locals>>

SiRelock ==
    /\ upc = "si_relock" /\ smutex = "none"
    /\ smutex' = "ui"
    /\ state' = "IDLE" /\ cancelCb' = FALSE
    /\ mutex' = "none"
    /\ StopInternalReturn
    /\ UNCHANGED <<waiting, cancelStatus, step, enabled, data, worker, from,
                   inv, wasRunning, upd>>

-----------------------------------------------------------------------------
(***************************************************************************)
(* update_background_process(): Print::apply() under state_mutex, then the *)
(* result computed from it.                                                *)
(***************************************************************************)

(* The new configuration and model affect the milestones from k on; k = 0  *)
(* means that nothing changed.  A change of the list of objects calls the  *)
(* cancel callback first.                                                  *)
ApplyLock(k) ==
    /\ Calls("apply") /\ smutex = "none"
    /\ smutex' = "ui"
    /\ wasRunning' = Running
    /\ from' = k /\ inv' = k
    /\ \/ k = 0 /\ Goto("ap_unlock") /\ UNCHANGED uret
       \/ k > 0 /\ Goto("ap_inv") /\ UNCHANGED uret
       \/ k > 0 /\ CallStopInternal("ap_inv")
    /\ UNCHANGED <<sync, step, enabled, data, worker, upd>>

(* invalidate_step() of the milestone and of its dependents, one by one:   *)
(* the milestone changes first, then the worker is stopped.                *)
ApplyInvalidate ==
    /\ upc = "ap_inv" /\ inv <= LastStep
    /\ step' = [step EXCEPT ![inv] = TryInvalidate(@)]
    /\ inv' = inv + 1
    /\ IF Entered(step[inv]) THEN CallStopInternal("ap_inv")
                             ELSE UNCHANGED <<control, uret>>
    /\ UNCHANGED <<sync, smutex, enabled, data, worker, from, wasRunning, upd>>

ApplyInvalidated ==
    /\ upc = "ap_inv" /\ inv > LastStep
    /\ Goto("ap_write")
    /\ UNCHANGED <<sync, print, data, worker, locals>>

(* The Print's configuration and objects are replaced, then cleanup(). *)
ApplyWrite ==
    /\ upc = "ap_write"
    /\ outdated' = outdated \cup from..LastStep
    /\ step' = [s \in AllSteps |->
                  IF s \in CleanupSteps THEN QueryResetDirty(step[s]) ELSE step[s]]
    /\ Goto("ap_unlock")
    /\ UNCHANGED <<sync, smutex, enabled, task, export, events, worker,
                   locals>>

(* End of apply() and of update_background_process(): validation, the      *)
(* RESTART bit if background processing is enabled, and the "cancelled"    *)
(* event if the job was killed and will not be restarted.                  *)
ApplyUnlock(result) ==
    /\ upc = "ap_unlock"
    /\ result = "restart" => from > 0
    /\ smutex' = "none"
    /\ upd' = result
    /\ events' = IF from > 0 /\ wasRunning /\ ~Running /\ result # "restart"
                   THEN Append(events, Cancelled) ELSE events
    /\ from' = 0 /\ inv' = 0 /\ wasRunning' = FALSE
    /\ Return
    /\ UNCHANGED <<sync, step, enabled, task, export, worker, uret, outdated>>

-----------------------------------------------------------------------------
(***************************************************************************)
(* set_task(): TaskParams() for all steps, or the steps up to n only.      *)
(***************************************************************************)
SetTaskLock(n) ==
    /\ \/ Calls("set_task") /\ n = LastStep
       \/ Calls("set_task_until") /\ upd # "invalid" /\ n \in ObjectSteps
    /\ smutex = "none"
    /\ smutex' = "ui"
    /\ inv' = n
    /\ IF \E s \in ObjectSteps : /\ s <= n /\ step[s] = "Started"
                                 /\ \A t \in 1..s : enabled[t]
         THEN Goto("task_set") /\ UNCHANGED uret
         ELSE CallStopInternal("task_set")
    /\ UNCHANGED <<sync, step, enabled, data, worker, from, wasRunning, upd>>

(* reslice_until_step_inner() returns early when validation failed. *)
SetTaskInvalid ==
    /\ Calls("set_task_until") /\ upd = "invalid"
    /\ todo' = <<>> /\ upd' = "none"
    /\ UNCHANGED <<sync, print, data, worker, upc, uret, from, inv,
                   wasRunning>>

SetTaskEnable ==
    /\ upc = "task_set"
    /\ enabled' = [s \in PrintSteps |->
                     IF s \in ObjectSteps THEN s <= inv
                                          ELSE inv = LastStep /\ enabled[s]]
    /\ smutex' = "none"
    /\ inv' = 0
    /\ Return
    /\ UNCHANGED <<sync, step, data, worker, uret, from, wasRunning, upd>>

-----------------------------------------------------------------------------
(***************************************************************************)
(* schedule_export(), schedule_upload() and reset_export(): the finalize   *)
(* milestone is invalidated before the destination changes.                *)
(***************************************************************************)
ScheduleOps == {"schedule_export", "schedule_upload"}

(* export_gcode() returns early when validation failed. *)
ScheduleInvalid ==
    /\ \E op \in ScheduleOps : Calls(op)
    /\ upd = "invalid"
    /\ todo' = <<>> /\ upd' = "none"
    /\ UNCHANGED <<sync, print, data, worker, upc, uret, from, inv,
                   wasRunning>>

(* Mutant: the worker is not stopped. *)
InvalidateFinalizeOnly(ret) ==
    /\ step' = [step EXCEPT ![FinalizeStep] = TryInvalidate(@)]
    /\ Goto(ret) /\ UNCHANGED uret

(* invalidate_step(bspsGCodeFinalize), its cancel function stop_internal().*)
InvalidateFinalize(ret) ==
    /\ step' = [step EXCEPT ![FinalizeStep] = TryInvalidate(@)]
    /\ IF Entered(step[FinalizeStep]) THEN StopInternal(ret)
                                      ELSE Goto(ret) /\ UNCHANGED uret

(* Mutant: schedule_export() does not lock state_mutex. *)
ScheduleUnlocked ==
    /\ \E op \in ScheduleOps : Calls(op)
    /\ upd # "invalid" /\ ~exportPath /\ smutex = "none"
    /\ InvalidateFinalize("sched_set")
    /\ UNCHANGED <<sync, smutex, enabled, data, worker, from, inv, wasRunning,
                   upd>>

ScheduleLock ==
    /\ \E op \in ScheduleOps : Calls(op)
    /\ upd # "invalid" /\ ~exportPath /\ smutex = "none"
    /\ smutex' = "ui"
    /\ InvalidateFinalize("sched_set")
    /\ UNCHANGED <<sync, enabled, data, worker, from, inv, wasRunning, upd>>

ScheduleSet ==
    /\ upc = "sched_set"
    /\ IF Head(todo) = "schedule_export"
         THEN exportPath' = TRUE /\ UNCHANGED uploadJob
         ELSE exportPath' = FALSE /\ uploadJob' = TRUE
    /\ smutex' = "none"
    /\ Return
    /\ UNCHANGED <<sync, step, enabled, task, events, worker, locals,
                   outdated>>

ResetExport ==
    /\ Calls("reset_export")
    /\ IF Running THEN Return /\ UNCHANGED exportPath
                  ELSE Goto("reset_lock") /\ exportPath' = FALSE
    /\ UNCHANGED <<sync, print, task, uploadJob, events, worker, locals,
                   outdated>>

ResetExportLock ==
    /\ upc = "reset_lock" /\ smutex = "none"
    /\ smutex' = "ui"
    /\ InvalidateFinalize("reset_unlock")
    /\ UNCHANGED <<sync, enabled, data, worker, from, inv, wasRunning, upd>>

ResetExportUnlock ==
    /\ upc = "reset_unlock"
    /\ smutex' = "none"
    /\ Return
    /\ UNCHANGED <<sync, step, enabled, data, worker, locals>>

-----------------------------------------------------------------------------
(***************************************************************************)
(* The rest of reset(): Print::clear(), which invalidates the Print's own  *)
(* milestones and deletes the objects, and invalidate_all_steps() of the   *)
(* process, which does not take state_mutex.                               *)
(***************************************************************************)
OwnSteps == PrintSteps \ ObjectSteps

ClearLock ==
    /\ Calls("clear") /\ smutex = "none"
    /\ smutex' = "ui"
    /\ step' = [s \in AllSteps |->
                  IF s \in OwnSteps THEN TryInvalidate(step[s]) ELSE step[s]]
    /\ IF \E s \in OwnSteps : Entered(step[s])
         THEN CallStopInternal("clear_objects")
         ELSE Goto("clear_objects") /\ UNCHANGED uret
    /\ UNCHANGED <<sync, enabled, data, worker, from, inv, wasRunning, upd>>

ClearObjects ==
    /\ upc = "clear_objects"
    /\ step' = [s \in AllSteps |-> IF s \in ObjectSteps THEN "Fresh" ELSE step[s]]
    /\ enabled' = [s \in PrintSteps |-> s \in ObjectSteps \/ enabled[s]]
    /\ outdated' = outdated \cup PrintSteps
    /\ smutex' = "none"
    /\ Return
    /\ UNCHANGED <<sync, task, export, events, worker, locals>>

InvalidateAllSteps ==
    /\ Calls("invalidate_all")
    /\ InvalidateFinalize("invalidated")
    /\ UNCHANGED <<sync, smutex, enabled, data, worker, from, inv, wasRunning,
                   upd>>

InvalidatedAllSteps ==
    /\ upc = "invalidated"
    /\ Return
    /\ UNCHANGED <<sync, print, data, worker, locals>>

(* ~BackgroundSlicingProcess(): join_background_thread() after stop(). *)
Join ==
    /\ Calls("join") /\ mutex = "none"
    /\ IF state = "INITIAL" THEN Goto("closed") /\ UNCHANGED state
                            ELSE Goto("join_notify") /\ state' = "EXIT"
    /\ UNCHANGED <<mutex, waiting, cancel, print, data, worker, locals>>

JoinNotify ==
    /\ upc = "join_notify"
    /\ NotifyOne
    /\ Goto("join_thread")
    /\ UNCHANGED <<state, mutex, cancel, print, data, worker, locals>>

JoinThread ==
    /\ upc = "join_thread" /\ wpc = "exited"
    /\ Goto("closed")
    /\ UNCHANGED <<sync, print, data, worker, locals>>

-----------------------------------------------------------------------------
(***************************************************************************)
(* The worker: thread_proc(), call_process(), process_fff().               *)
(***************************************************************************)
WGoto(l) == wpc' = l /\ UNCHANGED wstep

WInit ==
    /\ wpc = "init" /\ mutex = "none"
    /\ state' = "IDLE"
    /\ WGoto("notify")
    /\ UNCHANGED <<mutex, waiting, cancel, print, data, control, locals>>

WNotify ==
    /\ wpc = "notify"
    /\ NotifyOne
    /\ WGoto("wait")
    /\ UNCHANGED <<state, mutex, cancel, print, data, control, locals>>

(* m_condition.wait(): the predicate is tested under m_mutex. *)
WWait ==
    /\ wpc = "wait" /\ "worker" \notin waiting /\ mutex = "none"
    /\ CASE state = "STARTED" -> /\ state' = "RUNNING"
                                 /\ wpc' = "enter" /\ wstep' = 1
                                 /\ UNCHANGED waiting
         [] state = "EXIT"    -> /\ state' = "EXITED" /\ WGoto("exited")
                                 /\ UNCHANGED waiting
         [] OTHER             -> /\ waiting' = waiting \cup {"worker"}
                                 /\ UNCHANGED <<state, worker>>
    /\ UNCHANGED <<mutex, cancel, print, data, control, locals>>

(* Mutant: one milestone too many. *)
NextStepTooFar ==
    IF wstep > FinalizeStep THEN WGoto("finalize")
                            ELSE wstep' = wstep + 1 /\ wpc' = "enter"

NextStep ==
    IF wstep = FinalizeStep THEN WGoto("finalize")
                            ELSE wstep' = wstep + 1 /\ wpc' = "enter"

StepEnabled(s) == s = FinalizeStep \/ enabled[s]
Skipped(s)     == ~StepEnabled(s) \/ step[s] = "Done"

(* do_export() tests its milestone before set_started(), which therefore   *)
(* does not get to throw; the other milestones throw first.                *)
WEnterSkip ==
    /\ wpc = "enter" /\ smutex = "none"
    /\ Skipped(wstep)
    /\ Canceled => wstep = LastStep
    /\ NextStep
    /\ UNCHANGED <<sync, print, data, control, locals>>

WEnterCanceled ==
    /\ wpc = "enter" /\ smutex = "none"
    /\ Canceled
    /\ wstep = LastStep => ~Skipped(wstep)
    /\ WGoto("finalize")
    /\ UNCHANGED <<sync, print, data, control, locals>>

WEnter ==
    /\ wpc = "enter" /\ smutex = "none"
    /\ ~Canceled /\ ~Skipped(wstep)
    /\ step' = [step EXCEPT ![wstep] = "Started"]
    /\ outdated' = outdated \ {wstep}
    /\ WGoto("compute")
    /\ UNCHANGED <<sync, smutex, enabled, task, export, events, control,
                   locals>>

(* The work of a milestone.  The G-code export renders thumbnails; the     *)
(* finalize step copies the G-code to the export path or moves the upload  *)
(* job into the print host queue.                                          *)
WCompute ==
    /\ wpc = "compute"
    /\ WGoto(IF wstep = LastStep THEN "thumbnails" ELSE "done")
    /\ uploadJob' = IF wstep = FinalizeStep /\ ~exportPath THEN FALSE ELSE uploadJob
    /\ UNCHANGED <<sync, print, task, exportPath, events, control, locals,
                   outdated>>

(* Mutant: the exception is swallowed and processing goes on. *)
WSwallow ==
    /\ wpc = "compute"
    /\ NextStep
    /\ UNCHANGED <<sync, print, data, control, locals>>

(* CanceledException out of a throw_if_canceled() inside the milestone, or *)
(* a slicing, export or upload error; the G-code export goes on after its  *)
(* thumbnails.                                                             *)
WThrow ==
    /\ wpc = "compute" \/ (wpc = "done" /\ wstep = LastStep)
    /\ WGoto("finalize")
    /\ UNCHANGED <<sync, print, data, control, locals>>

(* execute_ui_task() *)
WPlanTask(c) ==
    /\ wpc = "thumbnails" /\ mutex = "none" /\ ~Canceled
    /\ ctx[c] = "Free"
    /\ uiTask' = c /\ ctx' = [ctx EXCEPT ![c] = "Planned"]
    /\ events' = Append(events, TaskEvent(c))
    /\ WGoto("task_wait")
    /\ UNCHANGED <<sync, print, export, control, locals, outdated>>

(* try_lock() failed, or the print is canceled: no thumbnail. *)
WSkipTask ==
    /\ wpc = "thumbnails" /\ (mutex = "ui" \/ Canceled)
    /\ WGoto("done")
    /\ UNCHANGED <<sync, print, data, control, locals>>

WTaskWait ==
    /\ wpc = "task_wait" /\ ctx[uiTask] \in {"Finished", "Canceled"}
    /\ uiTask' = NoCtx
    /\ ctx' = [ctx EXCEPT ![uiTask] = IF Posted(uiTask) THEN @ ELSE "Free"]
    /\ WGoto("done")
    /\ UNCHANGED <<sync, print, export, events, control, locals, outdated>>

(* Mutant: set_done() does not throw when the print is canceled. *)
WDoneAnyway ==
    /\ wpc = "done" /\ smutex = "none"
    /\ step' = [step EXCEPT ![wstep] = "Done"]
    /\ NextStep
    /\ UNCHANGED <<sync, smutex, enabled, data, control, locals>>

WDone ==
    /\ wpc = "done" /\ smutex = "none"
    /\ IF Canceled THEN WGoto("finalize") /\ UNCHANGED step
                   ELSE /\ step' = [step EXCEPT ![wstep] = "Done"]
                        /\ NextStep
    /\ UNCHANGED <<sync, smutex, enabled, data, control, locals>>

(* Mutant: finalize() leaves the abandoned milestone Started. *)
WFinalizeUnmarked ==
    /\ wpc = "finalize" /\ smutex = "none"
    /\ enabled' = [s \in PrintSteps |-> TRUE]
    /\ wpc' = "post" /\ wstep' = 1
    /\ UNCHANGED <<sync, smutex, step, data, control, locals>>

(* m_print->finalize(): all milestones enabled, the abandoned one canceled.*)
WFinalize ==
    /\ wpc = "finalize" /\ smutex = "none"
    /\ enabled' = [s \in PrintSteps |-> TRUE]
    /\ step' = [s \in AllSteps |->
                  IF s \in PrintSteps THEN MarkCanceled(step[s]) ELSE step[s]]
    /\ wpc' = "post" /\ wstep' = 1
    /\ UNCHANGED <<sync, smutex, data, control, locals>>

(* Mutant: only a cancellation by the user is announced. *)
WPostCanceled ==
    /\ wpc = "post" /\ mutex = "none"
    /\ mutex' = "worker"
    /\ state' = IF Canceled THEN "CANCELED" ELSE "FINISHED"
    /\ events' = IF cancelStatus = "CANCELED_BY_USER"
                   THEN Append(events, Cancelled) ELSE events
    /\ WGoto("restart")
    /\ UNCHANGED <<waiting, cancel, print, task, export, control, locals,
                   outdated>>

WPost ==
    /\ wpc = "post" /\ mutex = "none"
    /\ mutex' = "worker"
    /\ state' = IF Canceled THEN "CANCELED" ELSE "FINISHED"
    /\ IF cancelStatus # "CANCELED_INTERNAL"
         THEN /\ events' = Append(events, IF Canceled THEN Cancelled ELSE Completed)
              /\ WGoto("cleanup")
         ELSE /\ WGoto("restart")
              /\ UNCHANGED events
    /\ UNCHANGED <<waiting, cancel, print, task, export, control, locals,
                   outdated>>

(* m_print->cleanup(), under m_mutex but without state_mutex. *)
WCleanup ==
    /\ wpc = "cleanup"
    /\ step' = [s \in AllSteps |->
                  IF s \in CleanupSteps THEN QueryResetDirty(step[s]) ELSE step[s]]
    /\ WGoto("restart")
    /\ UNCHANGED <<sync, smutex, enabled, data, control, locals>>

(* Mutant: the cancel status is not reset. *)
WRestartCanceled ==
    /\ wpc = "restart"
    /\ mutex' = "none"
    /\ WGoto("notify")
    /\ UNCHANGED <<state, waiting, cancel, print, data, control, locals>>

WRestart ==
    /\ wpc = "restart"
    /\ cancelStatus' = "NOT_CANCELED"
    /\ mutex' = "none"
    /\ WGoto("notify")
    /\ UNCHANGED <<state, waiting, cancelCb, print, data, control, locals>>

(* A condition variable may wake a thread that nobody notified. *)
SpuriousWake ==
    /\ \E t \in waiting : waiting' = waiting \ {t}
    /\ UNCHANGED <<state, mutex, cancel, print, data, worker, control, locals>>

-----------------------------------------------------------------------------
UIEvent == OnProcessCompleted \/ UITaskBegin \/ UITaskDropped \/ UITaskEnd

UICall ==
    \/ RestartRefused \/ RestartAccepted
    \/ StartLock \/ StartThread \/ StartWait \/ StartAlreadyRunning \/ StartIdle
    \/ StartNotify
    \/ StopLock \/ StopRunning \/ StopWait \/ StopNotRunning
    \/ CancelCallback \/ SiCheck \/ SiLock \/ SiRunning \/ SiNotRunning \/ SiWait
    \/ SiRelock
    \/ \E k \in 0..LastStep : ApplyLock(k)
    \/ ApplyInvalidate \/ ApplyInvalidated \/ ApplyWrite
    \/ \E r \in {"none", "restart", "invalid"} : ApplyUnlock(r)
    \/ \E n \in PrintSteps : SetTaskLock(n)
    \/ SetTaskInvalid \/ SetTaskEnable
    \/ ScheduleInvalid \/ ScheduleLock \/ ScheduleSet
    \/ ResetExport \/ ResetExportLock \/ ResetExportUnlock
    \/ ClearLock \/ ClearObjects \/ InvalidateAllSteps \/ InvalidatedAllSteps
    \/ Join \/ JoinNotify \/ JoinThread

Worker ==
    \/ WInit \/ WNotify \/ WWait
    \/ WEnterSkip \/ WEnterCanceled \/ WEnter \/ WCompute \/ WThrow
    \/ (\E c \in Ctx : WPlanTask(c)) \/ WSkipTask \/ WTaskWait
    \/ WDone \/ WFinalize \/ WPost \/ WCleanup \/ WRestart

(* The destructor has returned. *)
Terminated == upc = "closed" /\ UNCHANGED vars

Next ==
    \/ \E h \in Handlers : UserAction(h)
    \/ UIEvent \/ UICall \/ Worker \/ SpuriousWake
    \/ Terminated

(***************************************************************************)
(* Fairness.  The threads are scheduled.  The worker gets a mutex that the *)
(* UI thread releases again and again: the UI thread holds m_mutex and     *)
(* state_mutex only inside a handler and handlers are a user's actions     *)
(* apart.  The event loop dispatches the posted events however often the   *)
(* user acts.                                                              *)
(***************************************************************************)
Fairness == SF_vars(Worker) /\ WF_vars(UICall) /\ SF_vars(UIEvent)

Spec     == Init /\ [][Next]_vars
FairSpec == Spec /\ Fairness

-----------------------------------------------------------------------------
(***************************************************************************)
(* Properties.                                                             *)
(***************************************************************************)
UIPcs == {"ready", "task", "start_lock", "start_body", "start_wait",
          "start_notify", "stop_body", "stop_wait", "si_call", "si_check",
          "si_lock", "si_body", "si_wait", "si_relock", "ap_inv", "ap_write",
          "ap_unlock", "task_set", "sched_set", "reset_lock", "reset_unlock",
          "clear_objects", "invalidated", "join_notify", "join_thread", "closed"}
WorkerPcs == {"none", "init", "notify", "wait", "enter", "compute", "thumbnails",
              "task_wait", "done", "finalize", "post", "cleanup", "restart",
              "exited"}
Ops == {"apply", "set_task", "set_task_until", "schedule_export",
        "schedule_upload", "stop", "reset_export", "clear", "invalidate_all",
        "join"} \cup StartOps
Returns == {"ready", "ap_inv", "task_set", "sched_set", "reset_unlock",
            "clear_objects", "invalidated"}
Event == [type : {"completed", "cancelled", "task"}, ctx : Ctx \cup {NoCtx}]

(* Every variable has its type. *)
TypeOK ==
    /\ state \in {"INITIAL", "IDLE", "STARTED", "RUNNING", "FINISHED", "CANCELED",
                  "EXIT", "EXITED"}
    /\ mutex \in {"none", "ui", "worker"} /\ waiting \subseteq {"ui", "worker"}
    /\ cancelStatus \in {"NOT_CANCELED", "CANCELED_BY_USER", "CANCELED_INTERNAL"}
    /\ cancelCb \in BOOLEAN
    /\ smutex \in {"none", "ui"}
    /\ step \in [AllSteps -> StepState] /\ enabled \in [PrintSteps -> BOOLEAN]
    /\ uiTask \in Ctx \cup {NoCtx}
    /\ ctx \in [Ctx -> {"Free", "Planned", "Finished", "Canceled"}]
    /\ exportPath \in BOOLEAN /\ uploadJob \in BOOLEAN
    /\ events \in Seq(Event)
    /\ wpc \in WorkerPcs /\ wstep \in AllSteps
    /\ upc \in UIPcs /\ todo \in Seq(Ops) /\ uret \in Returns
    /\ from \in 0..LastStep /\ inv \in 0..FinalizeStep
    /\ wasRunning \in BOOLEAN /\ upd \in {"none", "restart", "invalid"}
    /\ outdated \subseteq PrintSteps

(* The worker is inside milestone s, reading the Print's data for it. *)
Inside(s) == wpc \in {"compute", "thumbnails", "task_wait", "done"} /\ wstep = s

(* Print::apply() and Print::clear() replace configuration and objects only   *)
(* while the worker is in no milestone that reads them ("stop the background  *)
(* processing before changing any data of running or finalized milestones").  *)
WriteExcludesWorker ==
    /\ upc = "ap_write" => \A s \in from..LastStep : ~Inside(s)
    /\ upc = "clear_objects" => \A s \in PrintSteps : ~Inside(s)

(* A milestone that counts as Done, and is therefore skipped by the next run, *)
(* was computed from the current configuration and model.                     *)
DoneIsCurrent == \A s \in PrintSteps : step[s] = "Done" => s \notin outdated

(* Outside of a run no milestone of the Print is left Started: finalize()     *)
(* turns the one the worker was thrown out of into Canceled.                  *)
StartedOnlyInRun ==
    \A s \in PrintSteps : step[s] = "Started" => state = "RUNNING"

(* A cancel request never survives the run it was meant for: the next run     *)
(* would be killed at its first milestone.                                    *)
CancelDoesNotLinger == state = "IDLE" => ~Canceled

(* The task sent to the UI thread writes to the stack of execute_ui_task();   *)
(* it runs only while the worker waits there for this very task.              *)
UITaskAlive ==
    upc = "task" => wpc = "task_wait" /\ uiTask = Head(events).ctx

(* stop_internal() unlocks and relocks state_mutex, so it must be held;       *)
(* stop() waits for a worker that takes it, so it must not be held.           *)
LockContract ==
    /\ upc = "si_body" /\ state \in {"STARTED", "RUNNING"} => smutex = "ui"
    /\ upc \in {"stop_body", "stop_wait"} => smutex = "none"

(* When the UI thread is back in its event loop, the result of a run that     *)
(* ended is announced by a posted event; otherwise the process would count as *)
(* running and refuse every start() for ever.                                 *)
ResultAnnounced ==
    EventLoop /\ state \in {"FINISHED", "CANCELED"} =>
        \E i \in 1..Len(events) : events[i] \in {Completed, Cancelled}

(* "Guard against entering the export step before changing the export path":  *)
(* the destination does not change under a worker that is exporting to it.    *)
DestinationStable ==
    [][Inside(FinalizeStep) => exportPath' = exportPath
                               /\ (uploadJob' # uploadJob => wpc' # wpc)]_vars

(* The finalize milestone is entered with a destination only over complete    *)
(* G-code of the current configuration.                                       *)
ExportsCurrentGCode ==
    [][wpc' = "compute" /\ wstep = FinalizeStep /\ wpc # "compute"
       /\ (exportPath \/ uploadJob) =>
         step[LastStep] = "Done" /\ LastStep \notin outdated]_vars

(* The UI thread, blocked in stop(), stop_internal(), start() or join, goes   *)
(* on: no lost wake-up, no worker stuck on a UI task or on state_mutex.       *)
UINeverStuck ==
    upc \in {"stop_wait", "si_wait", "start_wait", "join_thread"} ~>
        upc \in {"ready", "closed"}

(* Every run that was started ends and its result is picked up.               *)
RunEnds == state = "STARTED" ~> state \in {"IDLE", "EXIT", "EXITED"}

=============================================================================
