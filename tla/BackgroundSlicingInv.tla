------------------------ MODULE BackgroundSlicingInv ------------------------
(***************************************************************************)
(* The inductive invariant behind the safety properties of                 *)
(* BackgroundSlicing, in named parts.                                      *)
(***************************************************************************)
EXTENDS BackgroundSlicing

SiPcs    == {"si_call", "si_check", "si_lock", "si_body", "si_wait", "si_relock"}
StartPcs == {"start_lock", "start_body", "start_wait", "start_notify"}
StopPcs  == {"stop_body", "stop_wait"}
RunPcs   == {"enter", "compute", "thumbnails", "task_wait", "done", "finalize",
             "post"}
InsidePcs == {"compute", "thumbnails", "task_wait", "done"}
JoinPcs   == {"join_notify", "join_thread", "closed"}

(* Where the current call of the handler is, stop_internal() set aside. *)
Caller == IF upc \in SiPcs THEN uret ELSE upc

(* The calls made after a stop() in the same handler. *)
QuietOps == {"reset_export", "clear", "invalidate_all", "join"}
Quiet    == state \in {"INITIAL", "IDLE"}

(* Which call of the handler is being executed. *)
CallInv ==
    /\ upc \notin {"ready", "task"} => todo # <<>>
    /\ upc = "task" => events # <<>> /\ Head(events).type = "task"
    /\ upc \in SiPcs => uret # "ready"
    /\ upc \in StartPcs => Head(todo) \in StartOps
    /\ upc \in StopPcs => Head(todo) = "stop"
    /\ Caller \in {"ap_inv", "ap_write", "ap_unlock"} => Head(todo) = "apply"
    /\ Caller = "task_set" => Head(todo) \in {"set_task", "set_task_until"}
    /\ Caller = "sched_set" => Head(todo) \in ScheduleOps
    /\ Caller \in {"reset_lock", "reset_unlock"} => Head(todo) = "reset_export"
    /\ Caller = "clear_objects" => Head(todo) = "clear"
    /\ Caller = "invalidated" => Head(todo) = "invalidate_all"
    /\ upc \in JoinPcs => Head(todo) = "join"

(* A handler that makes such a call has called stop() first, and calls no  *)
(* start().                                                                *)
QuietOrder(calls) ==
    /\ \A i \in 1..Len(calls) :
         calls[i] \in QuietOps => i > 1 /\ calls[1] = "stop"
    /\ \A i, j \in 1..Len(calls) :
         calls[i] \in StartOps => calls[j] \notin QuietOps

(* Calls that need a stopped process come after a stop() in the handler or  *)
(* find it stopped; no handler mixes them with a start().                   *)
QuietInv ==
    /\ \A i \in 1..Len(todo) : todo[i] \in QuietOps =>
         \/ Quiet
         \/ upc \in JoinPcs
         \/ \E j \in 1..Len(todo) : j < i /\ todo[j] = "stop"
    /\ \A i, j \in 1..Len(todo) : todo[i] \in StartOps => todo[j] \notin QuietOps

(* m_state says where the worker is. *)
StateInv ==
    /\ wpc \in {"none", "init"} <=> state = "INITIAL"
    /\ wpc \in RunPcs <=> state = "RUNNING"
    /\ wpc \in {"cleanup", "restart"} =>
         state \in {"FINISHED", "CANCELED"} /\ mutex = "worker"
    /\ wpc = "exited" <=> state = "EXITED"
    /\ state \in {"EXIT", "EXITED"} => upc \in JoinPcs
    /\ cancelCb <=> Running
    /\ state = "INITIAL" => \A s \in AllSteps : ~Entered(step[s])
    /\ state = "INITIAL" => upc \notin SiPcs \ {"si_call"}

(* Who holds the two mutexes. *)
MutexInv ==
    /\ mutex = "ui" <=> upc \in {"start_body", "stop_body", "si_body", "si_relock"}
    /\ mutex = "worker" => wpc \in {"cleanup", "restart"}
    /\ smutex = "ui" <=>
         \/ upc \in {"ap_inv", "ap_write", "ap_unlock", "task_set", "sched_set",
                     "reset_unlock", "clear_objects"}
         \/ upc \in SiPcs \ {"si_wait", "si_relock"} /\ uret # "invalidated"

(* Where a cancellation can be in progress. *)
CancelInv ==
    /\ upc \in {"stop_wait", "si_wait"} =>
         /\ state \in {"STARTED", "RUNNING", "CANCELED"}
         /\ state # "CANCELED" => Canceled
    /\ upc = "si_relock" => state = "CANCELED"
    /\ Canceled => \/ /\ upc \in {"stop_wait", "si_wait"}
                      /\ state \in {"STARTED", "RUNNING"}
                   \/ wpc \in {"cleanup", "restart"}

(* The milestone the worker is in is Started, unless the UI thread has just *)
(* invalidated it and is on its way to stop the worker; no other is.        *)
StepInv ==
    /\ \A s \in PrintSteps : step[s] = "Started" =>
         \/ wpc = "finalize"
         \/ wpc \in InsidePcs /\ wstep = s
    /\ wpc \in InsidePcs /\ step[wstep] # "Started" => upc \in SiPcs \ {"si_relock"}
    /\ \A s \in PrintSteps : Entered(step[s]) => s \notin outdated

(* What apply() and clear() have invalidated stays so until they write. *)
ApplyInv ==
    /\ Caller \in {"ap_inv", "ap_write"} =>
         /\ from \in PrintSteps
         /\ \A s \in PrintSteps : from <= s /\ s < inv => ~Entered(step[s])
    /\ upc = "ap_write" => inv > LastStep
    /\ Caller = "clear_objects" => \A s \in OwnSteps : ~Entered(step[s])

(* TypeOK, part by part. *)
TypeSync ==
    /\ state \in {"INITIAL", "IDLE", "STARTED", "RUNNING", "FINISHED", "CANCELED",
                  "EXIT", "EXITED"}
    /\ mutex \in {"none", "ui", "worker"} /\ waiting \subseteq {"ui", "worker"}
    /\ cancelStatus \in {"NOT_CANCELED", "CANCELED_BY_USER", "CANCELED_INTERNAL"}
    /\ cancelCb \in BOOLEAN
    /\ smutex \in {"none", "ui"}
TypePrint ==
    /\ step \in [AllSteps -> StepState] /\ enabled \in [PrintSteps -> BOOLEAN]
    /\ outdated \subseteq PrintSteps
TypeData ==
    /\ uiTask \in Ctx \cup {NoCtx}
    /\ ctx \in [Ctx -> {"Free", "Planned", "Finished", "Canceled"}]
    /\ exportPath \in BOOLEAN /\ uploadJob \in BOOLEAN
    /\ events \in Seq(Event)
TypeWorker == wpc \in WorkerPcs /\ wstep \in AllSteps
TypeUI ==
    /\ upc \in UIPcs /\ todo \in Seq(Ops) /\ uret \in Returns
    /\ from \in 0..LastStep /\ inv \in 0..FinalizeStep
    /\ wasRunning \in BOOLEAN /\ upd \in {"none", "restart", "invalid"}

IInv ==
    /\ TypeOK /\ CallInv /\ QuietInv /\ StateInv /\ MutexInv /\ CancelInv
    /\ StepInv /\ ApplyInv

-----------------------------------------------------------------------------
(***************************************************************************)
(* What IInv does not say: of the UI tasks, of the results, of the order   *)
(* of the milestones and of the destination of an export.                  *)
(***************************************************************************)

(* A task that is still to be run is the one the worker waits for.         *)
TaskInv ==
    /\ \A i \in 1..Len(events) : events[i].type = "task" => events[i].ctx \in Ctx
    /\ wpc = "task_wait" <=> uiTask # NoCtx
    /\ \A c \in Ctx : ctx[c] = "Planned" => wpc = "task_wait" /\ uiTask = c
    /\ upc = "task" => ctx[Head(events).ctx] = "Planned"

(* The result of a run is in the events, unless the UI thread is about to  *)
(* pick it up in stop() or stop_internal().                                *)
AnnounceInv ==
    state \in {"FINISHED", "CANCELED"} =>
        \/ \E i \in 1..Len(events) : events[i] \in {Completed, Cancelled}
        \/ upc \in {"si_wait", "si_relock"}
        \/ todo # <<>> /\ Head(todo) = "stop"

(* stop_internal() before it has decided whether there is a run to stop.   *)
SiHeld == {"si_call", "si_check", "si_lock", "si_body"}

(* In a run that nobody is about to stop all that is enabled before the     *)
(* milestone of the worker is Done.                                        *)
Working     == wpc \in InsidePcs \cup {"enter"}
Undisturbed == ~Canceled /\ upc \notin SiHeld
Ordered     == \A t \in PrintSteps : t < wstep /\ enabled[t] => step[t] = "Done"

(* set_task() goes on without stopping the worker when it is in one of the *)
(* object milestones of the new task.                                      *)
TaskRunning == /\ wpc \in InsidePcs /\ wstep \in ObjectSteps /\ wstep <= inv
               /\ \A t \in 1..wstep : enabled[t]

OrderInv == Working /\ Undisturbed => Ordered
TargetInv == upc = "task_set" => Quiet \/ wpc = "finalize" \/ TaskRunning

(* While a destination is being set the finalize milestone is not entered. *)
DestInv == Caller = "sched_set" => ~Entered(step[FinalizeStep])

(* Without reslice_until() all milestones are always enabled.              *)
EnabledInv ==
    "reslice_until" \notin Handlers =>
        /\ \A s \in PrintSteps : enabled[s]
        /\ \A i \in 1..Len(todo) : todo[i] # "set_task_until"
        /\ Caller = "task_set" => inv = LastStep

=============================================================================
