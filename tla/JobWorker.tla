------------------------------ MODULE JobWorker ------------------------------
(***************************************************************************)
(* BoostThreadWorker behind a PlaterWorker: the UI thread queues jobs, a    *)
(* worker thread runs them one after the other and sends status updates,   *)
(* calls for the UI thread and finalization messages back through a second *)
(* queue, which the UI thread empties in its idle handler or while it      *)
(* waits for the worker.                                                   *)
(*                                                                         *)
(* Each queue has one producer and one consumer, and consume_one() waits   *)
(* for its predicate under the mutex push() takes: a push or a pop is one  *)
(* action, and waiting is the pop being disabled.  m_running and m_canceled*)
(* are atomics, each read or written by an action of its own.              *)
(***************************************************************************)
EXTENDS Naturals, Sequences

CONSTANTS
    Jobs, NoJob,   \* the jobs, and the null pointer of JobEntry{nullptr}
    MaxOut,        \* bound: a job posts only into an output queue this short
    Timed          \* do the callers of the wait functions give a timeout?

ASSUME JobsAssumption  == NoJob \notin Jobs
ASSUME BoundAssumption == MaxOut \in Nat \ {0}
ASSUME TimedAssumption == Timed \in BOOLEAN

VARIABLES
    inq,       \* m_input_queue
    outq,      \* m_output_queue
    running,   \* m_running
    canceled,  \* m_canceled
    wpc,       \* worker: where it is in run()
    wjob,      \* worker: the entry it has popped
    verdict,   \* worker: e.canceled
    upc,       \* UI thread: where it is in is_idle() or in a wait
    todo,      \* UI thread: calls still to make, the first is under way
    next,      \* UI thread: the job replace_job() is to queue
    ret,       \* UI thread: what the last call returned
    wake,      \* an idle event is due
    accepted,  \* history: jobs queued and neither finalized nor deleted
    asked      \* history: cancel() was called since the worker's last pop

queues  == <<inq, outq>>
flags   == <<running, canceled>>
worker  == <<wpc, wjob, verdict>>
ui      == <<upc, todo, next, ret>>
history == <<accepted, asked>>
vars    == <<queues, flags, worker, ui, wake, history>>

Status         == [type |-> "status",   job |-> NoJob, canceled |-> FALSE]
Call           == [type |-> "call",     job |-> NoJob, canceled |-> FALSE]
Finalize(j, c) == [type |-> "finalize", job |-> j,     canceled |-> c]

Message == [type : {"status", "call", "finalize"}, job : Jobs \cup {NoJob},
            canceled : BOOLEAN]

Ready     == upc = "ready" /\ todo = <<>>
Calls(op) == upc = "ready" /\ todo # <<>> /\ Head(todo) = op

(* The worker has a job in hand, and inside its process(). *)
InHand  == {"start", "begin", "process", "future", "judge", "push"}
InJob   == InHand \ {"push"}

-----------------------------------------------------------------------------
Init ==
    /\ inq = <<>> /\ outq = <<>>
    /\ running = FALSE /\ canceled = FALSE
    /\ wpc = "pop" /\ wjob = NoJob /\ verdict = FALSE
    /\ upc = "ready" /\ todo = <<>> /\ next = NoJob /\ ret = TRUE
    /\ wake = FALSE
    /\ accepted = {} /\ asked = FALSE

(***************************************************************************)
(* The UI thread.  What the user does, and any other event, also makes     *)
(* wxWidgets send an idle event afterwards.                                *)
(***************************************************************************)

(* Mutant: the queue is a stack. *)
PushFront(j) ==
    /\ Ready /\ j \notin accepted
    /\ inq' = <<j>> \o inq /\ accepted' = accepted \cup {j}
    /\ ret' = FALSE
    /\ wake' = TRUE
    /\ UNCHANGED <<outq, flags, worker, upc, todo, next, asked>>

(* queue_job(): the job has been moved from when push() returns bool{job}. *)
Push(j) ==
    /\ Ready /\ j \notin accepted
    /\ inq' = Append(inq, j) /\ accepted' = accepted \cup {j}
    /\ ret' = FALSE
    /\ wake' = TRUE
    /\ UNCHANGED <<outq, flags, worker, upc, todo, next, asked>>

(* cancel(), cancel_all(), replace_job(), stop_queue(), stop_current_job(),*)
(* is_idle() as restart_background_process() calls it, the destructor.     *)
Handlers == {<<"cancel">>, <<"clear", "cancel">>, <<"clear", "cancel", "push">>,
             <<"clear", "cancel", "wait">>, <<"cancel", "wait_current">>,
             <<"is_idle">>,
             <<"clear", "cancel", "wait", "sentinel", "join">>}

Ops == {"cancel", "clear", "push", "wait", "wait_current", "is_idle",
        "sentinel", "join", "process_events"}

(* Mutant: push() without its test "if (job)". *)
UserActionNull(calls) ==
    /\ Ready
    /\ todo' = calls
    /\ next' \in Jobs \cup {NoJob}
    /\ wake' = TRUE
    /\ UNCHANGED <<queues, flags, worker, upc, ret, history>>

UserAction(calls) ==
    /\ Ready
    /\ todo' = calls
    /\ IF calls = <<"clear", "cancel", "push">> THEN next' \in Jobs \ accepted
                                                ELSE UNCHANGED next
    /\ wake' = TRUE
    /\ UNCHANGED <<queues, flags, worker, upc, ret, history>>

(* Any other event: a mouse move. *)
OtherEvent ==
    /\ Ready /\ ~wake
    /\ wake' = TRUE
    /\ UNCHANGED <<queues, flags, worker, ui, history>>

(* The wxEVT_IDLE handler calls process_events(). *)
Idle ==
    /\ Ready /\ wake
    /\ wake' = FALSE
    /\ todo' = <<"process_events">>
    /\ UNCHANGED <<queues, flags, worker, upc, next, ret, history>>

Return(r) == upc' = "ready" /\ todo' = Tail(todo) /\ ret' = r /\ UNCHANGED next

(* m_input_queue.clear() deletes the jobs. *)
Clear ==
    /\ Calls("clear")
    /\ inq' = <<>> /\ accepted' = accepted \ {inq[i] : i \in DOMAIN inq}
    /\ Return(ret)
    /\ UNCHANGED <<outq, flags, worker, wake, asked>>

(* m_canceled.store(true): asks the job the worker has in hand, if any. *)
Cancel ==
    /\ Calls("cancel")
    /\ canceled' = TRUE
    /\ asked' = (asked \/ wpc \in InJob)
    /\ Return(ret)
    /\ UNCHANGED <<queues, running, worker, wake, accepted>>

PushNext ==
    /\ Calls("push")
    /\ inq' = Append(inq, next) /\ accepted' = accepted \cup {next}
    /\ upc' = "ready" /\ todo' = Tail(todo) /\ ret' = FALSE /\ next' = NoJob
    /\ UNCHANGED <<outq, flags, worker, wake, asked>>

-----------------------------------------------------------------------------
(***************************************************************************)
(* is_idle(): three reads one after the other.                             *)
(***************************************************************************)
IdleOps == {"is_idle", "wait", "wait_current"}

Stay(pc) == upc' = pc /\ UNCHANGED <<todo, next, ret>>

Busy == IF Head(todo) = "is_idle" THEN Return(FALSE) ELSE Stay("wait")

IdleInput ==
    /\ \E op \in IdleOps : Calls(op)
    /\ IF inq # <<>> THEN Busy ELSE Stay("idle_run")
    /\ UNCHANGED <<queues, flags, worker, wake, history>>

IdleRunning ==
    /\ upc = "idle_run"
    /\ IF running THEN Busy ELSE Stay("idle_out")
    /\ UNCHANGED <<queues, flags, worker, wake, history>>

(* Idle: is_idle() returns true, the waits return without waiting. *)
IdleOutput ==
    /\ upc = "idle_out"
    /\ IF outq # <<>> THEN Busy ELSE Return(TRUE)
    /\ UNCHANGED <<queues, flags, worker, wake, history>>

-----------------------------------------------------------------------------
(***************************************************************************)
(* consume_one() of the output queue and deliver().  A finalized job is    *)
(* destroyed; a call sets the promise its job may be waiting for.          *)
(***************************************************************************)
Deliver ==
    /\ outq # <<>>
    /\ outq' = Tail(outq)
    /\ accepted' = accepted \ {Head(outq).job}

ProcessOne ==
    /\ Calls("process_events")
    /\ Deliver
    /\ UNCHANGED <<inq, flags, worker, ui, wake, asked>>

ProcessedAll ==
    /\ Calls("process_events") /\ outq = <<>>
    /\ Return(ret)
    /\ UNCHANGED <<queues, flags, worker, wake, history>>

(* wait_for_idle() asks is_idle() again after every message;               *)
(* wait_for_current_job() ends with the first finalization.                *)
WaitOne ==
    /\ upc = "wait"
    /\ Deliver
    /\ IF Head(todo) = "wait" THEN Stay("ready")
       ELSE IF Head(outq).type = "finalize" THEN Return(TRUE)
       ELSE UNCHANGED ui
    /\ UNCHANGED <<inq, flags, worker, wake, asked>>

(* The destructor's wait has a timeout in any case. *)
HasTimeout == Timed \/ todo[Len(todo)] = "join"

(* Mutant: the timeout does not reach consume_one(). *)
WaitForever ==
    /\ upc = "wait" /\ ~Timed /\ outq = <<>>
    /\ Return(FALSE)
    /\ UNCHANGED <<queues, flags, worker, wake, history>>

(* wait_for(): the predicate is still false when the time is up. *)
WaitTimeout ==
    /\ upc = "wait" /\ HasTimeout /\ outq = <<>>
    /\ Return(FALSE)
    /\ UNCHANGED <<queues, flags, worker, wake, history>>

-----------------------------------------------------------------------------
(* The destructor, after wait_for_idle(): JobEntry{nullptr}, then join().  *)
Sentinel ==
    /\ Calls("sentinel")
    /\ inq' = Append(inq, NoJob)
    /\ Return(ret)
    /\ UNCHANGED <<outq, flags, worker, wake, history>>

(* Joined, or given up after ten seconds with a line in the log. *)
Join ==
    /\ Calls("join")
    /\ upc' = "closed" /\ ret' = (wpc = "exited")
    /\ UNCHANGED <<queues, flags, worker, todo, next, wake, history>>

Closed == upc = "closed" /\ UNCHANGED vars

-----------------------------------------------------------------------------
(***************************************************************************)
(* The worker thread: run(), with the job wrapped in a PlaterJob.          *)
(***************************************************************************)
Pop ==
    /\ wpc = "pop" /\ inq # <<>>
    /\ wjob' = Head(inq) /\ inq' = Tail(inq) /\ asked' = FALSE
    /\ wpc' = IF Head(inq) = NoJob THEN "leave" ELSE "start"
    /\ UNCHANGED <<outq, canceled, verdict, ui, wake, accepted>>

(* m_running is set before the queue is unlocked. *)
WPop == Pop /\ running' = TRUE

(* Mutant: the flag of the last cancel() is not cleared. *)
WStartCanceled ==
    /\ wpc = "start"
    /\ wpc' = "begin"
    /\ UNCHANGED <<queues, flags, wjob, verdict, ui, wake, history>>

(* m_canceled.store(false). *)
WStart ==
    /\ wpc = "start"
    /\ canceled' = FALSE
    /\ wpc' = "begin"
    /\ UNCHANGED <<queues, running, wjob, verdict, ui, wake, history>>

(* Messages of process() are followed by wxWakeUpIdle(). *)
Post(msg) ==
    /\ outq' = Append(outq, msg)
    /\ wake' = TRUE
    /\ UNCHANGED <<inq, flags, wjob, verdict, ui, history>>

(* CursorSetterRAII: wxBeginBusyCursor(). *)
WBegin == wpc = "begin" /\ Post(Call) /\ wpc' = "process"

(* update_status() or call_on_main_thread(); the job may wait for its call.*)
WPost ==
    /\ wpc = "process" /\ Len(outq) < MaxOut
    /\ \/ Post(Status) /\ UNCHANGED wpc
       \/ Post(Call) /\ wpc' \in {"process", "future"}

WFuture ==
    /\ wpc = "future" /\ \A i \in DOMAIN outq : outq[i] # Call
    /\ wpc' = "process"
    /\ UNCHANGED <<queues, flags, wjob, verdict, ui, wake, history>>

(* process() returns or throws: ~CursorSetterRAII(), wxEndBusyCursor(). *)
WEnd == wpc = "process" /\ Post(Call) /\ wpc' = "judge"

(* Mutant: m_running is cleared before the finalization is queued. *)
WJudgeEarly ==
    /\ wpc = "judge"
    /\ verdict' = canceled
    /\ running' = FALSE
    /\ wpc' = "push"
    /\ UNCHANGED <<queues, canceled, wjob, ui, wake, history>>

(* e.canceled = m_canceled.load(). *)
WJudge ==
    /\ wpc = "judge"
    /\ verdict' = canceled
    /\ wpc' = "push"
    /\ UNCHANGED <<queues, flags, wjob, ui, wake, history>>

(* Mutant: a canceled job is not finalized. *)
WFinalizeDone ==
    /\ wpc = "push"
    /\ outq' = IF verdict THEN outq ELSE Append(outq, Finalize(wjob, verdict))
    /\ wpc' = "leave"
    /\ UNCHANGED <<inq, flags, wjob, verdict, ui, wake, history>>

(* The finalization message; no wxWakeUpIdle() follows. *)
WFinalize ==
    /\ wpc = "push"
    /\ outq' = Append(outq, Finalize(wjob, verdict))
    /\ wpc' = "leave"
    /\ UNCHANGED <<inq, flags, wjob, verdict, ui, wake, history>>

(* m_running.store(false). *)
WLeave ==
    /\ wpc = "leave"
    /\ running' = FALSE
    /\ wpc' = IF wjob = NoJob THEN "exited" ELSE "pop"
    /\ UNCHANGED <<queues, canceled, wjob, verdict, ui, wake, history>>

-----------------------------------------------------------------------------
UICall ==
    \/ Clear \/ Cancel \/ PushNext
    \/ IdleInput \/ IdleRunning \/ IdleOutput
    \/ ProcessOne \/ ProcessedAll \/ WaitOne \/ WaitTimeout
    \/ Sentinel \/ Join

Worker ==
    \/ WPop \/ WStart \/ WBegin \/ WPost \/ WFuture \/ WEnd
    \/ WJudge \/ WFinalize \/ WLeave

Next ==
    \/ \E j \in Jobs : Push(j)
    \/ \E calls \in Handlers : UserAction(calls)
    \/ OtherEvent \/ Idle
    \/ UICall \/ Worker \/ Closed

Spec == Init /\ [][Next]_vars

(* The threads are scheduled, a job's process() ends however often it posts, *)
(* and an idle event that is due is dispatched however often the user acts.  *)
Fairness == WF_vars(Worker) /\ SF_vars(WEnd) /\ WF_vars(UICall) /\ SF_vars(Idle)

FairSpec == Spec /\ Fairness

(* The same with a user whose mouse does not rest for ever. *)
BusySpec == FairSpec /\ WF_vars(OtherEvent)

-----------------------------------------------------------------------------
(* Every variable keeps its type. *)
TypeOK ==
    /\ inq \in Seq(Jobs \cup {NoJob}) /\ outq \in Seq(Message)
    /\ running \in BOOLEAN /\ canceled \in BOOLEAN
    /\ wpc \in InHand \cup {"pop", "leave", "exited"}
    /\ wjob \in Jobs \cup {NoJob} /\ verdict \in BOOLEAN
    /\ upc \in {"ready", "idle_run", "idle_out", "wait", "closed"}
    /\ todo \in Seq(Ops) /\ next \in Jobs \cup {NoJob} /\ ret \in BOOLEAN
    /\ wake \in BOOLEAN
    /\ accepted \subseteq Jobs /\ asked \in BOOLEAN

QueuedJobs     == {inq[i] : i \in DOMAIN inq}
CurrentJobs    == IF wpc \in InHand THEN {wjob} ELSE {}
FinalizingJobs == {outq[i].job : i \in DOMAIN outq}

(* No job is lost: one that was accepted is in a queue or in the hand of   *)
(* the worker until it is finalized or deleted.                            *)
NoJobLost == accepted \subseteq QueuedJobs \cup CurrentJobs \cup FinalizingJobs

(* Where the threads are, told from the flags and the calls still to make. *)
FlagsTellPlace ==
    /\ running <=> wpc \notin {"pop", "exited"}
    /\ upc \in {"idle_run", "idle_out"} => inq = <<>>
    /\ upc = "idle_out" => ~running
    /\ upc \in {"idle_run", "idle_out", "wait"} => todo # <<>>
    /\ \A i \in DOMAIN todo : todo[i] = "push" => i = Len(todo) /\ next \in Jobs

(* A cancel request seen by a job was made while the worker had it in hand.*)
RequestIsRecent == canceled /\ wpc \in InJob \ {"start"} => asked

(* A job is finalized as canceled only if cancel() was called while the    *)
(* worker had it in hand: no request left from an earlier job cancels it.  *)
CanceledWasAsked == wpc = "push" /\ verdict => asked

(* The inductive invariant. *)
IInv == TypeOK /\ NoJobLost /\ FlagsTellPlace /\ RequestIsRecent /\ CanceledWasAsked

(* The three reads of is_idle() are as good as one: when the last of them  *)
(* finds the output queue empty the worker is dormant, nothing is left to  *)
(* be run or to be finalized (Worker::is_idle, "nothing is left to         *)
(* finalize or take care of in the main thread").                          *)
IdleIsDormant ==
    upc = "idle_out" /\ outq = <<>> => wpc \in {"pop", "exited"} /\ accepted = {}

(* Every call the UI thread makes of the worker ends, with all the turns   *)
(* of its loop: process_events() runs out of messages, and wait_for_idle() *)
(* and wait_for_current_job() return, on the timeout at the latest; so     *)
(* stop_queue() and the destructor end too.  Callers that give no timeout  *)
(* are not safe: wait_for_idle() may then wait for ever.                   *)
CallsEnd == todo # <<>> ~> todo = <<>> \/ upc = "closed"

(* Every job that was accepted is finalized or deleted, if the worker is   *)
(* not destroyed first.                                                    *)
EveryJobEnds ==
    \A j \in Jobs : j \in accepted ~> j \notin accepted \/ upc = "closed"

-----------------------------------------------------------------------------
(* "Ask the current job gracefully to cancel" (Worker::cancel): a job that *)
(* was asked is finalized as canceled, as the unit test requires.          *)
CancelReachesJob == wpc = "push" /\ asked => verdict

=============================================================================
