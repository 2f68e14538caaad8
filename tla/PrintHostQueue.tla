--------------------------- MODULE PrintHostQueue ---------------------------
(***************************************************************************)
(* PrintHostJobQueue and the dialog that lists its jobs.  Three threads:    *)
(* the background slicing thread enqueues a job (prepare_upload()), which   *)
(* appends a row to the dialog and then pushes the job; the thread of the   *)
(* queue uploads the jobs one after the other; the UI thread cancels rows   *)
(* and shows the events it is sent.  A job has no identity of its own: the  *)
(* thread counts the jobs it is through with (job_id), the dialog numbers   *)
(* its rows, and a cancellation is the number of a row in a second channel, *)
(* which the thread reads in the callbacks of the upload under way.         *)
(*                                                                         *)
(* A Channel locks its mutex in push(), pop() and lock_rw(); size_hint() is *)
(* read without it, before the channel is locked.                           *)
(***************************************************************************)
EXTENDS Integers, Sequences

CONSTANTS
    MaxRows,     \* bound: jobs that are enqueued
    MaxCancels,  \* bound: cancellations waiting in the channel
    MaxEvents    \* bound: a progress callback finds a shorter event queue

ASSUME BoundsAssumption == MaxRows \in Nat /\ MaxCancels \in Nat /\ MaxEvents \in Nat

VARIABLES
    jobs,      \* channel_jobs
    cancels,   \* channel_cancels
    jobId,     \* job_id
    prev,      \* is prev_progress 100?
    exit,      \* bg_exit
    pc,        \* thread of the queue: where it is, "none" before it is started
    cur,       \* thread of the queue: the job it has popped
    asked,     \* thread of the queue: cancel in progress_fn(), error_fn()
    attempt,   \* thread of the queue: which transfer of upload() it is in
    pushing,   \* slicing thread: has it appended a row, and not pushed the job?
    open,      \* UI thread: is there a queue? False once it is destroyed
    rows,      \* job_list of the dialog: the states of the rows
    events,    \* events queued for the dialog
    sources,   \* rows whose temporary file exists
    uploaded,  \* history: rows whose upload() has returned true
    retried,   \* history: rows whose upload() went on to a second address
    dismissed  \* history: rows for which the user chose no address

channels == <<jobs, cancels>>
thread   == <<jobId, prev, pc, cur, asked, attempt>>
history  == <<uploaded, retried, dismissed>>
vars     == <<channels, thread, exit, pushing, open, rows, events, sources, history>>

Row      == 0 .. MaxRows - 1
NoRow    == -1
EmptyJob == [row |-> NoRow, cancelled |-> FALSE]

(* Both channels are locked, where the cancellations are looked through.   *)
Locked == {"progress", "failing"}

(* The thread is at a job that it has not counted yet.                     *)
AtJob == Locked \cup {"taken", "resolve", "upload", "report", "abort", "failed", "remove"}

-----------------------------------------------------------------------------
Init ==
    /\ jobs = <<>> /\ cancels = <<>>
    /\ jobId = 0 /\ prev = FALSE /\ exit = FALSE
    /\ pc = "none" /\ cur = EmptyJob /\ asked = FALSE /\ attempt = "only"
    /\ pushing = FALSE /\ open = TRUE
    /\ rows = <<>> /\ events = <<>>
    /\ sources = {} /\ uploaded = {} /\ retried = {} /\ dismissed = {}

-----------------------------------------------------------------------------
(***************************************************************************)
(* The slicing thread: enqueue().                                          *)
(***************************************************************************)

(* start_bg_thread() starts the first thread only; append_job().           *)
Enqueue ==
    /\ open /\ ~pushing /\ Len(rows) < MaxRows
    /\ pc' = IF pc = "none" THEN "loop" ELSE pc
    /\ rows' = Append(rows, "new")
    /\ sources' = sources \cup {Len(rows)}
    /\ pushing' = TRUE
    /\ UNCHANGED <<channels, jobId, prev, cur, asked, attempt, exit, open, events, history>>

NewJob == [row |-> Len(rows) - 1, cancelled |-> FALSE]

(* Mutant: the newest job first. *)
PushFront ==
    /\ pushing /\ pc \notin Locked
    /\ jobs' = <<NewJob>> \o jobs
    /\ pushing' = FALSE
    /\ UNCHANGED <<cancels, thread, exit, open, rows, events, sources, history>>

PushJob ==
    /\ pushing /\ pc \notin Locked
    /\ jobs' = Append(jobs, NewJob)
    /\ pushing' = FALSE
    /\ UNCHANGED <<cancels, thread, exit, open, rows, events, sources, history>>

-----------------------------------------------------------------------------
(***************************************************************************)
(* The UI thread.                                                          *)
(***************************************************************************)

(* The button "Cancel selected", enabled while the state is below ST_ERROR.*)
CancelRow(r) ==
    /\ open /\ pc \notin Locked
    /\ r < Len(rows) /\ rows[r + 1] \in {"new", "progress"}
    /\ Len(cancels) < MaxCancels
    /\ cancels' = Append(cancels, r)
    /\ UNCHANGED <<jobs, thread, exit, pushing, open, rows, events, sources, history>>

(* on_progress(), on_error(), on_cancel(): the event names the new state.  *)
Dispatch ==
    /\ open /\ events # <<>>
    /\ events' = Tail(events)
    /\ rows' = [rows EXCEPT ![Head(events).id + 1] = Head(events).shows]
    /\ UNCHANGED <<channels, thread, exit, pushing, open, sources, history>>

(* The destructor, when the application closes and the slicing thread is   *)
(* gone: stop_bg_thread().                                                 *)
Stop ==
    /\ open /\ ~pushing /\ pc \notin Locked
    /\ open' = FALSE
    /\ IF pc = "none" THEN UNCHANGED <<exit, jobs>>
                      ELSE exit' = TRUE /\ jobs' = Append(jobs, EmptyJob)
    /\ UNCHANGED <<cancels, thread, pushing, rows, events, sources, history>>

Closed == ~open /\ UNCHANGED vars

-----------------------------------------------------------------------------
(***************************************************************************)
(* The thread of the queue.                                                *)
(***************************************************************************)
Emit(id, shows) == events' = Append(events, [shows |-> shows, id |-> id])

WLoop ==
    /\ pc = "loop"
    /\ pc' = IF exit THEN "cleanup" ELSE "pop"
    /\ UNCHANGED <<channels, jobId, prev, cur, asked, attempt, exit, pushing, open, rows, events,
                   sources, history>>

WPop ==
    /\ pc = "pop" /\ jobs # <<>>
    /\ cur' = Head(jobs) /\ jobs' = Tail(jobs)
    /\ pc' = IF Head(jobs).row = NoRow THEN "cleanup" ELSE "taken"
    /\ UNCHANGED <<cancels, jobId, prev, asked, attempt, exit, pushing, open, rows, events,
                   sources, history>>

(* Mutant: the mark of a cancelled job is not looked at. *)
WTakeAny ==
    /\ pc = "taken"
    /\ Emit(jobId, "progress") /\ pc' = "resolve"
    /\ UNCHANGED <<channels, jobId, prev, cur, asked, attempt, exit, pushing, open, rows, sources,
                   history>>

(* A cancelled job is passed over, another one is uploaded: progress 0.    *)
WTake ==
    /\ pc = "taken"
    /\ IF cur.cancelled THEN pc' = "remove" /\ UNCHANGED events
                        ELSE pc' = "resolve" /\ Emit(jobId, "progress")
    /\ UNCHANGED <<channels, jobId, prev, cur, asked, attempt, exit, pushing, open, rows, sources,
                   history>>

(* OctoPrint::upload(): one transfer, or on Windows two, if the name stands *)
(* for an address of each kind; the second is made if the first fails.      *)
WResolve ==
    /\ pc = "resolve" /\ pc' = "upload"
    /\ attempt' \in {"only", "first"}
    /\ UNCHANGED <<channels, jobId, prev, cur, asked, exit, pushing, open, rows, events, sources,
                   history>>

(* Windows, more addresses: the user closes the dialog that lists them and *)
(* upload() returns false, with no callback.                               *)
WDismiss ==
    /\ pc = "resolve" /\ pc' = "remove"
    /\ dismissed' = dismissed \cup {cur.row}
    /\ UNCHANGED <<channels, jobId, prev, cur, asked, attempt, exit, pushing, open, rows, events,
                   sources, uploaded, retried>>

(* progress_fn(): bg_exit, then the hint of the cancel channel.            *)
WProgress ==
    /\ pc = "upload" /\ Len(events) < MaxEvents
    /\ pc' = IF exit THEN "abort" ELSE IF cancels # <<>> THEN "progress" ELSE "report"
    /\ asked' = FALSE
    /\ UNCHANGED <<channels, jobId, prev, cur, attempt, exit, pushing, open, rows, events, sources,
                   history>>

(* error_fn(): the hint of the cancel channel.                             *)
ErrorFn == pc' = (IF cancels # <<>> THEN "failing" ELSE "failed") /\ asked' = FALSE

(* The errors of the first transfer are kept for the message of the second.*)
SecondAddress ==
    pc' = "upload" /\ attempt' = "second" /\ retried' = retried \cup {cur.row}

(* The connection, the test of the host or the transfer fails.             *)
WFail ==
    /\ pc = "upload" /\ attempt # "first"
    /\ ErrorFn
    /\ UNCHANGED <<channels, jobId, prev, cur, attempt, exit, pushing, open, rows, events, sources,
                   history>>

WFirstFails ==
    /\ pc = "upload" /\ attempt = "first"
    /\ SecondAddress
    /\ UNCHANGED <<channels, jobId, prev, cur, asked, exit, pushing, open, rows, events, sources,
                   uploaded, dismissed>>

(* Under both locks, one cancellation after the other: the job in hand, or *)
(* one that waits, whose place in the channel is told by its number.       *)
WCancelOwn ==
    /\ pc \in Locked /\ cancels # <<>> /\ Head(cancels) = jobId
    /\ cancels' = Tail(cancels)
    /\ asked' = TRUE
    /\ IF pc = "failing" THEN Emit(jobId, "cancelled") ELSE UNCHANGED events
    /\ UNCHANGED <<jobs, jobId, prev, pc, cur, attempt, exit, pushing, open, rows, sources, history>>

(* Mutant: idx = cancel_id - job_id. *)
PlaceNext(id) == id - jobId + 1

Place(id) == id - jobId

WCancelWaiting ==
    /\ pc \in Locked /\ cancels # <<>>
    /\ LET id == Head(cancels)
       IN  /\ id > jobId /\ Place(id) \in DOMAIN jobs
           /\ jobs' = [jobs EXCEPT ![Place(id)].cancelled = TRUE]
           /\ Emit(id, "cancelled")
    /\ cancels' = Tail(cancels)
    /\ UNCHANGED <<thread, exit, pushing, open, rows, sources, history>>

(* A job the thread is through with, or that is not in the channel yet.    *)
WCancelIgnored ==
    /\ pc \in Locked /\ cancels # <<>>
    /\ LET id == Head(cancels)
       IN  id < jobId \/ (id > jobId /\ Place(id) \notin DOMAIN jobs)
    /\ cancels' = Tail(cancels)
    /\ UNCHANGED <<jobs, thread, exit, pushing, open, rows, events, sources, history>>

WUnlock ==
    /\ pc \in Locked /\ cancels = <<>>
    /\ pc' = CASE pc = "progress" -> IF asked THEN "abort" ELSE "report"
               [] pc = "failing"  -> IF asked THEN "remove" ELSE "failed"
    /\ UNCHANGED <<channels, jobId, prev, cur, asked, attempt, exit, pushing, open, rows, events,
                   sources, history>>

(* gui_progress is 100 as soon as all bytes are sent; below 100 the number *)
(* may be the previous one or not.                                         *)
WReport ==
    /\ pc = "report" /\ pc' = "upload"
    /\ \/ prev' = TRUE /\ IF prev THEN UNCHANGED events ELSE Emit(jobId, "completed")
       \/ prev' = FALSE /\ Emit(jobId, "progress")
       \/ ~prev /\ UNCHANGED <<prev, events>>
    /\ UNCHANGED <<channels, jobId, cur, asked, attempt, exit, pushing, open, rows, sources, history>>

(* Mutant: nothing is emitted when the transfer is aborted. *)
WAbortSilently ==
    /\ pc = "abort"
    /\ \/ attempt = "only"   /\ pc' = "remove" /\ UNCHANGED <<asked, attempt, retried>>
       \/ attempt = "first"  /\ SecondAddress  /\ UNCHANGED asked
       \/ attempt = "second" /\ ErrorFn        /\ UNCHANGED <<attempt, retried>>
    /\ UNCHANGED <<channels, jobId, prev, cur, exit, pushing, open, rows, events, sources,
                   uploaded, dismissed>>

(* The transfer is aborted: progress_fn() again, with cancel set.  It was  *)
(* not successful, so the second address is tried; if that was the second, *)
(* upload() calls error_fn() with the errors of both.                      *)
WAbort ==
    /\ pc = "abort"
    /\ Emit(jobId, "cancelled")
    /\ \/ attempt = "only"   /\ pc' = "remove" /\ UNCHANGED <<asked, attempt, retried>>
       \/ attempt = "first"  /\ SecondAddress  /\ UNCHANGED asked
       \/ attempt = "second" /\ ErrorFn        /\ UNCHANGED <<attempt, retried>>
    /\ UNCHANGED <<channels, jobId, prev, cur, exit, pushing, open, rows, sources,
                   uploaded, dismissed>>

(* The host has answered: upload() returns true, progress 100.             *)
WSucceed ==
    /\ pc = "upload" /\ pc' = "remove"
    /\ uploaded' = uploaded \cup {cur.row}
    /\ Emit(jobId, "completed")
    /\ UNCHANGED <<channels, jobId, prev, cur, asked, attempt, exit, pushing, open, rows, sources,
                   retried, dismissed>>

WFailed ==
    /\ pc = "failed" /\ pc' = "remove"
    /\ Emit(jobId, "error")
    /\ UNCHANGED <<channels, jobId, prev, cur, asked, attempt, exit, pushing, open, rows, sources,
                   history>>

(* An exception of upload(), as of read_json() in Duet.cpp, ends the thread.*)
WThrow ==
    /\ pc = "upload" /\ pc' = "cleanup"
    /\ Emit(jobId, "error")
    /\ UNCHANGED <<channels, jobId, prev, cur, asked, attempt, exit, pushing, open, rows, sources,
                   history>>

(* Mutant: counted by perform_job() and by the loop. *)
WRemoveTwice ==
    /\ pc = "remove" /\ pc' = "loop"
    /\ sources' = sources \ {cur.row}
    /\ jobId' = jobId + 2
    /\ cur' = EmptyJob /\ attempt' = "only"
    /\ UNCHANGED <<channels, prev, asked, exit, pushing, open, rows, events, history>>

(* Mutant: only an upload removes its file. *)
WRemoveUploaded ==
    /\ pc = "remove" /\ pc' = "loop"
    /\ sources' = IF cur.cancelled THEN sources ELSE sources \ {cur.row}
    /\ jobId' = jobId + 1
    /\ cur' = EmptyJob /\ attempt' = "only"
    /\ UNCHANGED <<channels, prev, asked, exit, pushing, open, rows, events, history>>

(* upload() has returned: remove_source(), job_id++.                       *)
WRemove ==
    /\ pc = "remove" /\ pc' = "loop"
    /\ sources' = sources \ {cur.row}
    /\ jobId' = jobId + 1
    /\ cur' = EmptyJob /\ attempt' = "only"
    /\ UNCHANGED <<channels, prev, asked, exit, pushing, open, rows, events, history>>

JobRows == {jobs[i].row : i \in DOMAIN jobs} \ {NoRow}

(* The end of the thread: the files of the job in hand and of those left.  *)
WCleanup ==
    /\ pc = "cleanup" /\ pc' = "ended"
    /\ sources' = (sources \ {cur.row}) \ JobRows
    /\ UNCHANGED <<channels, jobId, prev, cur, asked, attempt, exit, pushing, open, rows, events,
                   history>>

-----------------------------------------------------------------------------
Thread ==
    \/ WLoop \/ WPop \/ WTake \/ WResolve \/ WDismiss
    \/ WProgress \/ WFail \/ WFirstFails
    \/ WCancelOwn \/ WCancelWaiting \/ WCancelIgnored \/ WUnlock
    \/ WReport \/ WAbort \/ WSucceed \/ WFailed \/ WThrow
    \/ WRemove \/ WCleanup

Next ==
    \/ Enqueue \/ PushJob
    \/ Dispatch \/ Stop \/ Closed
    \/ \E r \in Row : CancelRow(r)
    \/ Thread

Spec == Init /\ [][Next]_vars

(* The threads are scheduled, a transfer ends however many callbacks it    *)
(* makes, the list of addresses is answered, and the UI thread comes back  *)
(* to its event loop.                                                      *)
Fairness ==
    /\ WF_vars(Thread) /\ SF_vars(WSucceed \/ WFail \/ WFirstFails)
    /\ SF_vars(PushJob) /\ WF_vars(Dispatch)

FairSpec == Spec /\ Fairness

-----------------------------------------------------------------------------
Event == [shows : {"progress", "error", "cancelled", "completed"}, id : Row]
Job   == [row : Row \cup {NoRow}, cancelled : BOOLEAN]

(* Every variable keeps its type.                                          *)
TypeOK ==
    /\ jobs \in Seq(Job) /\ cancels \in Seq(Row)
    /\ jobId \in Nat /\ prev \in BOOLEAN /\ exit \in BOOLEAN
    /\ pc \in AtJob \cup {"none", "loop", "pop", "cleanup", "ended"}
    /\ cur \in Job /\ asked \in BOOLEAN /\ attempt \in {"only", "first", "second"}
    /\ pushing \in BOOLEAN /\ open \in BOOLEAN
    /\ rows \in Seq({"new", "progress", "error", "cancelled", "completed"})
    /\ Len(rows) <= MaxRows
    /\ events \in Seq(Event)
    /\ sources \subseteq Row
    /\ uploaded \subseteq Row /\ retried \subseteq Row /\ dismissed \subseteq Row

Taken     == IF cur.row = NoRow THEN 0 ELSE 1
Unpushed  == IF pushing THEN 1 ELSE 0
Waiting   == IF jobs # <<>> /\ jobs[Len(jobs)].row = NoRow THEN Len(jobs) - 1 ELSE Len(jobs)

(* The thread's count and the rows of the dialog agree: job_id is the row  *)
(* of the job in hand, the job at place i of the channel is the one that   *)
(* progress_fn() takes it for, and no event or cancellation is about a row *)
(* that is not there (wxCHECK_RET in PrintHostDialogs.cpp:449, 472, 492).  *)
RowsAgree ==
    /\ cur.row # NoRow => cur.row = jobId
    /\ \A i \in DOMAIN jobs : jobs[i].row # NoRow => jobs[i].row = jobId + Taken + i - 1
    /\ \A k \in DOMAIN events : events[k].id < Len(rows)
    /\ \A k \in DOMAIN cancels : cancels[k] < Len(rows)

(* How many jobs there are, where the thread has one in hand, and that the *)
(* empty job is the last one.                                              *)
CountsAgree ==
    /\ pc \in AtJob => cur.row # NoRow
    /\ pc \in {"none", "loop", "pop"} => cur.row = NoRow
    /\ pc = "none" => jobs = <<>> /\ jobId = 0 /\ rows = <<>>
    /\ Len(rows) = jobId + Taken + Waiting + Unpushed
    /\ open => \A i \in DOMAIN jobs : jobs[i].row # NoRow
    /\ \A i \in DOMAIN jobs : jobs[i].row = NoRow => i = Len(jobs)
    /\ pushing => open

(* A temporary file lives exactly as long as its job: the upload finds it, *)
(* and nothing is left of a job that is done with.                         *)
FilesOwned ==
    pc # "ended" =>
        sources = JobRows \cup ({cur.row} \ {NoRow})
                          \cup (IF pushing THEN {Len(rows) - 1} ELSE {})

(* The inductive invariant. *)
IInv == TypeOK /\ RowsAgree /\ CountsAgree

ShownCancelled(r) ==
    \/ rows[r + 1] = "cancelled"
    \/ \E k \in DOMAIN events : events[k].id = r /\ events[k].shows = "cancelled"

(* A job that is shown, or is about to be shown, as cancelled was not      *)
(* uploaded, whichever job the thread was at when it read the request,     *)
(* unless a second address was tried for it.                               *)
CancelledNotUploaded == \A r \in uploaded \ retried : ~ShownCancelled(r)

(* A row that is shown as failed stays so, and one that is shown as        *)
(* cancelled too, unless a second address was tried for it.                *)
Settled(shows, r) == shows = "error" \/ (shows = "cancelled" /\ r \notin retried)
FinalStateStays ==
    [][\A i \in DOMAIN rows : Settled(rows[i], i - 1) => rows'[i] = rows[i]]_vars

(* Every row ends as completed, failed or cancelled, as long as there is a *)
(* thread and the application is not closed, unless the user chose none of *)
(* the addresses.                                                          *)
Pending(r) == r < Len(rows) /\ rows[r + 1] \in {"new", "progress"}
EveryRowEnds ==
    \A r \in Row :
        Pending(r) ~> ~Pending(r) \/ r \in dismissed \/ ~open \/ pc = "ended"

-----------------------------------------------------------------------------
(* "check if transfer was not canceled before error occured - than do not  *)
(* show the error" (PrintHost.cpp:250): error_fn() does not show an error  *)
(* of a job that is shown, or is about to be shown, as cancelled, as long  *)
(* as the dialog is there.  It fails where a second address is tried.      *)
CancelledShowsNoError == [][open /\ WFailed => ~ShownCancelled(jobId)]_vars

=============================================================================
