# Verification of AnycubicSlicer: slicing, jobs, uploads, undo and drives

AnycubicSlicer (a fork of PrusaSlicer) turns a 3D model into G-code. The
geometry is numerical and sequential; what is hard to test is the machinery
around it: a worker thread slices while the user goes on editing the model,
changes settings, exports, uploads, cancels or closes the window; a second worker
runs the jobs of the user interface, a third one uploads, a fourth one watches the
removable drives. What was sliced is kept
from one run to the next as far as the changes allow, and whatever the user does can be
undone. This project models that machinery in TLA+, model-checks it with TLC and
proves its main safety properties with TLAPS.

All paths below are relative to `src/src/`.

## 1. The system

| component | source | state it keeps | operations |
|---|---|---|---|
| Background slicing process | `slic3r/GUI/BackgroundSlicingProcess.*` | `m_state`, `m_mutex`, `m_condition`, `m_ui_task`, `m_export_path`, `m_upload_job`, `m_step_state` | start, stop, reset, apply, set_task, schedule_export, schedule_upload, reset_export, thread_proc, execute_ui_task, destructor |
| Print milestones | `libslic3r/PrintBase.hpp` | per step: state, timestamp, enabled, warnings; `m_step_active`; `m_state_mutex`; `m_cancel_status` | set_started, set_done, invalidate*, set_task, finalize, cleanup, cancel, restart |
| FFF print processing | `libslic3r/Print.cpp`, `PrintObject.cpp`, `PrintApply.cpp` | the Print's configuration, objects and results | process, export_gcode, apply, clear, invalidate_step and its dependency table |
| Plater (as the caller) | `slic3r/GUI/Plater.cpp` | flags of the current export, the 500 ms timer | reslice, reslice_until_step, update_background_process, restart_background_process, export_gcode, on_process_completed |
| Job worker | `slic3r/GUI/Jobs/BoostThreadWorker.*`, `ThreadSafeQueue.hpp`, `Worker.hpp` | input and output queue, `m_running`, `m_canceled` | push, cancel, cancel_all, process_events, wait_for_current_job, wait_for_idle, run, destructor |
| Print host upload queue | `slic3r/Utils/PrintHost.cpp`, `libslic3r/Channel.hpp`, `OctoPrint::upload()` | job channel, cancel channel, `job_id`, `bg_exit`, `source_to_remove` | enqueue, cancel, progress_fn, error_fn, bg_thread_main, stop_bg_thread |
| SLA print | `libslic3r/SLAPrint.cpp` | milestones of its own | as the FFF print |
| Undo/redo stack | `slic3r/Utils/UndoRedo.*`, `slic3r/GUI/Plater.cpp` | `m_snapshots`, `m_objects` (histories by time interval), `m_shared_ptr_to_object_id`, active and current time | take_snapshot, reduce_noisy_snapshots, undo, redo, clear, collect_garbage, release_least_recently_used |
| Project dirty state | `slic3r/Utils/UndoRedo.cpp`, `slic3r/GUI/ProjectDirtyStateManager.cpp` | `m_saved_snapshot_time`, changed presets | mark_current_as_saved, release_snapshots, project_modified |
| Removable drives | `slic3r/GUI/RemovableDriveManager.*` | `m_current_drives`, `m_last_save_path`, `m_wakeup`, `m_stop`, three mutexes | init, update, status, set_and_verify_last_save_path, eject_drive, volumes_changed, thread_proc, shutdown |
| Updaters, cloud client, single instance check | `slic3r/Utils`, `slic3r/GUI` | download and polling threads | input and output |
| Geometry, G-code generator, arrangement, user interface | `libslic3r`, `slic3r/GUI` | | numerical or presentation |

How they interact. The Plater, on the UI thread, calls the background process;
the process calls its worker thread through `m_state` and `m_condition`; the
worker runs `Print::process()` and reports back by events posted to the
Plater's queue. `Print::apply()` runs on the UI thread under the Print's
`state_mutex` and, whenever it invalidates a milestone that was entered, calls
back into `BackgroundSlicingProcess::stop_internal()`, which releases that
mutex, waits for the worker and takes it again. In the other direction the
G-code export runs a task on the UI thread (thumbnails need OpenGL) and waits for
it. A run that ends in an upload hands its job, from the slicing thread, to the
print host queue, which has its own thread. The list of removable drives, which offers
the targets of an export, is made by a thread of its own and by the UI thread, and meets
the others in nothing but the Plater's event queue. The job worker is independent of all this except that
`restart_background_process()` refuses to start while it is busy. Every handler that
changes the model first takes a snapshot of it for the undo/redo stack; an undo loads
the model back and lets `Print::apply()` find out what has changed. The stack shares
meshes with the model and with the Print, by reference count.

What makes them correct, component by component:

* **Background slicing process**: no data changes under a running milestone; every
  run ends, is announced and can be stopped; stop never hangs; a cancel request
  is for one run only; a UI task runs only while its requester waits; the export
  destination does not change under an export; only current G-code is exported.
* **Milestones**: Done means computed from the present input; Started only while
  the worker is there.
* **FFF print**: the invalidation tables cover every milestone that looks at what
  changed; nothing left over from a cancelled run or from another object gets into the
  G-code.
* **Job worker**: every accepted job is processed and finalized once, in order;
  a cancel reaches the job it was meant for; `is_idle()` means that nothing is
  left to finalize.
* **Print host queue**: every row ends as completed, failed or cancelled; the job id of
  the thread, the place in the channel and the row of the dialog agree; a cancelled
  row is not uploaded; a temporary file lives as long as its job. Where the host has
  several addresses the first and the third do not hold as they stand (section 5).
* **Undo/redo stack**: undo and redo show exactly the state that was recorded, whatever
  was squashed, dropped or released in between; what is listed can be loaded; what is not
  listed takes no memory; an identifier belongs to one object.
* **Removable drives**: the list is what was found last, whoever found it; the window
  learns of every change; a wake-up is not lost; the UI thread never waits for ever.
* **Project dirty state**: a project that counts as unmodified is what is on disk.

PROJECT.json lists what is hard to test in this code, each hazard at its line.

## 2. Modules

| module | what it is |
|---|---|
| `PrintStateBase` | the life of one milestone: Fresh, Started, Canceled, Done, Invalidated and the transitions of `PrintBase.hpp` |
| `BackgroundSlicing` | the UI thread and the worker thread of the background slicing process, action by action; all properties |
| `BackgroundSlicingInv` | the inductive invariant `IInv` in named parts |
| `BackgroundSlicing_proofs` | lemmas and theorems about `IInv` and what follows from it |
| `SlicingRun_proofs` | theorems about UI tasks, results, the destination and the order of the milestones, on top of these |
| `SlicingPipeline` | abstract specification: one job, a pipeline of milestones, input that changes only where nothing valid or running depends on it |
| `SlicingRefinement` | the refinement mapping from `BackgroundSlicing` to `SlicingPipeline` |
| `SlicingRefinement_proofs` | the proof that it is one |
| `JobWorker` | the UI thread and the worker thread of the job worker; all properties and the inductive invariant |
| `JobExecutor` | abstract specification: a first-in first-out executor of jobs with a queue of jobs to finalize |
| `JobRefinement` | the refinement mapping from `JobWorker` to `JobExecutor`, and the invariant its proof needs |
| `JobWorker_proofs` | lemmas and theorems, the refinement included |
| `PrintHostQueue_proofs` | lemmas and theorems |
| `PrintHostQueue` | the slicing thread (as enqueuer), the UI thread (the dialog) and the thread of the print host queue |
| `FFFMilestones` | the milestones of an FFF print by name: the order of `process()`, the invalidation tables, what each step and option is looked at by, data that outlives a milestone |
| `FFFMilestones_proofs` | lemmas and theorems |
| `SnapshotList` | the list of snapshots of the undo/redo stack, shared by the next two |
| `UndoRedoStack` | the stack: snapshots, interval histories of mutable and immutable objects, identifiers by address, release of memory; the refinement mapping to `UndoList` |
| `UndoRedoInv` | the inductive invariant `IInv`, in named parts, of any stack and scene |
| `UndoRedoStack_proofs` | lemmas on the histories and the operations, and theorems |
| `UndoList` | abstract specification: a list of complete project states and a position in it |
| `ProjectDirtyState` | the time of the last save and what counts as modified since; also the instance of its run, as `FFFMilestones` is of its own |
| `RemovableDrives` | the worker, the UI thread and the drives of the Windows build; also the instance of its runs |
| `RemovableDrives_proofs` | its inductive invariant, lemmas and theorems |
| `MCBackgroundSlicing`, `MCSlicingRefinement`, `MCJobWorker`, `MCPrintHostQueue`, `MCUndoRedoStack` | the instances TLC runs |

How they compose: `BackgroundSlicing` and `FFFMilestones` extend `PrintStateBase`;
`SlicingRefinement`, `JobRefinement` and `UndoRedoStack` instantiate the abstract modules
with a refinement mapping. `FFFMilestones` stands on `BackgroundSlicing`: its `apply()` is
one step because `WriteExcludesWorker` says that nothing is written before the worker is
stopped. `ProjectDirtyState` stands on `UndoRedoStack`: a snapshot holds the project
itself because `ImplementsList` says that the histories amount to that. The three
components with threads meet in single calls, which each model takes as an input:
`restart_background_process()` reads `is_idle()` of the job worker (a nondeterministic
answer in `BackgroundSlicing`, the call `is_idle` of a handler in `JobWorker`), and
`prepare_upload()` enqueues a job (the end of the finalize step in
`BackgroundSlicing`, `Enqueue` and `PushJob` in `PrintHostQueue`).

### State of `BackgroundSlicing`

`state`, `mutex` and `waiting` are `m_state`, the owner of `m_mutex` and the
threads asleep in `m_condition`; `cancelStatus` and `cancelCb` are
`m_cancel_status` and whether `m_cancel_callback` is `stop_internal()` or the
empty function; `smutex` is the owner of `state_mutex()`; `step` and `enabled`
are the milestones; `uiTask` is `m_ui_task`, `ctx` the `UITask` objects by
identity; `exportPath` and `uploadJob` say whether `m_export_path` and
`m_upload_job` are set; `events` is the Plater's event queue. `wpc`/`wstep` and
`upc`/`todo` are the program counters of the worker and of the UI thread: `todo`
is the list of calls the handler has still to make, its head being the one under
way. `from`, `inv`, `wasRunning`, `upd`, `uret` are locals of the UI thread's
functions. `outdated` is the one history variable: the milestones whose input was
written since they were last started.

### Granularity

An action is what a thread does between two points where the other one can see
or delay it. A mutex is taken by its own action when the code does something
observable while holding it; a critical section that only reads and writes data
under one mutex is one action guarded by the mutex being free. `wait` is two
actions: release and sleep, then wake with the mutex, test, sleep again.
`notify_one` is an action after the unlock, as in the code, and wakes any one
sleeping thread (the same condition variable serves both directions).
`SpuriousWake` wakes a thread nobody notified. `m_state` is read by
`stop_internal()` (SiCheck) and by `running()` without the mutex, as in the code.

### Abstractions

* Milestones are a pipeline `1..LastStep`: object steps, print steps, and last
  `psGCodeExport`; `FinalizeStep` is `bspsGCodeFinalize`. A changed configuration
  affects the milestones from some `k` on, which is how `invalidate_step()`
  propagates, in the pipeline's order; the finer dependency table is the subject of
  `FFFMilestones`. Object steps of several objects are one sequence of
  milestones.
* Slicing itself is the action `WCompute`; it may instead throw (`WThrow`), for
  a cancellation noticed inside it or for any error.
* Validation, the "background processing" preference and a busy job worker are
  nondeterministic choices.
* The handlers of the Plater are the lists of calls in `Handler`; a handler runs
  to its end before the next event (there is no nested event loop in these).

### State and actions of `JobWorker`

`inq` and `outq` are the two queues, `running` and `canceled` the two atomics, `wpc`,
`wjob` and `verdict` the place of `run()` and its entry; `upc` and `todo` the place of
the UI thread and the calls its handler has still to make; `wake` is a pending idle
event. `accepted` (jobs queued and neither finalized nor deleted) and `asked` (a cancel
since the worker's last pop) are history variables. Each queue has one producer and
one consumer and its mutex is held for the push or the pop alone, so each of these is
one action; each access to an atomic is one action. `is_idle()` is three actions, one
per read. A job's `process()` posts status updates, calls on the UI thread and waits for
them (`WPost`, `WFuture`), and ends (`WEnd`). `MaxOut` bounds the output queue a
job posts into; the real queue's limit is its memory. A wait with a timeout may give
up at any moment its queue is empty. Nested event loops (a message box opened by
`finalize()`) are not modelled, nor the status bar.

### State and actions of `PrintHostQueue`

`jobs` and `cancels` are the two channels, `jobId`, `prev`, `exit` and `cur` the
members and locals of the thread, `asked` is `cancel` in `progress_fn()` and the
negation of `do_emit_err` in `error_fn()`; `rows` and `events` are the dialog's states
and its event queue; `sources` the rows whose temporary file exists; `attempt` is where
the job in hand is in its addresses. `uploaded`, `retried` (a second address was tried) and
`dismissed` (no address was chosen) are history variables. A job's row is its identity in
the model only: the code has none.
Between the lock and the unlock of the two channels (`Locked`) the cancellations are
handled one per action while the other threads can neither push nor cancel, but can
dispatch the events already sent. `size_hint()` without the lock is an action before
the lock is taken. Progress numbers are "below 100" or "100".

An attempt to upload calls back any number of times, then succeeds, fails, is aborted or
throws (`OctoPrint::upload_inner_with_resolved_ip()`, `Duet::upload()`, `Http.cpp`). How
many attempts there are is `OctoPrint::upload()` (`WResolve`), which on Windows asks for
the addresses of the host: with one, and with the clients that have no such search, there is
one attempt, which ends the job; with two, an attempt at the first that failed
or was aborted is followed by one at the second, with callbacks of its own and without
any memory of the request (`WFirstFails`); with more the user chooses
one, or dismisses the list and `upload()` returns false without a callback
(`WDismiss`). `MaxRows`, `MaxCancels` and `MaxEvents`
bound the jobs, the cancellations in the channel, and the event queue at which a
progress callback comes. `Stop` is the end of the application, when the
slicing thread has been joined.

### State and actions of `FFFMilestones`

`step` is the state of every milestone, of each PrintObject (`<<o, "posSlice">>`, ...) and
of the Print (`<<0, "psWipeTower">>`, ...). What a milestone computed is one bit: it is in
`fresh` while no option, object or milestone it looks at has changed since it was entered
and while it followed from its inputs. `points` are the `generated_support_points` that the
objects of one ModelObject share, `split` and `typed` the slices split by surface type and
the flag `m_typed_slices`, `ironed` the ironing passes in the fills: the data that outlives
the milestone that made it.

Two pairs of tables face each other. What the code invalidates: `Row` (an option's steps in
`invalidate_state_by_config_options()` of Print and PrintObject), `DependentObjectSteps` and
`DependentPrintSteps` (`invalidate_step()`). What really looks at it, from the bodies of the
steps: `OptionReaders` and `StepReads`. The seventeen options are one of each kind of row:
read by one step or by several, by steps of the object, of the Print or of both, and
one that no row names, which invalidates everything. `fill_density` has two entries, since its
row goes back to the perimeters only when the density becomes or was 0 or 100 %. Nothing
relates the two pairs but the properties.

`OptionReaders` follows the calls of a step to the end: `posPrepareInfill` ends in
`bridge_over_infill()`, which fills the layers with their sparse infill to find the anchors
of the bridges, and so looks at whatever `group_fills()` looks at; the compensation of the
elephant foot in `posSlice` looks at the width of the first layer. Some reads need
several regions in an object (which are compared by their perimeter options, and
merged when they print anything) or several extruders: `SeveralRegions` and
`SeveralExtruders`. `Covered(k)` says that the row of an option reaches all its readers. With
one region and one extruder it holds for fourteen options and fails for `fill_angle`,
`top_fill_pattern` and `first_layer_extrusion_width` (section 5).

`ApplyOption`, `ApplyInstances` and `ApplyObjects` are `Print::apply()` for one change,
possibly with the worker inside a milestone: `Settle` invalidates, stops the worker if
something entered is invalidated (what it was doing is Canceled), and ends with `cleanup()`.
`EndRun` is the end of a run, finished, cancelled or thrown out of, with `finalize()` and
`cleanup()`. The milestones of an object that is not there keep the state Fresh. Options are
shared by all objects. `Halfway` names the steps that leave half-made data when they are
interrupted; the runs that pass leave it empty, `pm_ironing` shows why.

### State and actions of `UndoRedoStack` and `ProjectDirtyState`

`stack` is the `StackImpl`: the snapshots, one history per mutable object (the model, the
gizmos manager and each object), one per immutable one (a mesh or a convex hull), the map
from addresses to identifiers, and the two times. `scene` says where the shared object of
each object of the model lives, `heap` what lives there. An address is free once neither
the scene nor the stack refers to it, and is used again: identifiers are named by
the address and the time at which they were given out, so that two lives of an address
can be told apart. Other references (the Print's, the clipboard's) are left out: they only
keep an address from being used again. Meshes and hulls have addresses of their own.

`Action` is any handler of the plater that takes a snapshot and then changes one object:
deletes it, gives it a shared object that is alive (a copy or a paste) or a new one.
`EnterGizmo`, `LeaveGizmo` and `NewProject` take snapshots of their types. `UndoTo` and
`RedoTo` are `undo_redo_to()` for any entry of the list, the buttons being its nearest entry.
Each ends in `release_least_recently_used()`, where the amount of memory is a
nondeterministic choice: any set of hulls nobody else uses, any number of the oldest
snapshots before the active one. `LeaveGizmo` requires that the snapshot of entering the
gizmo is still in the list (section 5). `MaxTime` bounds the logical time.

In `ProjectDirtyState` a snapshot holds the project, `disk` is what was saved last, and
`Garbage` are the types the field `snapshot_type` of a captured topmost snapshot may have:
`undo_redo_to()` does not initialise it.

### State and actions of `RemovableDrives`

`attached` are the drives that are there, `volumes` and `refreshes` the messages and events
the UI thread has not seen, which are told apart by their kind only, so that a number is
enough. `list` is `m_current_drives` with the value of the history variable `changes` at
which it was enumerated; `shown` the list `status()` read when the buttons were last shown
(the preference "background processing" is on: otherwise no button depends on it once the
plate is sliced). `inside` and `listMutex` are the owners of `m_inside_update_mutex` and
`m_drives_mutex`; `m_thread_stop_mutex` is held by the worker at "falling", between the
predicate and the sleep of `wait()`, and by `SetStop` for the step itself.

`update()` is seven actions, the same for both threads: the wake-up is consumed, the lock
tried or waited for, the drive letters read, their volumes asked for (a drive may be gone by
then), the event posted, the list stored. `volumes_changed()` is two, the flag and
the notification. `eject_inner()` succeeds, and the drive goes, or fails. Spurious
wake-ups are left out: they lead back to the predicate, and only hide a lost one.
`MaxChanges` bounds how often drives come and go.

## 3. Runs

The instances of `BackgroundSlicing` have one object step, one further print step (`LastStep = 2`) and
the finalize step: the smallest pipeline with an object step, a print step that
`set_task()` can disable, an export that follows another step, and the finalize
step. `MaxEvents` bounds only the queue length at which a new user action is
taken; posted events are never dropped. `Ctx = {c1, c2}`: the worker plans one
task at a time, and an old one may still be in the queue. `NoCtx` is the null
pointer. Symmetry over `Ctx` is used in the runs without liveness properties.

| run | handlers | shows |
|---|---|---|
| `bg_safety` | all but the upload, which differs from the export only in `uploadJob` | type invariant, the seven invariants below, and `ImplementsPipeline` |
| `bg_live` | all but `reslice_until` | `UINeverStuck`, `RunEnds` under fairness; `DestinationStable`, `ExportsCurrentGCode` |
| `jw_worker` | three jobs, every call of the worker's interface | invariants, `ImplementsExecutor`, `CallsEnd`, `EveryJobEnds` |
| `pm_steps` | one object of one region, one extruder, no wipe tower, the fourteen options whose rows reach their readers | type invariant, `DoneIsFresh`, `PrerequisitesDone`, `ActiveInputsStable` |
| `ur_stack` | two objects, two shapes, one address of each kind, times up to 5 | five invariants, `ImplementsList` |
| `rd_drives` | one drive that comes and goes three times | type invariant, `ChangesShown`, `NoOlderList`, `CallsReturn` |
| `ph_queue` | three uploads, each to one address, to two in turn, or to one of a list; one cancellation at a time in the channel | invariants, `FinalStateStays`, `EveryRowEnds` |

The other five runs each show a violation and are listed in section 5.

Background slicing:

* `WriteExcludesWorker`: `Print::apply()` and `Print::clear()` never write data of a
  milestone the worker is inside.
* `DoneIsCurrent`: a milestone that counts as Done was computed from current input.
* `StartedOnlyInRun`: no milestone stays Started after its run.
* `CancelDoesNotLinger`: an idle process has no cancel request pending.
* `UITaskAlive`: a task runs on the UI thread only while the worker waits for it.
* `LockContract`: who must and who must not hold `state_mutex`.
* `ResultAnnounced`: a run that ended has an event in the queue whenever the UI
  thread is in its event loop.
* `DestinationStable`: the destination does not change under the finalize step.
* `ExportsCurrentGCode`: the finalize step is entered with a destination only over a
  Done, current `psGCodeExport`. It fails with `reslice_until` (section 5).
* `UINeverStuck`: the UI thread always returns from `stop()`, `stop_internal()`,
  `start()` and the join.
* `RunEnds`: every run that was started ends.
* `ImplementsPipeline`: all of it implements `SlicingPipeline`, where the input of a
  milestone changes only while nothing valid or running depends on it.

Job worker:

* `NoJobLost`: a job that was accepted is in a queue or in the worker's hand until it is
  finalized or deleted.
* `IdleIsDormant`: three reads of `is_idle()`, one after the other and without a lock, are
  as good as one: if they all say so nothing is left to run or to finalize.
* `CanceledWasAsked`: no request of an earlier job cancels a later one.
* `ImplementsExecutor`: jobs run in order, one at a time, each that began is finalized
  once and in order, and `cancel_all()` deletes only jobs that did not begin.
* `CallsEnd`: every call the UI thread makes ends, with all turns of its loop: the turns of
  `wait_for_idle()`, each of which consumes a message and may be followed by another wait,
  do not count as an end, its return does; also where the job waited for waits
  for the UI thread. The callers of the program give a timeout (`Timed = TRUE`); without one
  the property fails (section 5).
* `EveryJobEnds`: an accepted job is finalized or deleted.

Print host queue:

* `RowsAgree`: the thread's count is the row of the job in hand, the place in the channel is
  the one `progress_fn()` computes, and no event is about a row that is not there.
* `FilesOwned`: a temporary file exists exactly as long as its job.
* `CancelledNotUploaded`: a row shown, or about to be shown, as cancelled was not uploaded,
  unless a second address was tried for it.
* `FinalStateStays`: "Error" is final, and "Cancelled" unless a second address was tried.
* `EveryRowEnds`: every row ends, while there is a thread and the application is open,
  unless the user dismissed the list of addresses.

The three exceptions are what the code does in these cases, not what it should do: section 5
lists them. A row for which they do not apply is one of any other client, of another
system than Windows, or of a host with one address or a chosen one.

FFF print:

* `DoneIsFresh`: a milestone that is valid was computed from the options, objects and
  milestones as they are now, and from nothing left over.
* `PrerequisitesDone`: a valid milestone rests on valid ones: `invalidate_step()`, which does
  not recurse, forgets none.
* `ActiveInputsStable`: nothing a running milestone looks at changes under it.

The first and the third are about the options whose rows reach their readers; with any of the
three others in `Options` TLC finds them violated within ten states (section 5).
`PrerequisitesDone` holds for all.

Undo/redo stack:

* `SnapshotsLoadable`: every listed snapshot can be loaded; only a hull may be missing.
* `NoOrphanData`: histories are sorted and disjoint, and each interval covers a listed
  snapshot. The second part leaves out the data of an object with a hull: when a hull that
  was thrown away is calculated anew after an undo, the object refers to another hull than
  the data it was loaded from, and the next snapshot cuts that data short instead of
  extending it. TLC finds such a state with `Objects = {hulled}`, two hull addresses and
  logical time 7; the piece left over goes with the next release of older snapshots.
* `PointersCurrent`: an address has the identifier of the object that lives there, or none.
* `StackValid`: the active snapshot is in the list and not the first one, times increase.
* `ImplementsList`: undo and redo show the state that was recorded; release of memory
  forgets the oldest states and alters none.

Removable drives:

* `ChangesShown`: the buttons show the drives of the list, or an event is under way that
  makes the window read it again. The event is posted before the list is stored.
* `NoOlderList`: of two enumerations the older never replaces the newer one.
* `CallsReturn`: the UI thread comes back from every call, from the join of the worker too.

`MaxEvents = 1` is enough for an event of an earlier run to be in the queue while
the user acts; the queue then grows to three with what the runs post. `bg_live`
takes `MaxEvents = 0`: the waits it is about do not depend on the queue, and its two safety
properties hold with `MaxEvents = 1` as well (`SPECIFICATION Spec`, 1.4 million states).
The inductive invariants (`IInv`) are not among the invariants of the runs, since they are
proved; each can be added to the configuration of its component.

Three jobs let one be finalized, one run and one wait; three rows let one be uploaded
while two wait, which is what places and counts can disagree about. One message (or one
event) before the next is posted is enough for every order of two threads' steps. One
cancellation in the channel may be of the job in hand, of one that waits, of one that
is over or not pushed yet; what two of them in the channel add is proved, not checked
(section 4).

One object is enough for the tables, whose entries are about an object and the Print; two
share support points and tell apart the order of the phases: `DoneIsFresh` with
`MaxObjects = 2` and `Options = {"fill_density", "support_material_threshold"}` passes as
well (984 thousand states), and is proved for any number of objects. Logical time 5 lets a project be edited four
times, undone, edited again and squashed, with one object deleted and brought back; one
address of each kind is what makes an address be used again as soon as it is free. Two
meshes at time 4 pass as well. One drive is enough for two lists that differ, and with
three changes for both threads to find one each; two drives that change twice (1.1 million
states) pass as well.

Deadlock is checked but in `ur_stack` and `ur_saved`, where `MaxTime` ends the behaviours,
and in `rd_drives` and `rd_wake`, where the window is closed at the end (`CallsReturn` says
that nothing else stops the UI thread); in the other components
`Terminated` and `Closed` are the states after the destructors, everything else must go on.

### Fairness

`FairSpec` assumes weak fairness of the UI thread inside a handler (`UICall`: a
thread is scheduled, and its waits are for the worker), strong fairness of the
worker (the two mutexes are free again and again, and the UI thread holds them
only inside handlers), and strong fairness of the dispatch of posted events (the
event queue is first in, first out and user actions do not overtake it for ever).
Nothing is assumed of user actions, and nothing of `SpuriousWake`.

`JobWorker`: weak fairness of the worker and of the UI thread inside a call, strong
fairness of `WEnd` (a job's `process()` ends, however often it posts) and of `Idle` (an
idle event that is due is dispatched). `BusySpec` adds that some other event always comes:
`run()` does not call `wxWakeUpIdle()` after the finalization message, so without another
event it may stay in the queue (section 5).

`PrintHostQueue`: weak fairness of the thread and of the dispatch of events, strong
fairness of the end of an attempt to upload (the libraries time out) and of the push, which needs
a mutex that is free again and again. The fairness of the thread covers the list of
addresses: the user answers it or dismisses it some time.

`RemovableDrives`: weak fairness of the worker and of the UI thread inside a call, strong
fairness of the dispatch of the two kinds of events. The mutexes need no more: who holds
one comes to its end without the other thread.

## 4. Proofs

`BackgroundSlicing_proofs` proves the first seven, `SlicingRun_proofs` the next five and
`SlicingRefinement_proofs` the last, for every number of milestones, contexts, events
and every set of handlers, from the two assumptions `StepsAssumption` and
`InstanceAssumption` only:

| theorem | property |
|---|---|
| `Invariance` | `Spec => []IInv` |
| `TypeCorrect` | `TypeOK` |
| `ApplyExcludesWorker` | `WriteExcludesWorker` |
| `DoneMilestonesCurrent` | `DoneIsCurrent` |
| `NothingStartedOutsideRun` | `StartedOnlyInRun` |
| `NoCancelLeft` | `CancelDoesNotLinger` |
| `StateMutexContract` | `LockContract` |
| `RunInvariance` | the second half of the inductive invariant |
| `UITaskRunsAlive` | `UITaskAlive` |
| `ResultIsAnnounced` | `ResultAnnounced` |
| `DestinationIsStable` | `DestinationStable` |
| `ExportedGCodeIsCurrent` | `ExportsCurrentGCode`, where `"reslice_until" \notin Handlers` |
| `SlicingImplementsPipeline` | `ImplementsPipeline` |

The argument. None of these is inductive. `StateInv` ties `m_state` to the place
of the worker; `MutexInv` says who holds each mutex, from the program counters;
`CancelInv` says that a cancel request exists only between `stop()` or
`stop_internal()` raising it and the worker's `restart()`; `StepInv` says that the
milestone the worker is inside is Started unless the UI thread has just
invalidated it and is on its way to stop the worker. That is the heart of it:
between `try_invalidate()` and the return of `stop_internal()` the UI thread holds
`state_mutex` or waits for the worker with the cancel status set, so the worker
cannot pass `set_done()`. `ApplyInv` carries what `apply()` and `clear()` have
invalidated up to the point where they write. `CallInv` and `QuietInv` are about
the handlers: which call is under way, and that the calls that need a stopped
process (`reset_export`, `clear`, `invalidate_all`, the join) come after a `stop()`
in the same handler. Each part is preserved by every action, one lemma per part
(`CallStep`, `QuietStep`, `StateStep`, ...), `NextIInv` puts them together, and the
theorems about the properties follow from `IInv` by propositional reasoning.

`IInv` says nothing of tasks, results, destinations and of the order of the milestones;
`RunInvariance` adds a part for each. `TaskInv`: a task that is still to be run is the one
the worker waits for, as the worker withdraws it before it leaves. `AnnounceInv`: a run that
has ended has its event in the queue, or the UI thread is on the way to pick the result up
itself. `DestInv`: while `schedule_export()` or `reset_export()` sets the destination the
finalize milestone is not entered, since both are called over a stopped process or have
tested `running()`. `OrderInv` is the invariant the refinement rests on: in a run that nobody
is about to stop, every enabled milestone before that of the worker is Done; it is not true
while the UI thread is between an invalidation and the stop that follows, which is what
`Undisturbed` excludes. `TargetInv` and `EnabledInv` are its counterparts in `set_task()`. The
premise of `ExportedGCodeIsCurrent` is necessary: with that handler the run
`bg_reslice_until` violates the property (section 5).

For `SlicingImplementsPipeline` the steps that the abstract pipeline does not see are one
lemma (`Unseen`); the others are one lemma each, which names the abstract step and proves
its guard from `IInv` and `OrderInv`.

`JobWorker_proofs` proves, for every set of jobs, every `MaxOut`, with or without
timeouts, from `JobsAssumption`, `BoundAssumption` and `TimedAssumption` only:

| theorem | property |
|---|---|
| `Invariance` | `Spec => []IInv` |
| `TypeCorrect` | `TypeOK` |
| `JobsKept` | `NoJobLost` |
| `IdleReadsSuffice` | `IdleIsDormant` |
| `NoStrayCancel` | `CanceledWasAsked` |
| `PlaceInvariance` | `Spec => []PlaceInv` |
| `WorkerImplementsExecutor` | `ImplementsExecutor` |

Here the strengthening is `FlagsTellPlace` (`m_running` is set exactly while the worker has
an entry it has not left, what a partial `is_idle()` has seen still holds, and a job to be
pushed is a job) and `RequestIsRecent` (between `WStart` and the verdict a cancel status
was set by a cancel of that time). `IdleIsDormant` follows from `NoJobLost`: the input
queue was empty when it was read and only the UI thread fills it, the worker is
dormant once `m_running` is clear, so an accepted job could only be in the output
queue, which is read last.

`PlaceInv` is what the refinement needs beside it: a job is in one place at a time and only
while it is accepted (`OnePlace`), and the null pointer that ends the thread is the last entry
of the input queue, put there when no push can follow (`LastEntry`). Without the latter the
abstract queue, which has no such entry, would not be the front part of the real one.

`PrintHostQueue_proofs` proves, for every number of rows, cancellations and events, from
`BoundsAssumption` only:

| theorem | property |
|---|---|
| `Invariance` | `Spec => []IInv` |
| `TypeCorrect` | `TypeOK` |
| `CountIsRow` | `RowsAgree` |
| `FilesFollowJobs` | `FilesOwned` |
| `CancelledJobsNotUploaded` | `CancelledNotUploaded` |
| `FinalRowsStay` | `FinalStateStays` |

`RowsAgree` needs `CountsAgree`: the number of rows is the number of jobs the thread is
through with, in hand, in the channel and not pushed yet. That is what makes the row
of a new job the next number of the channel, keeps a cancellation off the empty job
that ends the thread, and tells that the file `remove_source()` removes is not that of
another job. Sixteen of the thread's actions change neither the jobs nor the count; they
are the predicate `Quiet`, and one lemma is enough for them.

`CancelledNotUploaded` and `FinalStateStays` rest on what the thread has told the dialog: an
event that ends a row is about a job the thread is through with or is about to drop, at most
one such event is ever sent for a row, and the numbers of the events in the queue are those
of rows that are there. A row for which a second address was tried is the exception, since
its cancellation does not end the job: `retried` only grows, and every such clause excepts
those rows and no others.

`FFFMilestones_proofs` proves, for every number of objects, from `MilestonesAssumption` and
the premise `Plain` (no wipe tower, supports that do not look at bridges, no step that leaves
half-made data; each of the three is necessary, section 5). Freshness needs the premise
`AllCovered` as well, that every option which is changed is `Covered`; the others hold for any
options of the table:

| theorem | property |
|---|---|
| `MilestonesInvariant` | `Spec => []MInv` |
| `MilestonesTypeOK` | `TypeOK` |
| `MilestonesPrerequisitesDone` | `PrerequisitesDone` |
| `MilestonesDoneIsFresh` | `DoneIsFresh`, where `AllCovered` |
| `MilestonesActiveInputsStable` | `ActiveInputsStable`, where `AllCovered` |
| `CoveredOptions` | with one region and one extruder fourteen options are covered |
| `UncoveredOptions` | three options are covered in no print; `perimeter_speed` is not where there are several regions |
| `PlainPrintIsFresh` | `DoneIsFresh` and `ActiveInputsStable` for changes of the fourteen options in prints of one region and one extruder, without a premise about rows and readers |

The tables are opened entry by entry (`ReadsTable`, `RowTable`, ...), once, and give
the facts the rest stands on: `InputsEarlier` (what a milestone looks at comes before it
in `process()`), `CascadeClosed` (what is invalidated takes along all that looks at it) and
`RowNames` (a row names steps, and the ironing only with the infill it irons). That a row reaches the readers of its option is a
premise where it is needed, and a theorem of its own for the options of which it is true. `MInv`
says unconditionally what does not depend on it, and that the rest follows from
`AllCovered`. It adds to the properties what
makes them inductive: a milestone of an object that is not there is Fresh; the support
points that are kept are not outdated; slices that are split are known to be, and a step
that works on them has restored them; the fills of an infill under way or done carry no ironing
until the ironing is done. All ways of `apply()` and the end of a run are one lemma about `Settle`, which
asks of what is invalidated that it is closed under the dependencies and contains the
readers of what has changed.

`RemovableDrives_proofs` proves, for any drives and any number of changes, from
`DrivesAssumption` only:

| theorem | property |
|---|---|
| `DrivesInvariance` | `Spec => []DrivesInv` |
| `DrivesTypeOK` | `TypeOK` |
| `NoChangeUnannounced` | `ChangesShown` |
| `ListNeverOlder` | `NoOlderList` |

`LocksHeld` says from the places of the threads who owns the two mutexes, `FoundIsNewer` that
what a thread inside `update()` has found is at least as new as the list, which nobody else
can replace meanwhile, and that a list about to be stored is the old one or announced.
`HandlerKept` is why it is announced: as long as the worker is not over, or the UI thread
not closed, there is a handler to post to.

`UndoRedoStack_proofs` proves, for any objects, hulls, addresses, shapes and any bound on the
time, from `StackAssumption` only:

| theorem | property |
|---|---|
| `StackInvariance` | `Spec => []IInv` |
| `TypeCorrect` | `TypeOK` |
| `LoadsSucceed` | `SnapshotsLoadable` |
| `NothingOrphaned` | `NoOrphanData` |
| `NoStalePointer` | `PointersCurrent` |
| `AlwaysValid` | `StackValid` |

The operations build their result from stacks that are never assigned: `undo()` records the
state on top, removes the placeholder, changes the active time and only then releases
memory. So the invariant of `UndoRedoInv` is made of predicates of any stack. `StackInv` says of
a stack that its list is in order, that the two maps agree, that no identifier is of the
future (`IdsPast`, or an address used again could get an identifier that is still recorded
somewhere), that what a captured snapshot lists can be loaded (`Loadable`), that objects and
shared objects are recorded at its time only if the model of that time has them
(`Recorded`), and that what is recorded is in use (`DataInUse`). Beside it `HeapHolds` ties the
recorded shapes to the memory, and `Unchanged` the scene to the active snapshot: until the
program records again, the scene is what was loaded, but for the addresses of hulls made
anew.

That is where the properties come from. `take_snapshot()` cuts every history at the active
time and extends the last interval if the data is the same. An interval that was cut and not
extended must have a snapshot of its own before the cut: if its only snapshots came after,
it covered the active one, so by `Unchanged` and `Recorded` its data is that of the scene and
would have been extended (`ActiveData`, `TakenInUse`). The objects with a hull are the ones
for which the scene may differ, which is why `NoOrphanData` leaves them out.

The proof has four layers: the operators on histories (`ReleaseAfterFacts`,
`ReleaseBeforeFacts`, `RecordMutable`, ...: which entries there are afterwards and what the
history shows at each time); operations that only let go of something, for which `Shrunk` says
that what the remaining snapshots show stays (`ReleaseShrinks`, `ReduceShrinks`, `ShrunkKeeps`);
`take_snapshot()` (`TakeKeeps`) and `load_snapshot()` (`LoadKeeps`); and one lemma per
operation of the plater. Binary searches are counted by cardinalities in the model, so
the first lemmas are about counting a prefix of a sequence.

Only model-checked: `ImplementsList`, the refinement of the undo/redo stack, and all liveness
properties (`UINeverStuck`, `RunEnds`, `CallsEnd`, `EveryJobEnds`, `EveryRowEnds`,
`CallsReturn`), since liveness under fairness is out of the prover's reach.

## 5. Where the code departs from its comments

Each run named here checks one statement a comment or a message makes, and TLC
finds a behaviour of the code that violates it.

| run | statement | behaviour |
|---|---|---|
| `bg_reslice_until` | Plater.cpp:3776, `set_task()` will "restart slicing for the whole object" | while a wanted object step runs it does not restart, and the print steps stay disabled: G-code of an earlier configuration is exported |
| `jw_cancel_lost` | Worker.hpp:24, `cancel()`: "Ask the current job gracefully to cancel", and the unit test slic3r_jobs_tests.cpp:92 | the job is popped, `cancel()` sets the flag, `run()` clears it: the job runs to its end |
| `ur_saved` | UndoRedo.hpp:158, "Is the project modified with regard to the last "saved" state" | when the saved snapshot is released, UndoRedo.cpp:1090 takes the snapshot before the released ones for the same state without testing whether that one modifies the project: a project that counts as unmodified is not what was saved |
| `rd_wake` | RemovableDriveManager.cpp:716, `volumes_changed()` is to "Signal the worker thread to wake up and enumerate removable drives." | flag and notification come without the mutex: between the predicate and the sleep of the worker the notification is lost, and the new drive is not in the list until another volume comes or goes, or a call enumerates |
| `pm_ironing` | PrintObject.cpp:885, `cleanup()` is to "release data for its milestones that were invalidated or canceled" | a run cancelled inside the ironing leaves passes in the fills of an infill that stays Done: the next run irons these layers again |

Also seen while modelling, not kept as runs of their own. First those that TLC shows with a
small change of a configuration, or that a theorem states:

* Worker.hpp:43, `wait_for_idle()` is to "Wait until the whole job queue finishes. Timeout
  will only be considered if not zero.": without a timeout (as the unit tests call it,
  slic3r_jobs_tests.cpp:52) it may consume the finalization message before `m_running` is
  cleared, and waits for another one for ever. `CallsEnd` fails in `jw_worker` with
  `Timed = FALSE`, already with one job.
* PrintHost.cpp:250, `error_fn()` is to "check if transfer was not canceled before error
  occured - than do not show the error": a transfer to the first of two addresses that was
  cancelled counts as failed, the second address is tried (OctoPrint.cpp:335-341), and when
  that fails as well the cancelled row turns into an error, since the request is not in the
  channel any more. `CancelledShowsNoError` fails in `ph_queue`, already with one row. When the
  second attempt succeeds the row was cancelled and is uploaded. (The upload's data has been
  moved from by the first attempt, so the second sends a file without a name.)
* OctoPrint.cpp:351: when the list of addresses is dismissed `upload()` returns false
  without a callback, and the row stays at "Uploading" for ever. The list is shown
  from the thread of the queue, although wxWidgets belongs to the UI thread.
* PrintObject.cpp:753, the row of `fill_angle` goes back to `posInfill`, and of bridges the option
  says "this setting does not affect them" (PrintConfig.cpp:1230): `bridge_over_infill()` in
  `posPrepareInfill` generates the sparse infill at that angle (Fill.cpp:160, 651) and takes
  the angle and the area of the bridges from its lines (PrintObject.cpp:2323, 2335), so the
  bridges stay where the earlier angle had them. `DoneIsFresh` and `ActiveInputsStable` fail in
  `pm_steps` with `Options = {"fill_angle"}`; `UncoveredOptions` states it.
* For the same reason the row of `top_fill_pattern` is too late, as are those of the other
  options `group_fills()` reads (Fill.cpp:148), the infill anchors among them.
* `first_layer_extrusion_width`: slicing reads it for the compensation of the elephant foot
  (PrintObjectSlice.cpp:780, PrintRegion.cpp:27), its row begins with the perimeters.
* With several regions `posPerimeters` compares the options of the regions, `perimeter_speed` and
  `fill_density` among them (Layer.cpp:672, 706), and slicing merges those that print
  anything (Layer.cpp:602): both rows are too late (`SeveralRegions = TRUE`). With several
  extruders `top_solid_layers` decides which of them an object is printed with
  (MultiMaterialSegmentation.cpp:1316, PrintRegion.cpp:76), which the supports, the wipe
  tower and the skirt depend on (`SeveralExtruders = TRUE`).

The others:

* Plater.cpp:4584, the `stop()` in `on_process_completed()` "just confirms, that the produced
  data were consumed": the event may be of an earlier run, and the new one is cancelled.
* Plater.cpp:3756, "Another export job is currently running.": the export was scheduled and
  not started as the job worker was busy; nothing clears the path.
* BackgroundSlicingProcess.hpp:140, the upload is for the "current print slicing": after a
  cancelled one the job stays (BackgroundSlicingProcess.cpp:613) and the next slicing sends it.
* PrintHost.cpp:197, "Cleanup leftover files, if any": an exception of `upload()`
  (Duet.cpp:280) ends the thread, which stays joinable and is not started again; a job
  enqueued later is never uploaded and its file is left.
* UndoRedo.cpp:1185, "FIXME update the "saved" snapshot time": with `LowMemory = TRUE` the
  property of `ur_saved` fails in three states; Plater.cpp:5399 leaves the type of the
  captured topmost snapshot uninitialised, and `project_modified()` reads it.
* UndoRedo.hpp:104, "The first "New Project" snapshot shall not be removed":
  `release_least_recently_used()` removes it (UndoRedo.cpp:1186).
* UndoRedo.cpp:947: `reduce_noisy_snapshots()` walks past the front of the list when the
  snapshot of entering the gizmo has been released meanwhile.
* PrintObject.cpp:841: the supports look at bridging perimeters and fills
  (SupportMaterial.cpp:1275, 1406), but stay valid when those are invalidated
  (`DontSupportBridges = TRUE`).
* PrintObject.cpp:139: `set_instances()` joins two invalidations by `||`; when the first
  succeeds the wipe tower is not invalidated (`HasWipeTower = TRUE`). The skirt also stays
  valid when only the wipe tower is made anew.
* PrintObject.cpp:1102: a run cancelled inside `detect_surfaces_type()` leaves split slices
  with `m_typed_slices` unset, and the next run splits them again
  (`Halfway = {"posPrepareInfill"}`).
* PrintApply.cpp:1446: `apply()` calls `cleanup()` also when nothing was invalidated, with the
  worker running; it may drop the support points a milestone is about to read, and the alert
  about missing supports is lost (Print.cpp:1326).
* `perimeter_acceleration`, `filament_type` and `brim_width` are read by the search for
  support spots (PrintObject.cpp:474-478), and `enable_dynamic_overhang_speeds` by the
  estimate of curled extrusions (517), but their rows invalidate later steps only.
* BackgroundSlicingProcess.hpp:145, "Once the G-code export is scheduled, the apply() methods
  will do nothing": they do change the print.
* BackgroundSlicingProcess.cpp:506: a failed `try_lock()` is taken for a cancellation; the UI
  thread may as well be inside `start()`, and the export then has no thumbnails.
* PrintObject.cpp:885, `cleanup()` "Called on main thread with stopped or paused background
  processing": the worker calls it, without `state_mutex`, while `apply()` may be under way.
* RemovableDriveManager.cpp:1028, "All wake up calls up to now are now consumed when the
  drive enumeration starts": they are consumed before `try_lock()`; a call that finds an
  older enumeration under way takes the wake-up and enumerates nothing. `DrivesKnown` fails
  also with the notification under the mutex. For the same reason
  `set_and_verify_last_save_path()` may judge by an enumeration begun before it was called.
* Worker.hpp:44: a `wait_for_idle()` with a timeout may return false although the worker is
  idle, having consumed the finalization message before `m_running` was cleared; Plater.cpp:7489 then leaves the handler.
* Worker.hpp:102: `stop_current_job()` may return on the finalization of the previous job.
* Worker.hpp:16: `push()` returns false for a job it has accepted, as it tests the pointer
  after moving from it (BoostThreadWorker.cpp:178).
* PlaterWorker.hpp:33: the worker wakes the idle handler after a status update, but not
  after the finalization message: finalize() may wait for the next event of any kind.
* PrintHostDialogs.cpp:428: a row shows "Completed" once all bytes are sent, before the
  host has answered; it may still turn to "Error", and cannot be cancelled any more.
* PrintHost.cpp:314-318: the row is in the dialog before the job is in the channel; a
  cancellation in between is looked up, not found, and dropped (`WCancelIgnored`). The row
  is appended from the slicing thread, although wxWidgets belongs to the UI thread.

## 6. Not modelled

* The SLA path (`process_sla()`), `select_technology()`: the same protocol on another
  milestone table.
* Structured exceptions of Windows, thread priorities, the temporary file's name.
* Torn reads of `m_ui_task` (a `shared_ptr` reset by the worker and copied by the UI
  thread): taken as atomic.
* `UIThreadWorker`, used by the unit tests only; nested event loops; the ten seconds after
  which the job worker's destructor gives the join up.
* The clients of the print hosts but for what `OctoPrint::upload()` does with addresses, the
  notifications of an upload, info events, the
  exchange of the main window (`recreate_GUI()`) while an upload runs.
* Of the undo/redo stack: the secondary stack some gizmos open, the selection, the change of
  the printer technology by an undo, the loading of a file into a new project, and how much
  memory is taken (any amount may be released).
* Of `Print::apply()`: volumes, layer ranges and regions; options of a single object; warnings.
* The presets' part of the project dirty state.
* Geometry, G-code generation, arrangement: numerical, out of a model checker's reach.
* Of the removable drives: the worker of Linux, which polls every two seconds, the
  callbacks of macOS, `set_exporting_finished()` (a menu entry), a message loop inside the
  system's eject call.
* The user interface beyond the handlers named above; updaters, cloud client.

## 7. Plan

1. *Done*: `PrintStateBase`, `BackgroundSlicing`, its invariant and proofs, the
   abstract `SlicingPipeline` and the refinement.
2. *Done*: `JobWorker`, the abstract `JobExecutor`, the refinement, the proofs of the
   invariants.
3. *Done*: `PrintHostQueue` with its proofs.
4. *Done*: `FFFMilestones` with its proofs; `UndoRedoStack`, the abstract `UndoList`, the
   refinement, and the invariants as theorems; `ProjectDirtyState`; `RemovableDrives` with its
   proofs. Left: the options of one object, the layer ranges, and
   warnings with their `current` flag (PrintBase.hpp:82-103, 321-347).
5. *Done*: the theorems that `BackgroundSlicing` implements `SlicingPipeline` and `JobWorker`
   implements `JobExecutor`.
6. Theorem: `UndoRedoStack` implements `UndoList`. `SameMoment` is the lemma it starts from:
   every operation keeps what the remaining snapshots show. Left is to carry this over to the
   sequence of restored states, for each operation one abstract step.
7. The SLA path and `select_technology()` in `BackgroundSlicing`.
