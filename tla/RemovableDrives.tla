-------------------------- MODULE RemovableDrives --------------------------
(***************************************************************************)
(* RemovableDriveManager, as it is built for Windows: the list of removable *)
(* drives, which a worker thread enumerates when a volume arrives or leaves *)
(* and the UI thread enumerates before it uses the list itself.  The worker *)
(* sleeps on a condition variable; a volume message wakes it by m_wakeup    *)
(* and a notification.  Whoever finds the list changed posts an event, on   *)
(* which Plater reads the list again and shows its buttons accordingly.     *)
(*                                                                         *)
(* Three mutexes: m_inside_update_mutex (inside) is held through update(),  *)
(* m_drives_mutex (listMutex) where the list is written or read, and        *)
(* m_thread_stop_mutex between the test of the worker and its sleep         *)
(* ("falling"), where m_stop is written, and nowhere else.                  *)
(***************************************************************************)
EXTENDS Integers

CONSTANTS
    Drives,      \* drive letters
    NoDrive,     \* the empty path
    MaxChanges   \* bound: drives plugged in, unplugged or ejected

ASSUME DrivesAssumption == NoDrive \notin Drives /\ MaxChanges \in Nat

VARIABLES
    attached,   \* removable drives that are there
    changes,    \* history: how often attached has changed
    volumes,    \* volume messages the UI thread has not seen
    refreshes,  \* changed and ejected events the UI thread has not seen
    wakeup,     \* m_wakeup
    stop,       \* m_stop
    handler,    \* is m_callback_evt_handler set, and m_initialized?
    inside,     \* owner of m_inside_update_mutex
    listMutex,  \* owner of m_drives_mutex
    list,       \* m_current_drives, and the value of changes it was made at
    shown,      \* the list by which the buttons were last shown
    save,       \* m_last_save_path
    found,      \* the list a thread makes in update()
    pc,         \* where a thread is
    todo        \* UI thread: where it goes when update() returns

locks == <<inside, listMutex>>
drives == <<attached, changes>>
queue == <<volumes, refreshes>>
vars == <<drives, queue, wakeup, stop, handler, locks, list, shown, save, found, pc, todo>>

Threads == {"ui", "worker"}
Free == "none"

Listed == [set: SUBSET Drives, at: 0 .. MaxChanges]

EmptyList == [set |-> {}, at |-> 0]

Goto(t, place) == pc' = [pc EXCEPT ![t] = place]

-----------------------------------------------------------------------------
(* Once init() has set the handler and started the thread.                 *)
Init ==
    /\ attached \in SUBSET Drives /\ changes = 0
    /\ volumes = 0 /\ refreshes = 0
    /\ wakeup = FALSE /\ stop = FALSE /\ handler = TRUE
    /\ inside = Free /\ listMutex = Free
    /\ list = EmptyList /\ shown = {} /\ save = NoDrive
    /\ found = [t \in Threads |-> EmptyList]
    /\ pc = [t \in Threads |-> IF t = "ui" THEN "idle" ELSE "start"] /\ todo = "idle"

-----------------------------------------------------------------------------
(***************************************************************************)
(* The system: a volume arrives or leaves, and the main window is told.    *)
(***************************************************************************)
Attach(now) ==
    /\ changes < MaxChanges
    /\ attached' = now
    /\ changes' = changes + 1
    /\ volumes' = volumes + 1

PlugIn(d) ==
    /\ d \notin attached
    /\ Attach(attached \cup {d})
    /\ UNCHANGED <<refreshes, wakeup, stop, handler, locks, list, shown, save, found, pc, todo>>

Unplug(d) ==
    /\ d \in attached
    /\ Attach(attached \ {d})
    /\ UNCHANGED <<refreshes, wakeup, stop, handler, locks, list, shown, save, found, pc, todo>>

-----------------------------------------------------------------------------
(***************************************************************************)
(* update(), on either thread.                                             *)
(***************************************************************************)
AfterUpdate(t) == IF t = "worker" THEN "test" ELSE todo

UConsumeWakeUp(t) ==
    /\ pc[t] = "update"
    /\ wakeup' = FALSE
    /\ Goto(t, "try")
    /\ UNCHANGED <<drives, queue, stop, handler, locks, list, shown, save, found, todo>>

(* Mutant: two threads may enumerate at a time. *)
UEnter(t) ==
    /\ pc[t] = "try"
    /\ inside' = t
    /\ Goto(t, "enumerate")
    /\ UNCHANGED <<drives, queue, wakeup, stop, handler, listMutex, list, shown, save, found, todo>>

UTry(t) ==
    /\ pc[t] = "try"
    /\ IF inside = Free
       THEN inside' = t /\ Goto(t, "enumerate")
       ELSE UNCHANGED inside /\ Goto(t, "block")
    /\ UNCHANGED <<drives, queue, wakeup, stop, handler, listMutex, list, shown, save, found, todo>>

(* lock(), and at once the destructor of the lock.                         *)
UBlock(t) ==
    /\ pc[t] = "block" /\ inside = Free
    /\ Goto(t, AfterUpdate(t))
    /\ UNCHANGED <<drives, queue, wakeup, stop, handler, locks, list, shown, save, found, todo>>

(* GetLogicalDrives().                                                     *)
UEnumerate(t) ==
    /\ pc[t] = "enumerate"
    /\ found' = [found EXCEPT ![t] = [set |-> attached, at |-> changes]]
    /\ Goto(t, "inspect")
    /\ UNCHANGED <<drives, queue, wakeup, stop, handler, locks, list, shown, save, todo>>

(* The drives among them that can still be asked for their volume.         *)
UInspect(t) ==
    /\ pc[t] = "inspect"
    /\ found' = [found EXCEPT ![t].set = @ \cap attached]
    /\ Goto(t, "compare")
    /\ UNCHANGED <<drives, queue, wakeup, stop, handler, locks, list, shown, save, todo>>

UCompare(t) ==
    /\ pc[t] = "compare" /\ listMutex = Free
    /\ listMutex' = t
    /\ refreshes' = IF handler /\ found[t].set # list.set THEN refreshes + 1 ELSE refreshes
    /\ Goto(t, "store")
    /\ UNCHANGED <<drives, volumes, wakeup, stop, handler, inside, list, shown, save, found, todo>>

UStore(t) ==
    /\ pc[t] = "store"
    /\ list' = found[t]
    /\ found' = [found EXCEPT ![t] = EmptyList]
    /\ listMutex' = Free /\ inside' = Free
    /\ Goto(t, AfterUpdate(t))
    /\ UNCHANGED <<drives, queue, wakeup, stop, handler, shown, save, todo>>

Update(t) ==
    \/ UConsumeWakeUp(t) \/ UTry(t) \/ UBlock(t) \/ UEnumerate(t) \/ UInspect(t)
    \/ UCompare(t) \/ UStore(t)

-----------------------------------------------------------------------------
(***************************************************************************)
(* The worker thread: thread_proc().                                       *)
(***************************************************************************)
worker_unchanged == <<drives, queue, stop, handler, locks, list, shown, save, found, todo>>

WStart ==
    /\ pc["worker"] = "start"
    /\ wakeup' = TRUE
    /\ Goto("worker", "test")
    /\ UNCHANGED worker_unchanged

(* The predicate of wait().                                                *)
WTest ==
    /\ pc["worker"] = "test"
    /\ Goto("worker", IF stop \/ wakeup THEN "check" ELSE "falling")
    /\ UNCHANGED <<worker_unchanged, wakeup>>

WSleep ==
    /\ pc["worker"] = "falling"
    /\ Goto("worker", "asleep")
    /\ UNCHANGED <<worker_unchanged, wakeup>>

WCheck ==
    /\ pc["worker"] = "check"
    /\ Goto("worker", IF stop THEN "over" ELSE "update")
    /\ UNCHANGED <<worker_unchanged, wakeup>>

Worker == WStart \/ WTest \/ WSleep \/ WCheck \/ Update("worker")

-----------------------------------------------------------------------------
(***************************************************************************)
(* The UI thread.                                                          *)
(***************************************************************************)
UIIdle == pc["ui"] = "idle"

(* notify_all(), after which the UI thread goes on to place.               *)
NotifyAndGoto(place) ==
    pc' = [pc EXCEPT !["ui"] = place, !["worker"] = IF @ = "asleep" THEN "test" ELSE @]

(* volumes_changed(): the flag, and the notification.                      *)
DispatchVolume ==
    /\ UIIdle /\ volumes > 0
    /\ volumes' = volumes - 1
    /\ IF handler
       THEN wakeup' = TRUE /\ Goto("ui", "notify")
       ELSE UNCHANGED <<wakeup, pc>>
    /\ UNCHANGED <<drives, refreshes, stop, handler, locks, list, shown, save, found, todo>>

NotifyVolume ==
    /\ pc["ui"] = "notify"
    /\ NotifyAndGoto("idle")
    /\ UNCHANGED <<drives, queue, wakeup, stop, handler, locks, list, shown, save, found, todo>>

(* Mutant: the list is read without its mutex. *)
StatusUnlocked ==
    /\ shown' = list.set
    /\ save' = IF save \in list.set THEN save ELSE NoDrive

(* status(), as show_action_buttons() calls it.                            *)
Status ==
    /\ listMutex = Free
    /\ shown' = list.set
    /\ save' = IF save \in list.set THEN save ELSE NoDrive

ShowButtons ==
    /\ UIIdle /\ Status
    /\ UNCHANGED <<drives, queue, wakeup, stop, handler, locks, list, found, pc, todo>>

(* Mutant: an event is taken that is not there. *)
DispatchNothing ==
    /\ UIIdle /\ Status
    /\ refreshes' = refreshes - 1
    /\ UNCHANGED <<drives, volumes, wakeup, stop, handler, locks, list, found, pc, todo>>

DispatchRefresh ==
    /\ UIIdle /\ refreshes > 0 /\ Status
    /\ refreshes' = refreshes - 1
    /\ UNCHANGED <<drives, volumes, wakeup, stop, handler, locks, list, found, pc, todo>>

UpdateThen(place) ==
    /\ UIIdle
    /\ Goto("ui", "update")
    /\ todo' = place
    /\ UNCHANGED <<drives, queue, wakeup, stop, handler, locks, list, shown, save, found>>

(* get_removable_drive_path() keeps nothing but the list it has updated.   *)
GetRemovableDrivePath == UpdateThen("idle")
SetLastSavePath == UpdateThen("verify")
EjectDrive == save # NoDrive /\ UpdateThen("eject")

(* get_removable_drive_from_path(), for a path on a listed drive or not.   *)
VerifyLastSavePath ==
    /\ pc["ui"] = "verify" /\ listMutex = Free
    /\ save' \in list.set \cup {NoDrive}
    /\ Goto("ui", "idle") /\ todo' = "idle"
    /\ UNCHANGED <<drives, queue, wakeup, stop, handler, locks, list, shown, found>>

EjectLock ==
    /\ pc["ui"] = "eject" /\ listMutex = Free
    /\ listMutex' = "ui"
    /\ Goto("ui", "ejecting") /\ todo' = "idle"
    /\ UNCHANGED <<drives, queue, wakeup, stop, handler, inside, list, shown, save, found>>

(* eject_inner() succeeds: the drive goes, and is still in the list.       *)
Ejected ==
    /\ pc["ui"] = "ejecting" /\ save \in list.set \cap attached
    /\ Attach(attached \ {save})
    /\ refreshes' = IF handler THEN refreshes + 1 ELSE refreshes
    /\ listMutex' = Free
    /\ Goto("ui", "idle")
    /\ UNCHANGED <<wakeup, stop, handler, inside, list, shown, save, found, todo>>

(* It fails, or the drive is not in the list: a notification only.         *)
EjectFailed ==
    /\ pc["ui"] = "ejecting"
    /\ listMutex' = Free
    /\ Goto("ui", "idle")
    /\ UNCHANGED <<drives, queue, wakeup, stop, handler, inside, list, shown, save, found, todo>>

(* MainFrame::shutdown().                                                  *)
Shutdown ==
    /\ UIIdle
    /\ Goto("ui", "stop")
    /\ UNCHANGED <<drives, queue, wakeup, stop, handler, locks, list, shown, save, found, todo>>

(* Mutant: without m_thread_stop_mutex. *)
SetStopUnlocked ==
    /\ pc["ui"] = "stop"
    /\ stop' = TRUE
    /\ Goto("ui", "notifyStop")
    /\ UNCHANGED <<drives, queue, wakeup, handler, locks, list, shown, save, found, todo>>

SetStop ==
    /\ pc["ui"] = "stop" /\ pc["worker"] # "falling"
    /\ stop' = TRUE
    /\ Goto("ui", "notifyStop")
    /\ UNCHANGED <<drives, queue, wakeup, handler, locks, list, shown, save, found, todo>>

NotifyStop ==
    /\ pc["ui"] = "notifyStop"
    /\ NotifyAndGoto("join")
    /\ UNCHANGED <<drives, queue, wakeup, stop, handler, locks, list, shown, save, found, todo>>

Join ==
    /\ pc["ui"] = "join" /\ pc["worker"] = "over"
    /\ stop' = FALSE /\ handler' = FALSE
    /\ Goto("ui", "closed")
    /\ UNCHANGED <<drives, queue, wakeup, locks, list, shown, save, found, todo>>

(* What the UI thread does at its own choice, and what it is in the middle of. *)
Event == DispatchVolume \/ DispatchRefresh
UserAction ==
    ShowButtons \/ GetRemovableDrivePath \/ SetLastSavePath \/ EjectDrive \/ Shutdown
UIStep ==
    \/ NotifyVolume \/ VerifyLastSavePath \/ EjectLock \/ Ejected \/ EjectFailed
    \/ SetStop \/ NotifyStop \/ Join \/ Update("ui")

Next ==
    \/ \E d \in Drives: PlugIn(d) \/ Unplug(d)
    \/ Worker \/ Event \/ UserAction \/ UIStep

Spec == Init /\ [][Next]_vars

(* Both threads are scheduled, and the event loop serves every event.      *)
FairSpec ==
    /\ Spec
    /\ WF_vars(Worker) /\ WF_vars(UIStep)
    /\ SF_vars(DispatchVolume) /\ SF_vars(DispatchRefresh)

-----------------------------------------------------------------------------
UpdatePlaces == {"update", "try", "block", "enumerate", "inspect", "compare", "store"}
WorkerPlaces == UpdatePlaces \cup {"start", "test", "falling", "asleep", "check", "over"}
UIPlaces == UpdatePlaces \cup
    {"idle", "notify", "verify", "eject", "ejecting", "stop", "notifyStop", "join", "closed"}

(* Every variable keeps its type; no event is taken that was not posted.   *)
TypeOK ==
    /\ attached \in SUBSET Drives /\ changes \in 0 .. MaxChanges
    /\ volumes \in Nat /\ refreshes \in Nat
    /\ wakeup \in BOOLEAN /\ stop \in BOOLEAN /\ handler \in BOOLEAN
    /\ inside \in Threads \cup {Free} /\ listMutex \in Threads \cup {Free}
    /\ list \in Listed /\ shown \in SUBSET Drives /\ save \in Drives \cup {NoDrive}
    /\ found \in [Threads -> Listed]
    /\ pc \in [Threads -> WorkerPlaces \cup UIPlaces]
    /\ pc["worker"] \in WorkerPlaces /\ pc["ui"] \in UIPlaces
    /\ todo \in {"idle", "verify", "eject"}

(* The buttons show the drives of the list, or an event is under way that   *)
(* makes Plater read it again: update() posts the event before it stores    *)
(* the list, which is safe because it holds m_drives_mutex meanwhile, and   *)
(* shutdown() leaves no thread that changes the list without a handler.     *)
ChangesShown == list.set = shown \/ refreshes > 0

(* A list never gives way to one that was enumerated earlier, although two  *)
(* threads enumerate: m_inside_update_mutex spans enumeration and store.    *)
NoOlderList == [][list'.at >= list.at]_vars

(* The UI thread comes back from every call: no update() waits for ever for *)
(* the other one, and shutdown() wakes the worker it joins.                 *)
CallsReturn == ~UIIdle ~> (UIIdle \/ pc["ui"] = "closed")

(* "Signal the worker thread to wake up and enumerate removable drives."    *)
(* (volumes_changed()): once drives are no longer plugged in and out, the   *)
(* list is the drives that are there.                                       *)
DrivesKnown == <>[](pc["ui"] = "closed" \/ list.set = attached)
=============================================================================
