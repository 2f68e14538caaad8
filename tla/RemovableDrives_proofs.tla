----------------------- MODULE RemovableDrives_proofs -----------------------
(***************************************************************************)
(* For any drives and any number of changes: the list never gives way to an *)
(* older one, and no change of it goes unannounced.  Both rest on the       *)
(* mutexes: a thread is inside update() alone from its enumeration to its   *)
(* store, and nobody reads the list between its event and its store.        *)
(***************************************************************************)
EXTENDS RemovableDrives, TLAPS

Inner == {"enumerate", "inspect", "compare", "store"}

LocksHeld ==
    /\ \A t \in Threads : pc[t] \in Inner => inside = t
    /\ \A t \in Threads : pc[t] = "store" => listMutex = t
    /\ pc["ui"] = "ejecting" => listMutex = "ui"

(* What a thread has found is not older than the list it will replace, and  *)
(* is announced before it is stored.                                       *)
FoundIsNewer ==
    /\ list.at <= changes /\ \A t \in Threads : found[t].at <= changes
    /\ \A t \in Threads : pc[t] \in {"inspect", "compare", "store"} => found[t].at >= list.at
    /\ \A t \in Threads : pc[t] = "store" => found[t].set = list.set \/ refreshes > 0

(* The handler outlives the worker.                                        *)
HandlerKept ==
    /\ pc["ui"] # "closed" => handler
    /\ pc["ui"] = "closed" => pc["worker"] = "over"

DrivesInv == TypeOK /\ LocksHeld /\ FoundIsNewer /\ HandlerKept /\ ChangesShown

USE DrivesAssumption

LEMMA InitDrivesInv == Init => DrivesInv
<1> SUFFICES ASSUME Init PROVE DrivesInv
  OBVIOUS
<1> USE DEF Init
<1>0. /\ pc["ui"] = "idle" /\ pc["worker"] = "start" /\ \A t \in Threads : pc[t] \in {"idle", "start"}
      /\ list.at = 0 /\ list.set = {} /\ \A t \in Threads : found[t].at = 0
  BY DEF Threads, EmptyList
<1>1. TypeOK
  <2>1. EmptyList \in Listed
    BY DEF EmptyList, Listed
  <2>2. list \in Listed /\ found \in [Threads -> Listed]
    BY <2>1
  <2>3. /\ attached \in SUBSET Drives /\ changes \in 0 .. MaxChanges
        /\ shown \in SUBSET Drives /\ save \in Drives \cup {NoDrive}
    OBVIOUS
  <2>4. /\ inside \in Threads \cup {Free} /\ listMutex \in Threads \cup {Free}
        /\ volumes \in Nat /\ refreshes \in Nat
        /\ wakeup \in BOOLEAN /\ stop \in BOOLEAN /\ handler \in BOOLEAN
        /\ todo \in {"idle", "verify", "eject"}
    OBVIOUS
  <2>5. /\ pc \in [Threads -> WorkerPlaces \cup UIPlaces]
        /\ pc["worker"] \in WorkerPlaces /\ pc["ui"] \in UIPlaces
    BY <1>0 DEF Threads, WorkerPlaces, UIPlaces, UpdatePlaces
  <2> QED
    BY <2>2, <2>3, <2>4, <2>5 DEF TypeOK
<1>2. LocksHeld
  BY <1>0 DEF LocksHeld, Inner
<1>3. FoundIsNewer
  BY <1>0 DEF FoundIsNewer
<1>4. HandlerKept /\ ChangesShown
  BY <1>0 DEF HandlerKept, ChangesShown
<1> QED
  BY <1>1, <1>2, <1>3, <1>4 DEF DrivesInv

-----------------------------------------------------------------------------
(* The drives come and go.                                                 *)
LEMMA AttachStep ==
  ASSUME DrivesInv, NEW d \in Drives, PlugIn(d) \/ Unplug(d)
  PROVE  DrivesInv'
<1> USE DEF DrivesInv, Attach
<1>1. /\ attached' \in SUBSET Drives /\ changes' = changes + 1 /\ changes < MaxChanges
      /\ volumes' = volumes + 1
      /\ UNCHANGED <<refreshes, wakeup, stop, handler, inside, listMutex, list, shown, save,
                     found, pc, todo>>
  BY DEF PlugIn, Unplug, TypeOK, locks
<1>2. TypeOK'
  BY <1>1 DEF TypeOK, Listed
<1>3. FoundIsNewer'
  BY <1>1 DEF FoundIsNewer, TypeOK, Listed
<1> QED
  BY <1>1, <1>2, <1>3 DEF LocksHeld, HandlerKept, ChangesShown

(* The steps that move a thread and change neither drives, list nor locks. *)
Quiet ==
    /\ UNCHANGED <<drives, locks, list, shown, found, handler>>
    /\ refreshes' = refreshes /\ volumes' \in Nat
    /\ wakeup' \in BOOLEAN /\ stop' \in BOOLEAN /\ save' \in Drives \cup {NoDrive}
    /\ todo' \in {"idle", "verify", "eject"}
    /\ pc' \in [Threads -> WorkerPlaces \cup UIPlaces]
    /\ pc'["worker"] \in WorkerPlaces /\ pc'["ui"] \in UIPlaces
    /\ \A t \in Threads : pc'[t] = pc[t] \/ pc'[t] \notin Inner \cup {"ejecting", "closed"}
    /\ pc'["worker"] = pc["worker"] \/ pc["worker"] # "over"
    /\ pc'["ui"] = pc["ui"] \/ pc["ui"] # "closed"

LEMMA QuietStep == ASSUME DrivesInv, Quiet PROVE DrivesInv'
<1> USE DEF DrivesInv, Quiet
<1>1. TypeOK'
  BY DEF TypeOK, drives, locks
<1>2. LocksHeld'
  BY DEF LocksHeld, locks, Inner, Threads
<1>3. FoundIsNewer'
  BY DEF FoundIsNewer, drives, Inner
<1>4. HandlerKept' /\ ChangesShown'
  BY DEF HandlerKept, ChangesShown, TypeOK, Threads
<1> QED
  BY <1>1, <1>2, <1>3, <1>4

(* A step of one thread to a place where it holds no lock.                 *)
LEMMA QuietGoto ==
  ASSUME TypeOK, NEW t \in Threads, NEW place, Goto(t, place),
         place \notin Inner \cup {"ejecting", "closed"},
         IF t = "ui" THEN place \in UIPlaces ELSE place \in WorkerPlaces,
         pc[t] \notin {"over", "closed"}
  PROVE  /\ pc' \in [Threads -> WorkerPlaces \cup UIPlaces]
         /\ pc'["worker"] \in WorkerPlaces /\ pc'["ui"] \in UIPlaces
         /\ \A u \in Threads : pc'[u] = pc[u] \/ pc'[u] \notin Inner \cup {"ejecting", "closed"}
         /\ pc'["worker"] = pc["worker"] \/ pc["worker"] # "over"
         /\ pc'["ui"] = pc["ui"] \/ pc["ui"] # "closed"
BY DEF TypeOK, Goto, Threads

LEMMA QuietNotify ==
  ASSUME TypeOK, NEW place, NotifyAndGoto(place), place \in {"idle", "join"}, pc["ui"] # "closed"
  PROVE  /\ pc' \in [Threads -> WorkerPlaces \cup UIPlaces]
         /\ pc'["worker"] \in WorkerPlaces /\ pc'["ui"] \in UIPlaces
         /\ \A u \in Threads : pc'[u] = pc[u] \/ pc'[u] \notin Inner \cup {"ejecting", "closed"}
         /\ pc'["worker"] = pc["worker"] \/ pc["worker"] # "over"
         /\ pc'["ui"] = pc["ui"] \/ pc["ui"] # "closed"
BY DEF TypeOK, NotifyAndGoto, Threads, Inner, WorkerPlaces, UIPlaces, UpdatePlaces

-----------------------------------------------------------------------------
(* update(), on either thread: one lemma for what leads to the lock or      *)
(* back from it, one for every step under it.                              *)
LEMMA UpdateOutsideStep ==
  ASSUME DrivesInv, NEW t \in Threads,
         UConsumeWakeUp(t) \/ UBlock(t) \/ (UTry(t) /\ inside # Free)
  PROVE  DrivesInv'
<1>1. TypeOK
  BY DEF DrivesInv
<1>2. PICK place : /\ Goto(t, place) /\ place \in {"try", "block", AfterUpdate(t)}
                   /\ pc[t] \in {"update", "try", "block"}
                   /\ UNCHANGED <<drives, queue, stop, handler, locks, list, shown, save, found, todo>>
                   /\ wakeup' \in {wakeup, FALSE}
  BY DEF UConsumeWakeUp, UBlock, UTry, locks
<1>3. AfterUpdate(t) \in {"test", "idle", "verify", "eject"}
      /\ (t = "ui" => AfterUpdate(t) \in UIPlaces) /\ (t # "ui" => AfterUpdate(t) \in WorkerPlaces)
  BY <1>1 DEF AfterUpdate, TypeOK, Threads, UIPlaces, WorkerPlaces
<1>4. /\ place \notin Inner \cup {"ejecting", "closed"}
      /\ IF t = "ui" THEN place \in UIPlaces ELSE place \in WorkerPlaces
      /\ pc[t] \notin {"over", "closed"}
  BY <1>2, <1>3 DEF Inner, UIPlaces, WorkerPlaces, UpdatePlaces
<1>5. Quiet
  BY <1>1, <1>2, <1>4, QuietGoto DEF Quiet, TypeOK, queue
<1> QED
  BY <1>5, QuietStep

(* What the steps under the lock have in common.                           *)
LEMMA InnerGoto ==
  ASSUME DrivesInv, NEW t \in Threads, NEW place \in Inner, Goto(t, place),
         pc[t] \in UpdatePlaces,
         UNCHANGED <<handler, list, shown>>, refreshes' \in Nat, refreshes' >= refreshes
  PROVE  /\ pc' \in [Threads -> WorkerPlaces \cup UIPlaces]
         /\ pc'["worker"] \in WorkerPlaces /\ pc'["ui"] \in UIPlaces
         /\ pc'[t] = place /\ \A u \in Threads : u # t => pc'[u] = pc[u]
         /\ HandlerKept' /\ ChangesShown'
<1>1. /\ pc' \in [Threads -> WorkerPlaces \cup UIPlaces]
      /\ pc'["worker"] \in WorkerPlaces /\ pc'["ui"] \in UIPlaces
      /\ pc'[t] = place /\ \A u \in Threads : u # t => pc'[u] = pc[u]
  BY DEF DrivesInv, TypeOK, Goto, Threads, Inner, WorkerPlaces, UIPlaces, UpdatePlaces
<1>2. HandlerKept'
  BY <1>1 DEF DrivesInv, HandlerKept, Threads, Inner, UpdatePlaces
<1>3. ChangesShown'
  BY DEF DrivesInv, ChangesShown, TypeOK
<1> QED
  BY <1>1, <1>2, <1>3

LEMMA TryStep ==
  ASSUME DrivesInv, NEW t \in Threads, UTry(t), inside = Free
  PROVE  DrivesInv'
<1>1. /\ Goto(t, "enumerate") /\ inside' = t /\ pc[t] = "try"
      /\ UNCHANGED <<drives, queue, wakeup, stop, handler, listMutex, list, shown, save, found, todo>>
  BY DEF UTry
<1>2. /\ pc' \in [Threads -> WorkerPlaces \cup UIPlaces]
      /\ pc'["worker"] \in WorkerPlaces /\ pc'["ui"] \in UIPlaces
      /\ pc'[t] = "enumerate" /\ \A u \in Threads : u # t => pc'[u] = pc[u]
      /\ HandlerKept' /\ ChangesShown'
  BY <1>1, InnerGoto DEF Inner, UpdatePlaces, queue, DrivesInv, TypeOK
<1>3. TypeOK'
  BY <1>1, <1>2 DEF DrivesInv, TypeOK, drives, queue
<1>4. LocksHeld'
  <2>1. \A u \in Threads : pc[u] \notin Inner
    BY DEF DrivesInv, LocksHeld, Threads, Free
  <2> QED
    BY <1>1, <1>2, <2>1 DEF DrivesInv, LocksHeld, Threads, Inner
<1>5. FoundIsNewer'
  BY <1>1, <1>2 DEF DrivesInv, FoundIsNewer, drives, queue
<1> QED
  BY <1>2, <1>3, <1>4, <1>5 DEF DrivesInv

LEMMA EnumerateStep ==
  ASSUME DrivesInv, NEW t \in Threads, UEnumerate(t) \/ UInspect(t)
  PROVE  DrivesInv'
<1>1. PICK place \in {"inspect", "compare"} :
         /\ Goto(t, place) /\ pc[t] \in {"enumerate", "inspect"}
         /\ UNCHANGED <<drives, queue, wakeup, stop, handler, locks, list, shown, save, todo>>
  BY DEF UEnumerate, UInspect
<1>2. /\ pc' \in [Threads -> WorkerPlaces \cup UIPlaces]
      /\ pc'["worker"] \in WorkerPlaces /\ pc'["ui"] \in UIPlaces
      /\ pc'[t] = place /\ \A u \in Threads : u # t => pc'[u] = pc[u]
      /\ HandlerKept' /\ ChangesShown'
  BY <1>1, InnerGoto DEF Inner, UpdatePlaces, queue, DrivesInv, TypeOK
<1>3. /\ found' \in [Threads -> Listed] /\ found'[t].at >= list.at /\ found'[t].at <= changes
      /\ \A u \in Threads : u # t => found'[u] = found[u]
  <2>1. /\ found \in [Threads -> Listed] /\ attached \in SUBSET Drives /\ changes \in 0 .. MaxChanges
        /\ list.at \in Int /\ list.at <= changes /\ found[t].at <= changes
        /\ pc[t] = "inspect" => found[t].at >= list.at
    BY DEF DrivesInv, TypeOK, FoundIsNewer, Listed
  <2>2. CASE UEnumerate(t)
    <3>1. found' = [found EXCEPT ![t] = [set |-> attached, at |-> changes]]
      BY <2>2 DEF UEnumerate
    <3>2. [set |-> attached, at |-> changes] \in Listed
      BY <2>1 DEF Listed
    <3> QED
      BY <2>1, <3>1, <3>2
  <2>3. CASE UInspect(t)
    <3>1. found' = [found EXCEPT ![t] = [found[t] EXCEPT !.set = found[t].set \cap attached]]
      BY <2>1, <2>3 DEF UInspect
    <3>2. /\ [found[t] EXCEPT !.set = found[t].set \cap attached] \in Listed
          /\ [found[t] EXCEPT !.set = found[t].set \cap attached].at = found[t].at
      BY <2>1 DEF Listed
    <3>3. pc[t] = "inspect"
      BY <2>3 DEF UInspect
    <3> QED
      BY <2>1, <3>1, <3>2, <3>3
  <2> QED
    BY <2>2, <2>3
<1>4. TypeOK'
  BY <1>1, <1>2, <1>3 DEF DrivesInv, TypeOK, drives, queue, locks
<1>5. LocksHeld'
  BY <1>1, <1>2 DEF DrivesInv, LocksHeld, locks, Inner, Threads
<1>6. FoundIsNewer'
  <2>1. \A u \in Threads : found'[u].at <= changes'
    BY <1>1, <1>3 DEF DrivesInv, FoundIsNewer, drives
  <2>2. \A u \in Threads : pc'[u] \in {"inspect", "compare", "store"} => found'[u].at >= list'.at
    BY <1>1, <1>2, <1>3 DEF DrivesInv, FoundIsNewer
  <2>3. \A u \in Threads : pc'[u] = "store" => found'[u].set = list'.set \/ refreshes' > 0
    BY <1>1, <1>2, <1>3 DEF DrivesInv, FoundIsNewer, queue
  <2> QED
    BY <1>1, <2>1, <2>2, <2>3 DEF DrivesInv, FoundIsNewer, drives
<1> QED
  BY <1>2, <1>4, <1>5, <1>6 DEF DrivesInv

LEMMA CompareStep ==
  ASSUME DrivesInv, NEW t \in Threads, UCompare(t)
  PROVE  DrivesInv'
<1>1. /\ Goto(t, "store") /\ pc[t] = "compare" /\ listMutex = Free /\ listMutex' = t
      /\ refreshes' = IF handler /\ found[t].set # list.set THEN refreshes + 1 ELSE refreshes
      /\ UNCHANGED <<drives, volumes, wakeup, stop, handler, inside, list, shown, save, found, todo>>
  BY DEF UCompare
<1>2. refreshes' \in Nat /\ refreshes' >= refreshes
  BY <1>1 DEF DrivesInv, TypeOK
<1>3. /\ pc' \in [Threads -> WorkerPlaces \cup UIPlaces]
      /\ pc'["worker"] \in WorkerPlaces /\ pc'["ui"] \in UIPlaces
      /\ pc'[t] = "store" /\ \A u \in Threads : u # t => pc'[u] = pc[u]
      /\ HandlerKept' /\ ChangesShown'
  BY <1>1, <1>2, InnerGoto DEF Inner, UpdatePlaces
<1>4. TypeOK'
  BY <1>1, <1>2, <1>3 DEF DrivesInv, TypeOK, drives
<1>5. LocksHeld'
  <2>1. pc["ui"] # "ejecting" /\ \A u \in Threads : pc[u] # "store"
    BY <1>1 DEF DrivesInv, LocksHeld, Threads, Free
  <2> QED
    BY <1>1, <1>3, <2>1 DEF DrivesInv, LocksHeld, Threads, Inner
(* The handler is there: the UI thread is not closed, or t is the worker    *)
(* and not over.                                                           *)
<1>6. handler
  BY <1>1 DEF DrivesInv, HandlerKept, Threads
<1>7. FoundIsNewer'
  <2>1. found[t].set # list.set => refreshes' > 0
    BY <1>1, <1>6 DEF DrivesInv, TypeOK
  <2>2. \A u \in Threads : pc'[u] = "store" => found'[u].set = list'.set \/ refreshes' > 0
    BY <1>1, <1>2, <1>3, <2>1 DEF DrivesInv, FoundIsNewer, TypeOK
  <2>3. \A u \in Threads : pc'[u] \in {"inspect", "compare", "store"} => found'[u].at >= list'.at
    BY <1>1, <1>3 DEF DrivesInv, FoundIsNewer
  <2> QED
    BY <1>1, <2>2, <2>3 DEF DrivesInv, FoundIsNewer, drives
<1> QED
  BY <1>3, <1>4, <1>5, <1>7 DEF DrivesInv

LEMMA StoreStep ==
  ASSUME DrivesInv, NEW t \in Threads, UStore(t)
  PROVE  DrivesInv' /\ list'.at >= list.at
<1>1. /\ Goto(t, AfterUpdate(t)) /\ pc[t] = "store" /\ list' = found[t]
      /\ found' = [found EXCEPT ![t] = EmptyList] /\ listMutex' = Free /\ inside' = Free
      /\ UNCHANGED <<drives, queue, wakeup, stop, handler, shown, save, todo>>
  BY DEF UStore
<1>2. /\ TypeOK /\ found[t] \in Listed /\ found[t].at >= list.at /\ list.at \in Int
      /\ found[t].at \in Int /\ found[t].at >= 0
      /\ found[t].set = list.set \/ refreshes > 0
  BY <1>1 DEF DrivesInv, TypeOK, FoundIsNewer, Listed
<1>3. AfterUpdate(t) \in {"test", "idle", "verify", "eject"}
      /\ (t = "ui" => AfterUpdate(t) \in UIPlaces) /\ (t # "ui" => AfterUpdate(t) \in WorkerPlaces)
  BY <1>2 DEF AfterUpdate, TypeOK, Threads, UIPlaces, WorkerPlaces
<1>4. /\ pc' \in [Threads -> WorkerPlaces \cup UIPlaces]
      /\ pc'["worker"] \in WorkerPlaces /\ pc'["ui"] \in UIPlaces
      /\ pc'[t] = AfterUpdate(t) /\ \A u \in Threads : u # t => pc'[u] = pc[u]
  BY <1>1, <1>2, <1>3 DEF TypeOK, Goto, Threads
(* The other thread is not under the lock.                                 *)
<1>5. /\ \A u \in Threads : u # t => pc[u] \notin Inner
      /\ pc["ui"] # "ejecting"
  BY <1>1 DEF DrivesInv, LocksHeld, Inner, Threads
<1>6. \A u \in Threads : pc'[u] \notin Inner
  BY <1>3, <1>4, <1>5 DEF Inner
<1>7. TypeOK'
  <2>1. EmptyList \in Listed
    BY DEF EmptyList, Listed
  <2> QED
    BY <1>1, <1>2, <1>4, <2>1 DEF TypeOK, drives, queue
<1>8. LocksHeld'
  BY <1>3, <1>4, <1>5, <1>6 DEF LocksHeld, Threads, Inner
<1>9. FoundIsNewer'
  <2>1. found[t].at <= changes /\ EmptyList.at <= changes
    BY <1>1 DEF EmptyList, DrivesInv, TypeOK, FoundIsNewer
  <2>2. list'.at <= changes' /\ \A u \in Threads : found'[u].at <= changes'
    BY <1>1, <1>2, <2>1 DEF DrivesInv, TypeOK, FoundIsNewer, drives
  <2>3. \A u \in Threads : pc'[u] \notin {"inspect", "compare", "store"}
    BY <1>6 DEF Inner
  <2> QED
    BY <2>2, <2>3 DEF FoundIsNewer
<1>10. HandlerKept'
  BY <1>1, <1>3, <1>4 DEF DrivesInv, HandlerKept, Threads
<1>11. ChangesShown'
  BY <1>1, <1>2 DEF DrivesInv, ChangesShown, queue
<1> QED
  BY <1>1, <1>2, <1>7, <1>8, <1>9, <1>10, <1>11 DEF DrivesInv

(* A step that keeps the list keeps its age.                               *)
LEMMA SameList == ASSUME DrivesInv, list' = list PROVE list'.at >= list.at
BY DEF DrivesInv, TypeOK, Listed

LEMMA UpdateStep ==
  ASSUME DrivesInv, NEW t \in Threads, Update(t)
  PROVE  DrivesInv' /\ list'.at >= list.at
<1>1. CASE UConsumeWakeUp(t) \/ UBlock(t) \/ (UTry(t) /\ inside # Free)
  BY <1>1, UpdateOutsideStep, SameList DEF UConsumeWakeUp, UBlock, UTry
<1>2. CASE UTry(t) /\ inside = Free
  BY <1>2, TryStep, SameList DEF UTry
<1>3. CASE UEnumerate(t) \/ UInspect(t)
  BY <1>3, EnumerateStep, SameList DEF UEnumerate, UInspect
<1>4. CASE UCompare(t)
  BY <1>4, CompareStep, SameList DEF UCompare
<1>5. CASE UStore(t)
  BY <1>5, StoreStep
<1> QED
  BY <1>1, <1>2, <1>3, <1>4, <1>5 DEF Update

-----------------------------------------------------------------------------
(* The worker outside of update().                                         *)
LEMMA WorkerStep ==
  ASSUME DrivesInv, WStart \/ WTest \/ WSleep \/ WCheck
  PROVE  DrivesInv' /\ list' = list
<1>1. TypeOK /\ "worker" \in Threads
  BY DEF DrivesInv, Threads
<1>2. PICK place \in {"test", "check", "falling", "asleep", "over", "update"} :
        /\ Goto("worker", place) /\ pc["worker"] # "over" /\ pc["worker"] # "closed"
        /\ UNCHANGED worker_unchanged /\ wakeup' \in {wakeup, TRUE}
  BY DEF WStart, WTest, WSleep, WCheck
<1>3. place \notin Inner \cup {"ejecting", "closed"} /\ place \in WorkerPlaces
  BY DEF Inner, WorkerPlaces, UpdatePlaces
<1>4. Quiet
  BY <1>1, <1>2, <1>3, QuietGoto DEF Quiet, TypeOK, worker_unchanged, queue
<1> QED
  BY <1>2, <1>4, QuietStep DEF worker_unchanged

(* The UI thread: what moves it and changes neither list nor locks.        *)
LEMMA UIQuietStep ==
  ASSUME DrivesInv,
         \/ DispatchVolume \/ GetRemovableDrivePath \/ SetLastSavePath \/ EjectDrive
         \/ VerifyLastSavePath \/ Shutdown \/ SetStop
  PROVE  DrivesInv' /\ list' = list
<1>1. TypeOK /\ "ui" \in Threads
  BY DEF DrivesInv, Threads
<1>2. handler' = handler /\ (UIIdle => handler)
  BY DEF DispatchVolume, GetRemovableDrivePath, SetLastSavePath, EjectDrive, UpdateThen,
         VerifyLastSavePath, Shutdown, SetStop, UIIdle, DrivesInv, HandlerKept
<1>3. PICK place \in {"notify", "update", "idle", "stop", "notifyStop"} :
        /\ Goto("ui", place) /\ pc["ui"] # "over" /\ pc["ui"] # "closed"
        /\ UNCHANGED <<drives, locks, list, shown, found, handler>> /\ refreshes' = refreshes
        /\ volumes' \in Nat /\ wakeup' \in BOOLEAN /\ stop' \in BOOLEAN
        /\ save' \in Drives \cup {NoDrive} /\ todo' \in {"idle", "verify", "eject"}
  <2>1. CASE DispatchVolume
    BY <1>1, <1>2, <2>1 DEF DispatchVolume, UIIdle, TypeOK
  <2>2. CASE GetRemovableDrivePath \/ SetLastSavePath \/ EjectDrive
    BY <1>1, <2>2 DEF GetRemovableDrivePath, SetLastSavePath, EjectDrive, UpdateThen, UIIdle, TypeOK,
       queue
  <2>3. CASE VerifyLastSavePath
    <3>1. list.set \subseteq Drives
      BY <1>1 DEF TypeOK, Listed
    <3> QED
      BY <1>1, <2>3, <3>1 DEF VerifyLastSavePath, TypeOK, queue
  <2>4. CASE Shutdown \/ SetStop
    BY <1>1, <2>4 DEF Shutdown, SetStop, UIIdle, TypeOK, queue
  <2> QED
    BY <2>1, <2>2, <2>3, <2>4
<1>4. place \notin Inner \cup {"ejecting", "closed"} /\ place \in UIPlaces
  BY DEF Inner, UIPlaces, UpdatePlaces
<1>5. Quiet
  BY <1>1, <1>3, <1>4, QuietGoto DEF Quiet
<1> QED
  BY <1>3, <1>5, QuietStep

LEMMA NotifyStep ==
  ASSUME DrivesInv, NotifyVolume \/ NotifyStop
  PROVE  DrivesInv' /\ list' = list
<1>1. PICK place \in {"idle", "join"} :
        /\ NotifyAndGoto(place) /\ pc["ui"] # "closed"
        /\ UNCHANGED <<drives, queue, wakeup, stop, handler, locks, list, shown, save, found, todo>>
  BY DEF NotifyVolume, NotifyStop
<1>2. Quiet
  BY <1>1, QuietNotify DEF Quiet, DrivesInv, TypeOK, queue
<1> QED
  BY <1>1, <1>2, QuietStep

(* The list is read: the buttons show it, whether an event asked for that.  *)
LEMMA StatusStep ==
  ASSUME DrivesInv, ShowButtons \/ DispatchRefresh
  PROVE  DrivesInv' /\ list' = list
<1>1. /\ listMutex = Free /\ shown' = list.set /\ save' \in {save, NoDrive}
      /\ refreshes' \in Nat
      /\ UNCHANGED <<drives, volumes, wakeup, stop, handler, locks, list, found, pc, todo>>
  BY DEF ShowButtons, DispatchRefresh, Status, queue, DrivesInv, TypeOK
<1>2. TypeOK'
  BY <1>1 DEF DrivesInv, TypeOK, Listed, drives, locks
<1>3. \A t \in Threads : pc[t] # "store"
  BY <1>1 DEF DrivesInv, LocksHeld, Threads, Free
<1>4. LocksHeld' /\ HandlerKept'
  BY <1>1 DEF DrivesInv, LocksHeld, HandlerKept, locks
<1>5. FoundIsNewer'
  BY <1>1, <1>3 DEF DrivesInv, FoundIsNewer, drives
<1>6. ChangesShown'
  BY <1>1 DEF ChangesShown
<1> QED
  BY <1>1, <1>2, <1>4, <1>5, <1>6 DEF DrivesInv

LEMMA EjectLockStep ==
  ASSUME DrivesInv, EjectLock
  PROVE  DrivesInv' /\ list' = list
<1>1. /\ pc["ui"] = "eject" /\ listMutex = Free /\ listMutex' = "ui" /\ todo' = "idle"
      /\ pc' = [pc EXCEPT !["ui"] = "ejecting"]
      /\ UNCHANGED <<drives, queue, wakeup, stop, handler, inside, list, shown, save, found>>
  BY DEF EjectLock, Goto
<1>2. /\ pc' \in [Threads -> WorkerPlaces \cup UIPlaces]
      /\ pc'["ui"] = "ejecting" /\ pc'["worker"] = pc["worker"]
      /\ pc'["worker"] \in WorkerPlaces /\ pc'["ui"] \in UIPlaces
  BY <1>1 DEF DrivesInv, TypeOK, Threads, UIPlaces
<1>3. TypeOK'
  BY <1>1, <1>2 DEF DrivesInv, TypeOK, Threads, drives, queue
<1>4. LocksHeld'
  BY <1>1, <1>2 DEF DrivesInv, LocksHeld, Threads, Inner, Free
<1>5. FoundIsNewer' /\ HandlerKept' /\ ChangesShown'
  BY <1>1, <1>2 DEF DrivesInv, FoundIsNewer, HandlerKept, ChangesShown, Threads, drives, queue
<1> QED
  BY <1>1, <1>3, <1>4, <1>5 DEF DrivesInv

LEMMA EjectEndStep ==
  ASSUME DrivesInv, Ejected \/ EjectFailed
  PROVE  DrivesInv' /\ list' = list
<1>1. /\ pc["ui"] = "ejecting" /\ listMutex' = Free
      /\ pc' = [pc EXCEPT !["ui"] = "idle"]
      /\ UNCHANGED <<wakeup, stop, handler, inside, list, shown, save, found, todo>>
  BY DEF Ejected, EjectFailed, Goto
<1>2. /\ pc' \in [Threads -> WorkerPlaces \cup UIPlaces]
      /\ pc'["ui"] = "idle" /\ pc'["worker"] = pc["worker"]
      /\ pc'["worker"] \in WorkerPlaces /\ pc'["ui"] \in UIPlaces
  BY <1>1 DEF DrivesInv, TypeOK, Threads, UIPlaces
<1>3. /\ attached' \in SUBSET Drives /\ changes' \in 0 .. MaxChanges /\ changes' >= changes
      /\ volumes' \in Nat /\ refreshes' \in Nat /\ refreshes' >= refreshes
  BY DEF Ejected, EjectFailed, Attach, DrivesInv, TypeOK, drives, queue
<1>4. TypeOK'
  BY <1>1, <1>2, <1>3 DEF DrivesInv, TypeOK
<1>5. LocksHeld'
  BY <1>1, <1>2 DEF DrivesInv, LocksHeld, Threads, Inner
<1>6. FoundIsNewer'
  <2>1. /\ changes \in Int /\ changes' \in Int /\ list.at \in Int /\ refreshes \in Nat
        /\ \A t \in Threads : found[t].at \in Int
    BY <1>3 DEF DrivesInv, TypeOK, Listed
  <2>2. \A t \in Threads : pc'[t] \in {"inspect", "compare", "store"} => pc'[t] = pc[t]
    BY <1>2 DEF Threads
  <2> QED
    BY <1>1, <1>3, <2>1, <2>2 DEF DrivesInv, FoundIsNewer
<1>7. HandlerKept' /\ ChangesShown'
  BY <1>1, <1>2, <1>3 DEF DrivesInv, HandlerKept, ChangesShown, TypeOK
<1> QED
  BY <1>1, <1>4, <1>5, <1>6, <1>7 DEF DrivesInv

LEMMA JoinStep ==
  ASSUME DrivesInv, Join
  PROVE  DrivesInv' /\ list' = list
<1>1. /\ pc["ui"] = "join" /\ pc["worker"] = "over" /\ stop' = FALSE /\ handler' = FALSE
      /\ pc' = [pc EXCEPT !["ui"] = "closed"]
      /\ UNCHANGED <<drives, queue, wakeup, locks, list, shown, save, found, todo>>
  BY DEF Join, Goto
<1>2. /\ pc' \in [Threads -> WorkerPlaces \cup UIPlaces]
      /\ pc'["ui"] = "closed" /\ pc'["worker"] = "over"
      /\ pc'["worker"] \in WorkerPlaces /\ pc'["ui"] \in UIPlaces
  BY <1>1 DEF DrivesInv, TypeOK, Threads, UIPlaces, WorkerPlaces
<1>3. TypeOK'
  BY <1>1, <1>2 DEF DrivesInv, TypeOK, drives, queue, locks
<1>4. LocksHeld' /\ HandlerKept' /\ ChangesShown'
  BY <1>1, <1>2 DEF DrivesInv, LocksHeld, HandlerKept, ChangesShown, Threads, Inner, locks, queue
<1>5. FoundIsNewer'
  BY <1>1, <1>2 DEF DrivesInv, FoundIsNewer, Threads, drives, queue
<1> QED
  BY <1>1, <1>3, <1>4, <1>5 DEF DrivesInv

-----------------------------------------------------------------------------
LEMMA NextStep ==
  ASSUME DrivesInv, [Next]_vars
  PROVE  DrivesInv' /\ list'.at >= list.at
<1>1. CASE \E d \in Drives : PlugIn(d) \/ Unplug(d)
  <2>1. PICK d \in Drives : PlugIn(d) \/ Unplug(d)
    BY <1>1
  <2>2. list' = list
    BY <2>1 DEF PlugIn, Unplug
  <2> QED
    BY <2>1, <2>2, AttachStep, SameList
<1>2. CASE Worker
  <2>1. CASE Update("worker")
    BY <2>1, UpdateStep DEF Threads
  <2> QED
    BY <1>2, <2>1, WorkerStep, SameList DEF Worker
<1>3. CASE Event \/ UserAction
  BY <1>3, UIQuietStep, StatusStep, SameList DEF Event, UserAction
<1>4. CASE UIStep
  <2>1. CASE Update("ui")
    BY <2>1, UpdateStep DEF Threads
  <2> QED
    BY <1>4, <2>1, UIQuietStep, NotifyStep, EjectLockStep, EjectEndStep, JoinStep, SameList DEF UIStep
<1>5. CASE UNCHANGED vars
  <2>1. Quiet
    BY <1>5 DEF Quiet, vars, drives, locks, queue, DrivesInv, TypeOK
  <2>2. list' = list
    BY <1>5 DEF vars
  <2> QED
    BY <2>1, <2>2, QuietStep, SameList
<1> QED
  BY <1>1, <1>2, <1>3, <1>4, <1>5 DEF Next

(* The inductive invariant: locks, order of the enumerations, handler, event. *)
THEOREM DrivesInvariance == Spec => []DrivesInv
<1>1. DrivesInv /\ [Next]_vars => DrivesInv'
  BY NextStep
<1> QED
  BY <1>1, InitDrivesInv, PTL DEF Spec

(* Every variable keeps its type, for any drives and any number of changes. *)
THEOREM DrivesTypeOK == Spec => []TypeOK
<1>1. DrivesInv => TypeOK
  BY DEF DrivesInv
<1> QED
  BY <1>1, DrivesInvariance, PTL

(* A list the buttons do not show yet is announced by an event: the event   *)
(* update() posts before it stores the list is never consumed by a status() *)
(* that still reads the old one, and shutdown() takes the handler from no   *)
(* thread that needs it.                                                   *)
THEOREM NoChangeUnannounced == Spec => []ChangesShown
<1>1. DrivesInv => ChangesShown
  BY DEF DrivesInv
<1> QED
  BY <1>1, DrivesInvariance, PTL

(* m_current_drives never goes back to an older enumeration, whichever of   *)
(* the two threads makes it.                                               *)
THEOREM ListNeverOlder == Spec => NoOlderList
<1>1. DrivesInv /\ [Next]_vars => [list'.at >= list.at]_vars
  BY NextStep
<1> QED
  BY <1>1, DrivesInvariance, PTL DEF Spec, NoOlderList
=============================================================================
