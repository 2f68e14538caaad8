-------------------------- MODULE ProjectDirtyState --------------------------
(***************************************************************************)
(* Is the project modified since it was saved?  The Undo / Redo stack      *)
(* keeps the logical time of the last save and answers by the types of the *)
(* snapshots between that time and the active one.                         *)
(*                                                                         *)
(* What a snapshot captured is here the project itself: UndoRedoStack      *)
(* shows that the histories of its objects amount to that.                 *)
(***************************************************************************)
EXTENDS SnapshotList

CONSTANTS
  Contents,    \* what the project may look like
  LowMemory,   \* whether old snapshots may have to be released
  Garbage,     \* the snapshot types an uninitialised field may hold
  MaxTime      \* bound on the logical time

VARIABLES
  stack,    \* snapshots, m_active_snapshot_time, m_current_time, m_saved_snapshot_time
  project,  \* the project on screen and whether a gizmo is open
  disk      \* the content that was saved, opened or created last

vars == <<stack, project, disk>>

Unsaved == -1

ModifiesProject(s) == s.type \in {"Action", "GizmoAction", "ProjectSeparator"}

(***************************************************************************)
(* The snapshots begin .. end - 1 are released.  If the saved one is among *)
(* them, a snapshot outside is looked for that captured the same state.    *)
(***************************************************************************)
SavedReleased(ss, begin, end, saved) ==
  /\ saved # Unsaved
  /\ saved >= ss[begin].time
  /\ end > Len(ss) \/ saved < ss[end].time

SavedAfterRelease(ss, begin, end, saved) ==
  LET at == LowerBound(ss, saved)
      unchanged(i, j) == \A k \in i .. j : ~ModifiesProject(ss[k])
  IN CASE ~SavedReleased(ss, begin, end, saved)       -> saved
       [] unchanged(begin, at)                        -> ss[begin - 1].time
       [] end <= Len(ss) /\ unchanged(at, end - 1)    -> ss[end - 1].time
       [] OTHER                                       -> Unsaved

ProjectModified(st) ==
  LET ss == st.snapshots
      at == LowerBound(ss, st.saved)
  IN \/ st.saved = Unsaved
     \/ \E i \in DOMAIN ss :
          /\ ModifiesProject(ss[i])
          /\ IF st.saved < st.active THEN at <= i /\ ss[i].time < st.active
                                     ELSE i < at /\ ss[i].time >= st.active

MarkCurrentAsSaved(st) == [st EXCEPT !.saved = st.active]

(***************************************************************************)
(* A snapshot of the state on screen; what was undone is released.  The    *)
(* placeholder for the state on top takes over the type of the snapshot.   *)
(***************************************************************************)
TakeSnapshot(st, type) ==
  LET ss  == st.snapshots
      now == st.current
      cut == LowerBound(ss, st.active)
      topmostSaved == ss # <<>> /\ st.active = st.saved /\ st.active = Last(ss).time
  IN [snapshots |-> SubSeq(ss, 1, cut - 1) \o
        << [time |-> now, type |-> type, captured |-> TRUE, data |-> project],
           [time |-> now + 1, type |-> type, captured |-> FALSE, data |-> project] >>,
      active  |-> now + 1,
      current |-> now + 1,
      saved   |-> IF topmostSaved THEN now
                  ELSE IF ss = <<>> THEN st.saved
                  ELSE SavedAfterRelease(ss, cut, Len(ss) + 1, st.saved)]

(* The saved time is updated for each row of gizmo actions that goes.      *)
ReduceNoisySnapshots(st) ==
  LET ss == st.snapshots
      hit == {r \in NoisyRows(ss) : SavedReleased(ss, r[1] + 1, r[2] + 1, st.saved)}
  IN [st EXCEPT
        !.snapshots = WithoutNoise(ss),
        !.saved = IF hit = {} THEN @
                  ELSE LET r == CHOOSE r \in hit : TRUE
                       IN SavedAfterRelease(ss, r[1] + 1, r[2] + 1, @)]

(* The oldest snapshots go when memory is short; the saved time stays.     *)
ReleaseLeastRecentlyUsed(st) ==
  IF LowMemory
  THEN {[st EXCEPT !.snapshots = SubSeq(@, n + 1, Len(@))] : n \in 0 .. ActiveIndex(st) - 2}
  ELSE {st}

(***************************************************************************)
(* The operations of the plater and of the main frame.                     *)
(***************************************************************************)
CanTake == stack.current < MaxTime

Action ==
  /\ CanTake
  /\ stack' \in ReleaseLeastRecentlyUsed(
       TakeSnapshot(stack, IF project.gizmo THEN "GizmoAction" ELSE "Action"))
  /\ \E c \in Contents \ {project.content} : project' = [project EXCEPT !.content = c]
  /\ UNCHANGED disk

Select ==
  /\ CanTake
  /\ stack' \in ReleaseLeastRecentlyUsed(TakeSnapshot(stack, "Selection"))
  /\ UNCHANGED <<project, disk>>

EnterGizmo ==
  /\ CanTake /\ ~project.gizmo
  /\ stack' \in ReleaseLeastRecentlyUsed(TakeSnapshot(stack, "EnteringGizmo"))
  /\ project' = [project EXCEPT !.gizmo = TRUE]
  /\ UNCHANGED disk

LeaveGizmo ==
  /\ CanTake /\ project.gizmo
  /\ LET st == TakeSnapshot(stack, "LeavingGizmoWithAction")
     IN /\ GizmoEntry(st.snapshots) # {}
        /\ stack' \in ReleaseLeastRecentlyUsed(ReduceNoisySnapshots(st))
  /\ project' = [project EXCEPT !.gizmo = FALSE]
  /\ UNCHANGED disk

(* A new project counts as saved; it closes the gizmos and may start an    *)
(* empty stack.                                                            *)
EmptyStack == [snapshots |-> <<>>, active |-> 0, current |-> 0, saved |-> Unsaved]

NewProject ==
  /\ CanTake
  /\ \E clear \in BOOLEAN :
       stack' \in ReleaseLeastRecentlyUsed(MarkCurrentAsSaved(
                    TakeSnapshot(IF clear THEN EmptyStack ELSE stack, "ProjectSeparator")))
  /\ \E c \in Contents :
       /\ project' = [content |-> c, gizmo |-> FALSE]
       /\ disk' = c

Save ==
  /\ stack' = MarkCurrentAsSaved(stack)
  /\ disk' = project.content
  /\ UNCHANGED project

(* undo(), redo() and undo_redo_to() for a list entry.  The state on top   *)
(* is captured when it is left, with a type nobody has set: undo_redo_to() *)
(* leaves top_snapshot_data.snapshot_type uninitialised.                   *)
LoadSnapshot(st, i) ==
  /\ stack' \in ReleaseLeastRecentlyUsed([st EXCEPT !.active = st.snapshots[i].time])
  /\ project' = st.snapshots[i].data
  /\ UNCHANGED disk

UndoTo ==
  \E i \in 2 .. ActiveIndex(stack) - 1 :
    IF TempSnapshotActive(stack)
    THEN \E type \in Garbage :
           LoadSnapshot([TakeSnapshot(stack, type) EXCEPT !.snapshots = Front(@)], i)
    ELSE LoadSnapshot(stack, i)

RedoTo ==
  \E i \in ActiveIndex(stack) + 1 .. Len(stack.snapshots) : LoadSnapshot(stack, i)

Init ==
  /\ project \in [content : Contents, gizmo : {FALSE}]
  /\ disk = project.content
  /\ stack = MarkCurrentAsSaved(TakeSnapshot(EmptyStack, "ProjectSeparator"))

Next == Action \/ Select \/ EnterGizmo \/ LeaveGizmo \/ NewProject \/ Save \/ UndoTo \/ RedoTo

Spec == Init /\ [][Next]_vars

(***************************************************************************)
(* Properties.                                                             *)
(***************************************************************************)
(* "Is the project modified with regard to the last saved state" (project_ *)
(* modified(), UndoRedo.hpp:158): when the title bar says it is not, and   *)
(* the program closes it without asking, what is on screen is what is on   *)
(* disk.  release_snapshots() breaks it.                                   *)
UnmodifiedMeansSaved == ~ProjectModified(stack) => project.content = disk

=============================================================================
