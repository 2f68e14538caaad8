---------------------------- MODULE UndoRedoStack ----------------------------
(***************************************************************************)
(* The Undo / Redo stack (slic3r/Utils/UndoRedo.cpp) and the operations of *)
(* the plater that drive it.  A snapshot is a name, a type and a logical   *)
(* time; what it captured is spread over one history per object, a list of *)
(* time intervals, and is put together again when the snapshot is loaded.  *)
(*                                                                         *)
(* The project is a set of objects, each with one shared object (a mesh,   *)
(* or a convex hull, which may be thrown away and calculated anew).  A     *)
(* shared object lives at an address, which the program reuses once the    *)
(* last reference to it is gone.                                           *)
(***************************************************************************)
EXTENDS SnapshotList

CONSTANTS
  Objects,     \* the model objects
  Hulled,      \* those whose shared object is optional: a convex hull
  Shapes,      \* what an object and its shared object may look like
  MeshAddrs,   \* addresses of shared objects that must be kept (a bound)
  HullAddrs,   \* addresses of shared objects that may be dropped (a bound)
  Absent,      \* the address of an object that is not in the project
  MaxTime      \* bound on the logical time

ASSUME StackAssumption ==
  /\ Hulled \subseteq Objects
  /\ Objects \cap {"Model", "GLGizmosManager"} = {}
  /\ MeshAddrs \cap HullAddrs = {}
  /\ Absent \notin MeshAddrs \cup HullAddrs \cup Shapes
  /\ MaxTime \in Nat

Addrs == MeshAddrs \cup HullAddrs
AddrsOf(o) == IF o \in Hulled THEN HullAddrs ELSE MeshAddrs

(* The mutable objects that are saved with every snapshot beside Objects:  *)
(* the model, which lists its objects, and the gizmos manager.             *)
Mutables == Objects \cup {"Model", "GLGizmosManager"}

(* The snapshot types that leaving a gizmo tells apart; "Other" stands for *)
(* the rest.  The time of the last save, which nothing in this module      *)
(* reads, is the business of ProjectDirtyState.                            *)
SnapshotTypes == {"Other", "GizmoAction", "EnteringGizmo", "LeavingGizmoWithAction"}

VARIABLES
  stack,   \* the StackImpl
  scene,   \* the address of the shared object of each object, or Absent
  gizmo,   \* whether a gizmo is open
  heap     \* what lives at each address, Absent for nothing

vars == <<stack, scene, gizmo, heap>>

Smaller(a, b) == IF a < b THEN a ELSE b
Larger(a, b)  == IF a > b THEN a ELSE b

(***************************************************************************)
(* Histories: sequences of intervals [b, e), sorted and disjoint.  The     *)
(* binary searches of the source are stated by what they find in such a    *)
(* sequence.                                                               *)
(***************************************************************************)
(* The number of intervals that began, or have ended, before t.            *)
Begun(h, t) == Cardinality({i \in DOMAIN h : h[i].b < t})
Ended(h, t) == Cardinality({i \in DOMAIN h : h[i].e <= t})

(* Mutant: an interval that began before t goes as a whole.                *)
ReleaseBeforeWhole(h, t) == SubSeq(h, Begun(h, t) + 1, Len(h))

ReleaseBefore(h, t) ==
  LET kept == SubSeq(h, Ended(h, t) + 1, Len(h))
  IN [i \in DOMAIN kept |-> [kept[i] EXCEPT !.b = Larger(@, t)]]

(* Mutant: the last interval keeps its end.                                *)
ReleaseAfterUntrimmed(h, t) == SubSeq(h, 1, Begun(h, t))

ReleaseAfter(h, t) ==
  [i \in 1 .. Begun(h, t) |-> [h[i] EXCEPT !.e = Smaller(@, t)]]

(* An interval that no snapshot but those between from and to needs.       *)
Between(x, from, to) == x.b > from /\ x.e <= to

ExtendEnd(h, now) == [h EXCEPT ![Len(h)].e = now + 1]

(* Mutant: data that follows on is taken to be unchanged.                  *)
SaveMutableUnchanged(h, active, now, data) ==
  IF h = <<>> \/ Last(h).e < active
  THEN Append(h, [b |-> now, e |-> now + 1, data |-> data])
  ELSE ExtendEnd(h, now)

SaveMutable(h, active, now, data) ==
  IF h = <<>> \/ Last(h).e < active
  THEN Append(h, [b |-> now, e |-> now + 1, data |-> data])
  ELSE IF Last(h).data = data
       THEN ExtendEnd(h, now)
       ELSE Append(h, [b |-> active, e |-> now + 1, data |-> data])

SaveImmutable(h, active, now) ==
  IF h = <<>> \/ Last(h).e < active
  THEN Append(h, [b |-> active, e |-> now + 1])
  ELSE ExtendEnd(h, now)

(* The interval a load at time t ends up with; DefinedAt is what the       *)
(* assertions of the source ask of it.                                     *)
IntervalAt(h, t) == h[Cardinality({i \in DOMAIN h : h[i].b <= t})]
DefinedAt(h, t)  == \E i \in DOMAIN h : h[i].b <= t /\ t < h[i].e

(***************************************************************************)
(* Garbage: objects with an empty history go, and so does the identifier   *)
(* of the address of a shared object that goes.  An identifier is named by *)
(* the address and the logical time at which it was given out.             *)
(***************************************************************************)
(* Mutant: the identifiers stay.                                           *)
CollectObjects(st, immutables) ==
  [st EXCEPT !.immutables =
     [id \in {i \in DOMAIN immutables : immutables[i] # <<>>} |-> immutables[id]]]

CollectGarbage(st, immutables) ==
  LET left == {id \in DOMAIN immutables : immutables[id] # <<>>}
      gone == {id.addr : id \in DOMAIN immutables \ left}
  IN [st EXCEPT !.immutables = [id \in left |-> immutables[id]],
                !.ids = [a \in DOMAIN st.ids \ gone |-> st.ids[a]]]

Live(st, sc) == {id.addr : id \in DOMAIN st.immutables} \cup {sc[o] : o \in Objects}

Present(sc) == {o \in Objects : sc[o] # Absent}

TakeSnapshot(st, type) ==
  LET now    == st.current
      ss     == st.snapshots
      cut    == LowerBound(ss, st.active)
      shared == {scene[o] : o \in Present(scene)}
      ids    == [a \in DOMAIN st.ids \cup shared |->
                   IF a \in DOMAIN st.ids THEN st.ids[a] ELSE [addr |-> a, at |-> now]]
      used   == {ids[a] : a \in shared}
      data(m) == CASE m = "Model" -> Present(scene)
                   [] m = "GLGizmosManager" -> gizmo
                   [] OTHER -> [shape |-> heap[scene[m]], id |-> ids[scene[m]]]
      cutM(m)  == ReleaseAfter(st.mutables[m], st.active)
      cutI(id) == IF id \in DOMAIN st.immutables
                  THEN ReleaseAfter(st.immutables[id], st.active) ELSE <<>>
      saving   == Present(scene) \cup (Mutables \ Objects)
      mutables == [m \in Mutables |->
                     IF m \in saving THEN SaveMutable(cutM(m), st.active, now, data(m))
                                     ELSE cutM(m)]
      immutables == [id \in DOMAIN st.immutables \cup used |->
                       IF id \in used THEN SaveImmutable(cutI(id), st.active, now)
                                      ELSE cutI(id)]
  IN CollectGarbage(
       [st EXCEPT
          !.snapshots = SubSeq(ss, 1, cut - 1) \o
             << [time |-> now, type |-> type, captured |-> TRUE],
                [time |-> now + 1, type |-> "Other", captured |-> FALSE] >>,
          !.mutables = mutables,
          !.ids      = ids,
          !.active   = now + 1,
          !.current  = now + 1],
       immutables)

(* The data of the gizmo actions dropped when a gizmo is left go as well.  *)
ReduceNoisySnapshots(st) ==
  LET ss == st.snapshots
      reduced(h) == Entries(h, {i \in DOMAIN h :
        \A r \in NoisyRows(ss) : ~Between(h[i], ss[r[1]].time, ss[r[2] + 1].time)})
  IN [st EXCEPT
        !.snapshots = WithoutNoise(ss),
        !.mutables  = [m \in Mutables |-> reduced(st.mutables[m])],
        !.immutables = [id \in DOMAIN st.immutables |-> reduced(st.immutables[id])]]

(***************************************************************************)
(* Releasing memory.  How much memory is taken is not modelled: hulls that *)
(* nothing but the stack refers to may be thrown away, then snapshots from *)
(* the oldest end, though never the one before the active one.             *)
(***************************************************************************)
Unshared(st, sc) == {id \in DOMAIN st.immutables : \A o \in Objects : sc[o] # id.addr}

(* Mutant: no object is mandatory.                                         *)
ReleasableAny(st, sc) == Unshared(st, sc)

Releasable(st, sc) == {id \in Unshared(st, sc) : id.addr \in HullAddrs}

ReleaseLeastRecentlyUsed(st, hulls, n) ==
  LET first == st.snapshots[n + 1].time
      immutables == [id \in DOMAIN st.immutables |->
                       IF id \in hulls THEN <<>>
                       ELSE IF n = 0 THEN st.immutables[id]
                       ELSE ReleaseBefore(st.immutables[id], first)]
  IN CollectGarbage(
       [st EXCEPT
          !.snapshots = SubSeq(@, n + 1, Len(@)),
          !.mutables = [m \in Mutables |->
             IF n = 0 THEN @[m] ELSE ReleaseBefore(@[m], first)]],
       immutables)

(* The stack after release_least_recently_used(), the scene, gizmo and     *)
(* memory that come with it: what no reference is left to is freed.        *)
Settle(st, held, sc, gz, hp) ==
  \E hulls \in SUBSET Releasable(st, held), n \in 0 .. ActiveIndex(st) - 2 :
    /\ stack' = ReleaseLeastRecentlyUsed(st, hulls, n)
    /\ scene' = sc
    /\ gizmo' = gz
    /\ heap'  = [a \in Addrs |-> IF a \in Live(stack', sc) THEN hp[a] ELSE Absent]

(***************************************************************************)
(* Loading a snapshot.  A hull that was thrown away is calculated again,   *)
(* at an address that is free by then.                                     *)
(***************************************************************************)
Loaded(st, o, t) == IntervalAt(st.mutables[o], t).data
ObjectsAt(st, t) == IntervalAt(st.mutables["Model"], t).data
Missing(st, t)   == {o \in ObjectsAt(st, t) : Loaded(st, o, t).id \notin DOMAIN st.immutables}

LoadSnapshot(st, t) ==
  LET lost == Missing(st, t)
      held == {id.addr : id \in DOMAIN st.immutables}
  IN \E at \in [lost -> HullAddrs \ held] :
       /\ \A o, p \in lost : at[o] = at[p] => o = p
       /\ LET sc == [o \in Objects |->
                       IF o \notin ObjectsAt(st, t) THEN Absent
                       ELSE IF o \in lost THEN at[o]
                       ELSE Loaded(st, o, t).id.addr]
              hp == [a \in Addrs |->
                       IF \E o \in lost : at[o] = a
                       THEN Loaded(st, CHOOSE o \in lost : at[o] = a, t).shape
                       ELSE heap[a]]
          IN Settle([st EXCEPT !.active = t], sc, sc,
                    IntervalAt(st.mutables["GLGizmosManager"], t).data, hp)

(***************************************************************************)
(* The operations of the plater.                                           *)
(***************************************************************************)
EmptyStack ==
  [snapshots |-> <<>>, mutables |-> [m \in Mutables |-> <<>>], immutables |-> <<>>,
   ids |-> <<>>, active |-> 0, current |-> 0]

ShapeOf(sc, hp) == [o \in Objects |-> IF sc[o] = Absent THEN Absent ELSE hp[sc[o]]]

CanTake == stack.current < MaxTime

(* A snapshot of the state before the action, then the action itself: an   *)
(* object goes, takes over a shared object that is still alive (a copy, or *)
(* a paste of what was cut), or gets a new one.                            *)
Action(type) ==
  /\ CanTake
  /\ gizmo <=> type = "GizmoAction"
  /\ \E o \in Objects : \E a \in AddrsOf(o) \cup {Absent}, v \in Shapes :
       /\ a # Absent => heap[a] \in {v, Absent}
       /\ Settle(TakeSnapshot(stack, type), scene, [scene EXCEPT ![o] = a], gizmo,
                 IF a = Absent THEN heap ELSE [heap EXCEPT ![a] = v])

EnterGizmo ==
  /\ CanTake /\ ~gizmo
  /\ Settle(TakeSnapshot(stack, "EnteringGizmo"), scene, scene, TRUE, heap)

LeaveGizmo ==
  /\ CanTake /\ gizmo
  /\ LET st == TakeSnapshot(stack, "LeavingGizmoWithAction")
     IN /\ GizmoEntry(st.snapshots) # {}
        /\ Settle(ReduceNoisySnapshots(st), scene, scene, FALSE, heap)

(* A new project closes the gizmos and may start an empty stack.           *)
NewProject ==
  /\ CanTake
  /\ \E clear \in BOOLEAN :
       Settle(TakeSnapshot(IF clear THEN EmptyStack ELSE stack, "Other"),
              scene, [o \in Objects |-> Absent], FALSE, heap)

(* undo(), redo() and undo_redo_to() for a list entry.  The first snapshot *)
(* cannot be gone back to.  When the state on top is left it is captured   *)
(* as a snapshot of its own.                                               *)
Captured == [TakeSnapshot(stack, "Other") EXCEPT !.snapshots = Front(@)]

UndoTo ==
  /\ TempSnapshotActive(stack) => stack.current <= MaxTime
  /\ \E i \in 2 .. ActiveIndex(stack) - 1 :
       LoadSnapshot(IF TempSnapshotActive(stack) THEN Captured ELSE stack,
                    stack.snapshots[i].time)

RedoTo ==
  \E i \in ActiveIndex(stack) + 1 .. Len(stack.snapshots) :
    LoadSnapshot(stack, stack.snapshots[i].time)

Init ==
  /\ scene = [o \in Objects |-> Absent]
  /\ gizmo = FALSE
  /\ heap = [a \in Addrs |-> Absent]
  /\ stack = TakeSnapshot(EmptyStack, "Other")

Next ==
  \/ \E type \in {"Other", "GizmoAction"} : Action(type)
  \/ EnterGizmo
  \/ LeaveGizmo
  \/ NewProject
  \/ UndoTo
  \/ RedoTo

Spec == Init /\ [][Next]_vars

(***************************************************************************)
(* Properties.                                                             *)
(***************************************************************************)
Ids == [addr : Addrs, at : 0 .. MaxTime + 1]
SnapshotRecords == [time : 0 .. MaxTime + 1, type : SnapshotTypes, captured : BOOLEAN]

(* Types, once.                                                            *)
TypeOK ==
  /\ stack.snapshots \in Seq(SnapshotRecords)
  /\ DOMAIN stack.mutables = Mutables
  /\ DOMAIN stack.immutables \subseteq Ids
  /\ DOMAIN stack.ids \subseteq Addrs
  /\ {stack.active, stack.current} \subseteq 0 .. MaxTime + 1
  /\ \A o \in Objects : scene[o] \in AddrsOf(o) \cup {Absent}
  /\ gizmo \in BOOLEAN
  /\ heap \in [Addrs -> Shapes \cup {Absent}]

CapturedSnapshots == {s \in Range(stack.snapshots) : s.captured}

(* Whatever was recorded, undone, squashed and released, every snapshot    *)
(* that is listed can be loaded: the assertions of load() and              *)
(* load_immutable_object() hold for each object it names, and no object    *)
(* but a hull is missing (UndoRedo.cpp:481, 487, 876, 880).                *)
SnapshotsLoadable ==
  \A s \in CapturedSnapshots :
    /\ \A m \in {"Model", "GLGizmosManager"} : DefinedAt(stack.mutables[m], s.time)
    /\ \A o \in ObjectsAt(stack, s.time) :
         /\ DefinedAt(stack.mutables[o], s.time)
         /\ LET id == Loaded(stack, o, s.time).id
            IN IF id \in DOMAIN stack.immutables THEN DefinedAt(stack.immutables[id], s.time)
                                                 ELSE o \in Hulled

(* The stack keeps nothing for snapshots that are gone: the histories stay *)
(* sorted and disjoint (valid(), UndoRedo.cpp:519, 534), and each interval *)
(* still covers the time of a captured snapshot.  The data of a hulled     *)
(* object is left out of the second part: where its hull was calculated    *)
(* anew after a load it refers to another hull than the data it was loaded *)
(* from, which the next snapshot may then leave without a use.             *)
NoOrphanData ==
  LET inUse(h) == \A i \in DOMAIN h :
        \E s \in CapturedSnapshots : h[i].b <= s.time /\ s.time < h[i].e
      sorted(h) == \A i, j \in DOMAIN h : i < j => h[i].e <= h[j].b
  IN /\ \A m \in Mutables : sorted(stack.mutables[m]) /\ (m \notin Hulled => inUse(stack.mutables[m]))
     /\ \A id \in DOMAIN stack.immutables :
          sorted(stack.immutables[id]) /\ inUse(stack.immutables[id])

(* The map from addresses to identifiers names exactly the shared objects  *)
(* the stack holds, one each.  A stale entry would give the identifier of  *)
(* a dropped hull to whatever the program puts at its address next         *)
(* (UndoRedo.cpp:1113, 1135, 1179).                                        *)
PointersCurrent ==
  /\ DOMAIN stack.ids = {id.addr : id \in DOMAIN stack.immutables}
  /\ \A a \in DOMAIN stack.ids : stack.ids[a].addr = a /\ stack.ids[a] \in DOMAIN stack.immutables
  /\ \A i, j \in DOMAIN stack.immutables : i.addr = j.addr => i = j

(* valid() (UndoRedo.cpp:642): the active snapshot is one of the list but  *)
(* never the first, times increase, and only the last may be uncaptured.   *)
StackValid ==
  LET ss == stack.snapshots
  IN /\ \E i \in 2 .. Len(ss) : ss[i].time = stack.active
     /\ \A i \in 1 .. Len(ss) - 1 : ss[i].captured /\ ss[i].time < ss[i + 1].time
     /\ stack.active <= stack.current /\ Last(ss).time <= stack.current

(* The user's view: a plain list of project states.                        *)
Restored(t) ==
  LET objects == ObjectsAt(stack, t)
      shape(o) == LET data == Loaded(stack, o, t)
                  IN IF data.id \in DOMAIN stack.immutables THEN heap[data.id.addr]
                     ELSE IF o \in Hulled THEN data.shape ELSE Absent
  IN [shape |-> [o \in Objects |-> IF o \in objects THEN shape(o) ELSE Absent],
      gizmo |-> IntervalAt(stack.mutables["GLGizmosManager"], t).data]

CapturedPart == IF TopmostCaptured(stack.snapshots) THEN stack.snapshots ELSE Front(stack.snapshots)

List == INSTANCE UndoList WITH
  Contents <- [shape : [Objects -> Shapes \cup {Absent}], gizmo : BOOLEAN],
  states   <- [i \in DOMAIN CapturedPart |-> Restored(CapturedPart[i].time)],
  pos      <- ActiveIndex(stack),
  content  <- [shape |-> ShapeOf(scene, heap), gizmo |-> gizmo]

(* The stack of intervals behaves as the list of complete project states:  *)
(* going back or forward shows exactly the state that was recorded, and no *)
(* operation, release of memory included, alters a state that stays.       *)
ImplementsList == List!Spec

=============================================================================
