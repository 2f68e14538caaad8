----------------------------- MODULE UndoRedoInv -----------------------------
(***************************************************************************)
(* The inductive invariant of UndoRedoStack, as predicates of a stack st   *)
(* and of the scene sc, gizmo gz and memory hp beside it: the operations   *)
(* build their result from stacks that are never assigned.                 *)
(***************************************************************************)
EXTENDS UndoRedoStack

Lifetimes == [b : Nat, e : Nat]
ObjectData(o) == [shape : Shapes, id : [addr : AddrsOf(o), at : Nat]]
DataOf(m) == IF m = "Model" THEN SUBSET Objects
             ELSE IF m = "GLGizmosManager" THEN BOOLEAN ELSE ObjectData(m)
Saved(m) == [b : Nat, e : Nat, data : DataOf(m)]

Sorted(h) == /\ \A i \in DOMAIN h : h[i].b < h[i].e
             /\ \A i, j \in DOMAIN h : i < j => h[i].e <= h[j].b

StackType(st) ==
  /\ st = [snapshots |-> st.snapshots, mutables |-> st.mutables,
           immutables |-> st.immutables, ids |-> st.ids,
           active |-> st.active, current |-> st.current]
  /\ st.snapshots \in Seq([time : Nat, type : SnapshotTypes, captured : BOOLEAN])
  /\ \A m \in Mutables : st.mutables[m] \in Seq(Saved(m)) /\ Sorted(st.mutables[m])
  /\ DOMAIN st.immutables \subseteq [addr : Addrs, at : Nat]
  /\ \A id \in DOMAIN st.immutables :
       st.immutables[id] \in Seq(Lifetimes) /\ Sorted(st.immutables[id])
  /\ DOMAIN st.ids \subseteq Addrs
  /\ st.active \in Nat /\ st.current \in Nat /\ st.active <= st.current

(* The list: times increase, only the last snapshot may be a placeholder.  *)
ListValid(st) ==
  /\ \A i, j \in DOMAIN st.snapshots : i < j => st.snapshots[i].time < st.snapshots[j].time
  /\ \A i \in DOMAIN st.snapshots :
       /\ st.snapshots[i].time <= st.current
       /\ ~st.snapshots[i].captured => i = Len(st.snapshots) /\ st.snapshots[i].time = st.active

ActiveListed(st) == \E i \in 2 .. Len(st.snapshots) : st.snapshots[i].time = st.active

Times(st) == {st.snapshots[i].time :
                i \in {j \in DOMAIN st.snapshots : st.snapshots[j].captured}}

(* PointersCurrent of any stack, and no identifier is of the future.       *)
Pointers(st) ==
  /\ DOMAIN st.ids = {id.addr : id \in DOMAIN st.immutables}
  /\ \A a \in DOMAIN st.ids : st.ids[a].addr = a /\ st.ids[a] \in DOMAIN st.immutables
  /\ \A i, j \in DOMAIN st.immutables : i.addr = j.addr => i = j

IdsPast(st) ==
  /\ \A id \in DOMAIN st.immutables : id.at < st.current
  /\ \A o \in Objects : \A i \in DOMAIN st.mutables[o] : st.mutables[o][i].data.id.at < st.current

(* What is recorded at time t, and what load() asserts of it.              *)
Loadable(st, t) ==
  /\ \A m \in {"Model", "GLGizmosManager"} : DefinedAt(st.mutables[m], t)
  /\ \A o \in ObjectsAt(st, t) :
       /\ DefinedAt(st.mutables[o], t)
       /\ LET id == Loaded(st, o, t).id
          IN IF id \in DOMAIN st.immutables THEN DefinedAt(st.immutables[id], t)
                                            ELSE o \in Hulled

(* Objects and shared objects are recorded only where the model has them.  *)
Recorded(st, t) ==
  /\ \A o \in Objects : DefinedAt(st.mutables[o], t) => o \in ObjectsAt(st, t)
  /\ \A id \in DOMAIN st.immutables : DefinedAt(st.immutables[id], t) =>
       \E o \in ObjectsAt(st, t) : Loaded(st, o, t).id = id

InUse(st, h) == \A i \in DOMAIN h : \E t \in Times(st) : h[i].b <= t /\ t < h[i].e

DataInUse(st) ==
  /\ \A m \in Mutables \ Hulled : InUse(st, st.mutables[m])
  /\ \A id \in DOMAIN st.immutables : InUse(st, st.immutables[id])

(* A shared object that the stack holds looks as it did when it was saved. *)
HeapHolds(st, hp) ==
  /\ \A id \in DOMAIN st.immutables : hp[id.addr] \in Shapes
  /\ \A o \in Objects : \A i \in DOMAIN st.mutables[o] :
       LET d == st.mutables[o][i].data
       IN d.id \in DOMAIN st.immutables => hp[d.id.addr] = d.shape

SceneType(sc, gz, hp) ==
  /\ sc \in [Objects -> Addrs \cup {Absent}]
  /\ \A o \in Objects : sc[o] \in AddrsOf(o) \cup {Absent}
  /\ gz \in BOOLEAN
  /\ hp \in [Addrs -> Shapes \cup {Absent}]
  /\ \A o \in Present(sc) : hp[sc[o]] \in Shapes

(* After an undo or a redo the scene is what the active snapshot recorded, *)
(* but for the addresses of hulls that had been thrown away.               *)
SceneIs(st, sc, gz, hp, t) ==
  /\ Present(sc) = ObjectsAt(st, t)
  /\ gz = IntervalAt(st.mutables["GLGizmosManager"], t).data
  /\ \A o \in Present(sc) :
       /\ hp[sc[o]] = Loaded(st, o, t).shape
       /\ Loaded(st, o, t).id \in DOMAIN st.immutables => sc[o] = Loaded(st, o, t).id.addr

Unchanged(st, sc, gz, hp) ==
  IF st.active \in Times(st) THEN SceneIs(st, sc, gz, hp, st.active)
  ELSE \A t \in Times(st) : t < st.active

StackInv(st) ==
  /\ StackType(st)
  /\ ListValid(st)
  /\ Pointers(st)
  /\ IdsPast(st)
  /\ \A t \in Times(st) : Loadable(st, t) /\ Recorded(st, t)
  /\ DataInUse(st)

IInv ==
  /\ StackInv(stack)
  /\ ActiveListed(stack)
  /\ DOMAIN stack.mutables = Mutables
  /\ stack.current <= MaxTime + 1
  /\ HeapHolds(stack, heap)
  /\ SceneType(scene, gizmo, heap)
  /\ Unchanged(stack, scene, gizmo, heap)

=============================================================================
