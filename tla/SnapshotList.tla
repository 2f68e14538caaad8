---------------------------- MODULE SnapshotList ----------------------------
(* The list of snapshots of the Undo / Redo stack: sorted by logical time, *)
(* each of a type that tells what was done after it.                       *)
EXTENDS Integers, Sequences, SequencesExt

\* The entries of s at some of its places, in the order they have in s.
Entries(s, places) ==
  [p \in 1 .. Cardinality(places) |->
     s[CHOOSE i \in places : Cardinality({j \in places : j <= i}) = p]]

\* The index of the first snapshot not older than t, one past the end if there is none.
LowerBound(ss, t) == Cardinality({i \in DOMAIN ss : ss[i].time < t}) + 1

\* The placeholder at the end of the list stands for the state on top until that is captured.
TopmostCaptured(ss) == Last(ss).captured
TempSnapshotActive(st) == Last(st.snapshots).time = st.active /\ ~TopmostCaptured(st.snapshots)

\* Mutant: the first snapshot newer than the active one.
ActiveIndexNext(st) == LowerBound(st.snapshots, st.active + 1)

ActiveIndex(st) == LowerBound(st.snapshots, st.active)

(* Leaving a gizmo: of each row of gizmo actions only the first snapshot   *)
(* is kept.  The source walks back from the snapshot just taken to the one *)
(* taken when the gizmo was entered, which must still be there.            *)
GizmoEntry(ss) == {i \in DOMAIN ss : ss[i].type = "EnteringGizmo"}

\* The rows of more than one gizmo action, as the indices of their first and last one.
NoisyRows(ss) ==
  LET entry == CHOOSE i \in GizmoEntry(ss) : \A j \in GizmoEntry(ss) : j <= i
      noisy(i) == i > entry /\ i < Len(ss) - 1 /\ ss[i].type = "GizmoAction"
  IN {r \in (1 .. Len(ss)) \X (1 .. Len(ss)) :
        /\ r[1] < r[2] /\ \A i \in r[1] .. r[2] : noisy(i)
        /\ ~noisy(r[1] - 1) /\ ~noisy(r[2] + 1)}

WithoutNoise(ss) ==
  Entries(ss, {i \in DOMAIN ss : \A r \in NoisyRows(ss) : i \notin r[1] + 1 .. r[2]})
=============================================================================
