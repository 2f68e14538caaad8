--------------------------- MODULE MCUndoRedoStack ---------------------------
(* Instances of UndoRedoStack for TLC. *)
EXTENDS UndoRedoStack, TLC

Symmetries == Permutations(Shapes) \cup Permutations(MeshAddrs) \cup Permutations(HullAddrs)
=============================================================================
