------------------------ MODULE MCBackgroundSlicing ------------------------
(* Instances of BackgroundSlicing for TLC. *)
EXTENDS BackgroundSlicingInv, TLC

MCCleanup == {1}

(* UI task contexts are interchangeable; used by the safety runs only. *)
Contexts == Permutations(Ctx)
=============================================================================
