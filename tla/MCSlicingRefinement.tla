------------------------ MODULE MCSlicingRefinement ------------------------
(* The instance of MCBackgroundSlicing checked against SlicingPipeline. *)
EXTENDS MCBackgroundSlicing, SlicingRefinement
=============================================================================
