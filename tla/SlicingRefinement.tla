------------------------- MODULE SlicingRefinement -------------------------
(* How a state of BackgroundSlicing is one of the abstract SlicingPipeline.  *)
EXTENDS BackgroundSlicingInv

AbsJob    == IF state \in {"INITIAL", "EXIT", "EXITED"} THEN "off"
             ELSE IF state = "IDLE" THEN "idle"
             ELSE IF state \in {"STARTED", "RUNNING"} THEN "active" ELSE "over"
AbsInside == IF wpc \in InsidePcs THEN wstep ELSE 0
AbsValid  == {s \in PrintSteps : step[s] = "Done"}
AbsWanted == {s \in PrintSteps : enabled[s]}

Pipeline == INSTANCE SlicingPipeline WITH
    job <- AbsJob, inside <- AbsInside, valid <- AbsValid, wanted <- AbsWanted,
    stale <- outdated

(* Every behaviour of the two threads is one of the abstract pipeline: a      *)
(* milestone is entered only over valid predecessors, results are kept only   *)
(* while current, input changes only under no running or valid milestone.     *)
ImplementsPipeline == Pipeline!Spec
=============================================================================
