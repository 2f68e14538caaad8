--------------------------- MODULE PrintStateBase ---------------------------
(***************************************************************************)
(* The life of one milestone ("step") of a Print, a PrintObject or the     *)
(* background slicing process: PrintStateBase::State and the transitions   *)
(* StateWithTimeStamp and PrintState make on one element of m_state.       *)
(***************************************************************************)

(* Fresh: never run or cleaned up; Started: the worker is inside;          *)
(* Canceled: invalidated or abandoned while Started; Done: its data are    *)
(* valid; Invalidated: was Done, its data wait for cleanup().              *)
StepState == {"Fresh", "Started", "Canceled", "Done", "Invalidated"}

(* Mutant: a milestone being computed is not reported. *)
EnteredDoneOnly(st) == st = "Done"

(* try_invalidate() reports and changes only a milestone that was entered. *)
Entered(st) == st \in {"Started", "Done"}

TryInvalidate(st) ==
    CASE st = "Started" -> "Canceled"
      [] st = "Done"    -> "Invalidated"
      [] OTHER          -> st

(* Mutant: the milestone is left as it is. *)
MarkCanceledNothing(st) == st

(* mark_canceled_unguarded(): the milestone the worker was thrown out of.  *)
MarkCanceled(st) == IF st = "Started" THEN "Canceled" ELSE st

IsDirty(st) == st \in {"Canceled", "Invalidated"}

(* query_reset_dirty_unguarded(). *)
QueryResetDirty(st) == IF IsDirty(st) THEN "Fresh" ELSE st

=============================================================================
