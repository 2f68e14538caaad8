--------------------------- MODULE SlicingPipeline ---------------------------
(***************************************************************************)
(* What the background slicing promises to the rest of the program: a      *)
(* pipeline of milestones run by one job at a time, in order, on input     *)
(* that does not change under it, and whose results are kept exactly as    *)
(* long as their input stays the same.                                     *)
(***************************************************************************)
EXTENDS Integers

CONSTANT LastStep

Steps        == 1..LastStep
FinalizeStep == LastStep + 1      \* delivers the output, has no input of its own

VARIABLES
    job,      \* "off", "idle", "active" or "over"
    inside,   \* the milestone being computed, 0 for none
    valid,    \* milestones whose results may be used
    wanted,   \* milestones the current task asks for
    stale     \* milestones whose input changed since they were computed

vars == <<job, inside, valid, wanted, stale>>

Init ==
    /\ job = "off" /\ inside = 0
    /\ valid = {} /\ wanted = Steps /\ stale = {}

Ready == job = "off" /\ job' = "idle" /\ UNCHANGED <<inside, valid, wanted, stale>>

Begin == job = "idle" /\ job' = "active" /\ UNCHANGED <<inside, valid, wanted, stale>>

(* A milestone starts when all wanted ones before it are valid. *)
Enter(s) ==
    /\ job = "active" /\ inside = 0
    /\ s \notin valid
    /\ \A t \in Steps : t < s => t \in valid \/ t \notin wanted
    /\ inside' = s
    /\ stale' = stale \ {s}
    /\ UNCHANGED <<job, valid, wanted>>

Finish ==
    /\ inside # 0
    /\ valid' = valid \cup ({inside} \cap Steps)
    /\ inside' = 0
    /\ UNCHANGED <<job, wanted, stale>>

Abandon == inside # 0 /\ inside' = 0 /\ UNCHANGED <<job, valid, wanted, stale>>

End == job = "active" /\ inside = 0 /\ job' = "over"
       /\ UNCHANGED <<inside, valid, wanted, stale>>

Acknowledge == job = "over" /\ job' = "idle"
               /\ UNCHANGED <<inside, valid, wanted, stale>>

Exit == job = "idle" /\ job' = "off" /\ UNCHANGED <<inside, valid, wanted, stale>>

Invalidate(S) == valid' = valid \ S /\ UNCHANGED <<job, inside, wanted, stale>>

(* The task is changed between milestones, or under one it goes on to want.*)
Retarget(S) ==
    /\ wanted' = S
    /\ UNCHANGED <<job, inside, valid, stale>>

(* New input for the milestones S: none of them is valid or being computed.*)
Write(S) ==
    /\ S \cap valid = {} /\ inside \notin S
    /\ stale' = stale \cup S
    /\ UNCHANGED <<job, inside, valid, wanted>>

(* New objects altogether. *)
Replace(S) ==
    /\ inside \notin Steps
    /\ valid' = {} /\ stale' = Steps /\ wanted' = S
    /\ UNCHANGED <<job, inside>>

Next ==
    \/ Ready \/ Begin \/ (\E s \in 1..FinalizeStep : Enter(s)) \/ Finish \/ Abandon
    \/ End \/ Acknowledge \/ Exit
    \/ \E S \in SUBSET Steps : \/ Invalidate(S) \/ Retarget(S)
                               \/ Write(S) \/ Replace(S)

Spec == Init /\ [][Next]_vars

=============================================================================
