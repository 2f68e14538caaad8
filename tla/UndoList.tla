------------------------------ MODULE UndoList ------------------------------
(***************************************************************************)
(* What the Undo / Redo stack promises its user, free of how it stores     *)
(* anything: a list of complete project states, a position in it, and the  *)
(* state on screen.  UndoRedoStack is shown to implement it.               *)
(***************************************************************************)
EXTENDS Naturals, Sequences, FiniteSets

CONSTANTS Contents  \* the project states

VARIABLES
  states,           \* the states one can go back or forward to, oldest first
  pos,              \* the position: states[pos], or Len(states) + 1 on top
  content           \* the state of the project on screen

listVars == <<states, pos, content>>

OnTop == pos = Len(states) + 1

Init ==
  /\ content \in Contents
  /\ states = <<content>>
  /\ pos = 2

(***************************************************************************)
(* An action records the state it starts from, drops what had been undone, *)
(* and may forget states from the oldest end.                              *)
(***************************************************************************)
Act ==
  \E k \in 1 .. pos :
    /\ pos' = pos - k + 2
    /\ content' \in Contents
    /\ states' = Append(SubSeq(states, k, pos - 1), content)

(***************************************************************************)
(* Leaving a tool records the state in the same way and may also forget    *)
(* states in between: those of the small edits made with the tool.         *)
(***************************************************************************)
Squash ==
  \E kept \in SUBSET (1 .. pos - 1) :
    LET numbered == [i \in 1 .. pos - 1 |-> <<i, states[i]>>]
        left == SelectSeq(numbered, LAMBDA x : x[1] \in kept)
    IN /\ pos' = Cardinality(kept) + 2
       /\ content' \in Contents
       /\ states' = Append([i \in DOMAIN left |-> left[i][2]], content)

(***************************************************************************)
(* Going to the i-th state shows that state as it was recorded.  The state *)
(* left on top is recorded first, so that one can return to it; the oldest *)
(* states may be forgotten, the first one cannot be gone back to.          *)
(***************************************************************************)
Jump ==
  LET all == IF OnTop THEN Append(states, content) ELSE states
  IN \E i \in 2 .. Len(all) \ {pos} : \E k \in 1 .. i - 1 :
       /\ pos' = i - k + 1
       /\ content' = all[i]
       /\ states' = SubSeq(all, k, Len(all))

\* A new project may start an empty list.
Restart ==
  /\ pos' = 2
  /\ states' = <<content>>
  /\ content' \in Contents

Next == Act \/ Jump \/ Restart \/ Squash

Spec == Init /\ [][Next]_listVars

=============================================================================
