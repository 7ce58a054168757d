----------------------------- MODULE UndoHistory -----------------------------
(***************************************************************************)
(* What undo and redo promise: the documents before and after each edit    *)
(* are kept, undo goes back to exactly the document before the last edit,  *)
(* redo goes forward to exactly the one that was undone, and a new edit    *)
(* forgets what was undone.                                                *)
(***************************************************************************)
EXTENDS Sequences, SequencesExt

CONSTANT State    \* the documents

VARIABLES
  past,       \* the documents before each edit done, the last one last
  present,
  future      \* the documents after each edit undone, the next redo last

vars == << past, present, future >>

Init ==
  /\ past = << >>
  /\ present \in State
  /\ future = << >>

Edit ==
  /\ present' \in State
  /\ past' = Append(past, present)
  /\ future' = << >>

Undo ==
  /\ past # << >>
  /\ present' = Last(past)
  /\ past' = Front(past)
  /\ future' = Append(future, present)

Redo ==
  /\ future # << >>
  /\ present' = Last(future)
  /\ past' = Append(past, present)
  /\ future' = Front(future)

Next == Edit \/ Undo \/ Redo

Spec == Init /\ [][Next]_vars
=============================================================================
