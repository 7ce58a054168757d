---------------------------- MODULE SceneHistory -----------------------------
(***************************************************************************)
(* Scene editing with two history variables, the trees that were there     *)
(* before each executed and after each undone operation, to show that the  *)
(* operation stack keeps the promise of module UndoHistory. The operations *)
(* keep no tree: undo() and redo() compute one from what they captured.    *)
(***************************************************************************)
EXTENDS SceneEditing

VARIABLES past, future

historyVars == << vars, past, future >>

HistoryInit == Init /\ past = << >> /\ future = << >>

(* What the trees were, as the two lists of operations grow and shrink.     *)
Remember ==
  /\ past' = IF Len(executed') > Len(executed) THEN Append(past, doc.tree)
             ELSE IF Len(executed') < Len(executed) THEN Front(past)
             ELSE past
  /\ future' = IF Len(undone') > Len(undone) THEN Append(future, doc.tree)
               ELSE SubSeq(future, 1, Len(undone'))

HistorySpec == HistoryInit /\ [][CarefulNext /\ Remember]_historyVars

Promise == INSTANCE UndoHistory WITH State <- Tree, present <- doc.tree

(* undo() takes back exactly what the last edit did to the tree, down to the *)
(* order of the children; redo() brings exactly that back; an edit drops    *)
(* the redo list.                                                           *)
UndoIsExact == Promise!Spec
=============================================================================
