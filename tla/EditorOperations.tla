--------------------------- MODULE EditorOperations --------------------------
(***************************************************************************)
(* The undoable operations of the explorer that change the item tree       *)
(* (explorer/operations): execute() and undo() of each, as functions of    *)
(* the document they change and of the members the operation captured.     *)
(*                                                                         *)
(* An operation is a sequence of steps: Compound_operation runs its steps   *)
(* in order and undoes them in reverse order, and any other operation is a *)
(* sequence of one.  A step is a record; execute() returns it with the     *)
(* members that it captured.                                               *)
(*                                                                         *)
(* fault says how the program ended, if it did: a failed ERHE_VERIFY       *)
(* aborts ("verify"), set_depth_recursive() never returns from a cycle     *)
(* ("cycle"), a null parent is dereferenced ("null"), two threads use one   *)
(* vector at once ("race").                                                *)
(***************************************************************************)
EXTENDS ItemTree

Fault == {"none", "verify", "cycle", "null", "race"}

Document == [tree : Tree, selection : SUBSET Item, fault : Fault]

FailWith(d, why) == [d EXCEPT !.fault = why]

(* A step, or a sequence of steps, that has run or failed. *)
Done(d, op) == [doc |-> d, op |-> op]

-----------------------------------------------------------------------------
(* The steps as their constructors leave them *)

(* Item_parent_change_operation: item moves from its parent to another one,  *)
(* before or after a given child of it or, with neither, to the end.         *)
ReparentStep == [kind : {"reparent"}, item : Item, from : ItemOrNone, to : ItemOrNone,
                 before : ItemOrNone, after : ItemOrNone, index : Nat]

Reparent(t, x, p, before, after) ==
  [kind |-> "reparent", item |-> x, from |-> t.parent[x], to |-> p,
   before |-> before, after |-> after, index |-> 0]

(* Item_reposition_in_parent_operation: item moves among its siblings. *)
RepositionStep == [kind : {"reposition"}, item : Item,
                   before : ItemOrNone, after : ItemOrNone, index : Nat]

Reposition(x, before, after) ==
  [kind |-> "reposition", item |-> x, before |-> before, after |-> after, index |-> 0]

(* Item_insert_remove_operation: a new item enters the tree below to, or an  *)
(* item leaves it and its children go to its parent.                        *)
InsertRemoveStep ==
  [kind : {"insert", "remove"}, item : Item, from : ItemOrNone, to : ItemOrNone,
   index : Nat, changes : Seq(ReparentStep),
   selectionBefore : SUBSET Item, selectionAfter : SUBSET Item]

Insertion(d, x, p, position) ==
  [kind |-> "insert", item |-> x, from |-> NoItem, to |-> p, index |-> position,
   changes |-> << >>, selectionBefore |-> d.selection, selectionAfter |-> d.selection]

(* Mutant: what is removed stays selected. *)
RemovalKeepsSelection(d, x) ==
  [kind |-> "remove", item |-> x, from |-> NoItem, to |-> NoItem, index |-> 0,
   changes |-> << >>, selectionBefore |-> d.selection, selectionAfter |-> d.selection]

Removal(d, x) ==
  [kind |-> "remove", item |-> x, from |-> NoItem, to |-> NoItem, index |-> 0,
   changes |-> << >>, selectionBefore |-> d.selection, selectionAfter |-> {}]

Step == ReparentStep \cup RepositionStep \cup InsertRemoveStep
Operation == Seq(Step)

-----------------------------------------------------------------------------
(* Running steps in order, and undoing them in reverse order *)

(* Run(d, op) does one step. Nothing runs after a fault. *)
InOrder(Run(_, _), d, ops) ==
  LET RunIn(acc, op) ==
        LET r == IF acc.doc.fault = "none" THEN Run(acc.doc, op) ELSE Done(acc.doc, op)
        IN  Done(r.doc, Append(acc.op, r.op))
      after[k \in 0 .. Len(ops)] ==
        IF k = 0 THEN Done(d, << >>) ELSE RunIn(after[k - 1], ops[k])
  IN  after[Len(ops)]

InReverse(UndoOf(_, _), d, ops) ==
  LET r == InOrder(UndoOf, d, Reverse(ops))
  IN  Done(r.doc, Reverse(r.op))

(* A call of set_parent() in a document. *)
Hang(d, x, p, position) ==
  IF p = x THEN FailWith(d, "verify")
  ELSE IF MayAdopt(d.tree, p, x) THEN [d EXCEPT !.tree = SetParent(d.tree, x, p, position)]
  ELSE FailWith(d, "cycle")

-----------------------------------------------------------------------------
(* Item_parent_change_operation *)

ExecuteReparent(d, op) ==
  LET t == d.tree
      position == IF op.to = NoItem THEN AtEnd
                  ELSE IF op.before # NoItem THEN IndexInParent(t, op.before)
                  ELSE IF op.after # NoItem THEN IndexInParent(t, op.after) + 1
                  ELSE Len(t.children[op.to])
  IN  IF t.parent[op.item] # op.from
      THEN Done(FailWith(d, "verify"), op)
      ELSE Done(Hang(d, op.item, op.to, position),
                [op EXCEPT !.index = IndexInParent(t, op.item)])

(* Mutant: the item comes back as the last child. *)
UndoReparentAtEnd(d, op) == Done(Hang(d, op.item, op.from, AtEnd), op)

UndoReparent(d, op) ==
  IF d.tree.parent[op.item] # op.to
  THEN Done(FailWith(d, "verify"), op)
  ELSE Done(Hang(d, op.item, op.from, op.index), op)

(* The parent changes inside another operation. *)
ExecuteReparents(d, ops) == InOrder(ExecuteReparent, d, ops)

UndoReparents(d, ops) == InReverse(UndoReparent, d, ops)

-----------------------------------------------------------------------------
(* Item_reposition_in_parent_operation. It edits the child vector itself,    *)
(* and undo() goes to the index the item had, whatever the vector became.    *)

Relisted(t, p, s) ==
  [parent |-> t.parent, children |-> [t.children EXCEPT ![p] = s], depth |-> t.depth]

WithChildren(d, p, s) == [d EXCEPT !.tree = Relisted(@, p, s)]

(* Mutant: the item is inserted before it is erased. *)
RepositionKeepsOld(d, op) ==
  LET p == d.tree.parent[op.item]
      i == IndexInParent(d.tree, op.item)
      j == IF op.before # NoItem THEN IndexInParent(d.tree, op.before)
           ELSE IndexInParent(d.tree, op.after) + 1
      s == InsertAt(d.tree.children[p], j + 1, op.item)
  IN  IF p = NoItem THEN Done(FailWith(d, "verify"), op)
      ELSE Done(WithChildren(d, p, RemoveAt(s, i + 1)), [op EXCEPT !.index = i])

ExecuteReposition(d, op) ==
  LET t == d.tree
      p == t.parent[op.item]
      i == IndexInParent(t, op.item)
      without == RemoveAt(t.children[p], i + 1)
      u == Relisted(t, p, without)
      j == IF op.before # NoItem THEN IndexInParent(u, op.before)
           ELSE IndexInParent(u, op.after) + 1
  IN  IF p = NoItem \/ j > Len(without)
      THEN Done(FailWith(d, "verify"), op)
      ELSE Done(WithChildren(d, p, InsertAt(without, j + 1, op.item)),
                [op EXCEPT !.index = i])

UndoReposition(d, op) ==
  LET p == d.tree.parent[op.item]
      without == RemoveAt(d.tree.children[p], IndexInParent(d.tree, op.item) + 1)
  IN  IF p = NoItem \/ op.index > Len(without)
      THEN Done(FailWith(d, "verify"), op)
      ELSE Done(WithChildren(d, p, InsertAt(without, op.index + 1, op.item)), op)

-----------------------------------------------------------------------------
(* Item_insert_remove_operation. remove captures the place of the item and   *)
(* its children each time it runs; the place it goes to is where the last    *)
(* undo() found it.                                                         *)

ExecuteInsert(d, op) ==
  Done([Hang(d, op.item, op.to, op.index) EXCEPT !.selection = op.selectionAfter], op)

ExecuteRemove(d, op) ==
  LET t == d.tree
      p == t.parent[op.item]
      children == t.children[op.item]
      i == IndexInParent(t, op.item)
      moved == ExecuteReparents(d, [k \in 1 .. Len(children) |->
                                      Reparent(t, children[k], p, NoItem, NoItem)])
      gone == Hang(moved.doc, op.item, op.to, i)
  IN  IF p = NoItem /\ children # << >>
      THEN Done(FailWith(d, "null"), op)
      ELSE Done([gone EXCEPT !.selection = op.selectionAfter],
                [op EXCEPT !.from = p, !.index = i, !.changes = moved.op])

UndoInsertRemove(d, op) ==
  LET back == Hang(d, op.item, op.from, op.index)
      restored == UndoReparents(back, op.changes)
  IN  Done([restored.doc EXCEPT !.selection = op.selectionBefore],
           IF op.kind = "remove" THEN [op EXCEPT !.to = d.tree.parent[op.item]] ELSE op)

-----------------------------------------------------------------------------
(* Compound_operation *)

ExecuteStep(d, op) ==
  CASE op.kind = "reparent"   -> ExecuteReparent(d, op)
    [] op.kind = "reposition" -> ExecuteReposition(d, op)
    [] op.kind = "insert"     -> ExecuteInsert(d, op)
    [] op.kind = "remove"     -> ExecuteRemove(d, op)

UndoStep(d, op) ==
  CASE op.kind = "reparent"             -> UndoReparent(d, op)
    [] op.kind = "reposition"           -> UndoReposition(d, op)
    [] op.kind \in {"insert", "remove"} -> UndoInsertRemove(d, op)

Execute(d, ops) == InOrder(ExecuteStep, d, ops)

Undo(d, ops) == InReverse(UndoStep, d, ops)
=============================================================================
