---------------------------- MODULE SceneEditing -----------------------------
(***************************************************************************)
(* Editing a scene in the explorer: the user commands that queue operations *)
(* on the operation stack, the operation stack itself, undo, redo and the   *)
(* selection (explorer/operations/operation_stack.cpp, windows/operations,  *)
(* windows/item_tree_window, tools/selection_tool, tools/clipboard).        *)
(*                                                                         *)
(* A frame handles the input events and the windows, where commands change *)
(* the selection, undo and redo at once, but only queue an edit; then       *)
(* Operation_stack::update() runs what was queued. An operation is built    *)
(* from the document of the moment it is queued and runs on the document    *)
(* of the moment update() gets to it: CommandsPerFrame is how many commands *)
(* a frame may handle in between.                                          *)
(***************************************************************************)
EXTENDS EditorOperations

CONSTANTS
  Root,               \* the root node of the scene, which no window shows
  InitialTrees,       \* the scenes that may be loaded
  CommandsPerFrame,   \* bound: commands between two updates
  MaxOperations       \* bound: operations on the stack

ASSUME RootAssumption == Root \in Item
ASSUME InitialTreesAssumption ==
  \A t \in InitialTrees : /\ t \in Tree
                          /\ t.parent[Root] = NoItem
                          /\ LinksAgreeIn(t) /\ NoDuplicateChildrenIn(t)
                          /\ AcyclicIn(t) /\ DepthIsDistanceIn(t)
                          /\ \A x \in Item \ Subtree(t, Root) :
                               t.parent[x] = NoItem /\ t.children[x] = << >>
ASSUME BoundsAssumption == CommandsPerFrame \in Nat /\ MaxOperations \in Nat

VARIABLES
  doc,        \* the item tree, the selection, and how the program ended
  queued,     \* m_queued
  executed,   \* m_executed
  undone,     \* m_undone
  commands    \* commands handled since the last update

vars == << doc, queued, executed, undone, commands >>

InScene(t) == Subtree(t, Root)
Shown(t) == InScene(t) \ {Root}
Orphans(t) == Item \ InScene(t)

(* Items that a stored operation still refers to. A new item is none of      *)
(* these and is not in the scene.                                           *)
Held == {op.item : op \in UNION {ToSet(ops) : ops \in ToSet(queued \o executed \o undone)}}
New(x) == x \in Orphans(doc.tree) \ Held

Init ==
  /\ \E t \in InitialTrees : doc = [tree |-> t, selection |-> {}, fault |-> "none"]
  /\ queued = << >>
  /\ executed = << >>
  /\ undone = << >>
  /\ commands = 0

(* A command is handled: the program runs and the frame has time for it. *)
Command ==
  /\ doc.fault = "none"
  /\ commands < CommandsPerFrame
  /\ commands' = commands + 1

-----------------------------------------------------------------------------
(* Operation_stack *)

(* queue(), called with the steps of an operation; nothing is queued for an *)
(* empty compound.                                                          *)
Queue(ops) ==
  /\ ops # << >>
  /\ Len(queued) + Len(executed) + Len(undone) < MaxOperations
  /\ queued' = Append(queued, ops)
  /\ UNCHANGED << doc, executed, undone >>

(* update(): everything queued runs in order; the redo list is dropped. *)
RunQueue(d) == InOrder(Execute, d, queued)

Update ==
  /\ doc.fault = "none"
  /\ commands > 0
  /\ commands' = 0
  /\ LET r == RunQueue(doc)
     IN  doc' = r.doc /\ executed' = executed \o r.op
  /\ undone' = IF queued = << >> THEN undone ELSE << >>
  /\ queued' = << >>

(* undo() and redo() run at once, whatever is queued. *)
UndoCommand ==
  /\ Command
  /\ executed # << >>
  /\ LET r == Undo(doc, Last(executed))
     IN  doc' = r.doc /\ undone' = Append(undone, r.op)
  /\ executed' = Front(executed)
  /\ UNCHANGED queued

RedoCommand ==
  /\ Command
  /\ undone # << >>
  /\ LET r == Execute(doc, Last(undone))
     IN  doc' = r.doc /\ executed' = Append(executed, r.op)
  /\ undone' = Front(undone)
  /\ UNCHANGED queued

-----------------------------------------------------------------------------
(* The selection *)

(* Clicks, toggles, range selection, select all: any set of shown items.    *)
SelectItems(S) ==
  /\ Command
  /\ S # doc.selection
  /\ doc' = [doc EXCEPT !.selection = S]
  /\ UNCHANGED << queued, executed, undone >>

(* The selection is a vector in the order of the clicks. *)
SelectionOrders == SetToSeqs(doc.selection)

(* get_ancestor_in() *)
AncestorSelected(x) == \E y \in doc.selection : IsAncestor(doc.tree, y, x)

(* delete_selection(): every item of every selected subtree, once for each    *)
(* selected item at or above it, the deepest first. The entries of one item  *)
(* are listed together: all but the first find it an orphan, wherever they  *)
(* come among the items of its depth.                                       *)
DeleteOrders ==
  LET t == doc.tree
      Visits(y) == {x \in doc.selection : y \in Subtree(t, x)}
      DeepestFirst(s) == \A i \in 1 .. Len(s) - 1 : t.depth[s[i]] >= t.depth[s[i + 1]]
      Repeated(s) == FlattenSeq([i \in DOMAIN s |->
                       [k \in 1 .. Cardinality(Visits(s[i])) |-> s[i]]])
  IN  {Repeated(s) : s \in {s \in SetToSeqs({y \in Item : Visits(y) # {}}) : DeepestFirst(s)}}

DeleteSelection ==
  /\ Command
  /\ \E order \in DeleteOrders : Queue([i \in DOMAIN order |-> Removal(doc, order[i])])

(* duplicate_selection(): copies go right after the originals. Copying an     *)
(* item that has children ends the program with an exception, see README:   *)
(* the copy constructor hangs them below a copy that nothing owns yet.      *)
HasChildren(x) == doc.tree.children[x] # << >>

DuplicateSelection ==
  /\ Command
  /\ \A x \in doc.selection : ~HasChildren(x)
  /\ \E order \in SelectionOrders :
     \E copy \in [1 .. Len(order) -> {x \in Item : New(x)}] :
       /\ IsInjective(copy)
       /\ Queue([i \in DOMAIN order |->
                   Insertion(doc, copy[i], doc.tree.parent[order[i]],
                             IndexInParent(doc.tree, order[i]) + 1)])

-----------------------------------------------------------------------------
(* Other commands that queue an operation *)

(* A new node (scene_commands), a pasted copy (clipboard), the copy of one    *)
(* item (popup menu): x goes to some place below p.                         *)
InsertItem(x, p, position) ==
  /\ Command
  /\ New(x)
  /\ Queue(<< Insertion(doc, x, p, position) >>)

(* Delete or Cut in the popup menu of an item that is not selected: only the *)
(* item goes, its children move up.                                         *)
RemoveOne(x) ==
  /\ Command
  /\ x \notin doc.selection
  /\ Queue(<< Removal(doc, x) >>)

(* Dragging in the tree window, reposition(): before or after anchor. *)
Placed(x, anchor, before) ==
  LET b == IF before THEN anchor ELSE NoItem
      a == IF before THEN NoItem ELSE anchor
      t == doc.tree
  IN  IF t.parent[anchor] # t.parent[x] THEN Reparent(t, x, t.parent[anchor], b, a)
      ELSE Reposition(x, b, a)

(* Mutant: an item may be moved below itself. *)
MayMoveAnywhere(x, anchor) == x # anchor

(* An item is never moved to itself or below itself; with the selection, an *)
(* item moves with its selected ancestor.                                   *)
MayMove(x, anchor) ==
  /\ x # anchor
  /\ ~IsAncestor(doc.tree, x, anchor)

(* What goes with a dragged item. The order is that of the selection vector. *)
Dragged(drag, anchor) ==
  {x \in IF drag \in doc.selection THEN doc.selection ELSE {drag} :
     /\ MayMove(x, anchor)
     /\ drag \in doc.selection => ~AncestorSelected(x)}

(* move_selection() *)
MoveSelection(drag, anchor, before) ==
  /\ Command
  /\ \E order \in SetToSeqs(Dragged(drag, anchor)) :
       Queue([i \in DOMAIN order |-> Placed(order[i], anchor, before)])

(* attach_selection_to() *)
AttachSelectionTo(drag, target) ==
  /\ Command
  /\ \E order \in SetToSeqs(Dragged(drag, target)) :
       Queue([i \in DOMAIN order |->
                Reparent(doc.tree, order[i], target, NoItem, NoItem)])

(* The Attach button of the operations window: the first selected node goes *)
(* below the second one. Nothing looks at their relation.                   *)
AttachButton(x, p) ==
  /\ Command
  /\ x \in doc.selection /\ p \in doc.selection /\ x # p
  /\ Queue(<< Reparent(doc.tree, x, p, NoItem, NoItem) >>)

-----------------------------------------------------------------------------
TreeWindow ==
  \E x, y \in Shown(doc.tree) :
    \/ \E before \in BOOLEAN : MoveSelection(x, y, before)
    \/ AttachSelectionTo(x, y)

Menus ==
  \/ DeleteSelection
  \/ \E x \in Shown(doc.tree) : RemoveOne(x)
  \/ \E x \in Item, p \in InScene(doc.tree) :
     \E position \in 0 .. Len(doc.tree.children[p]) : InsertItem(x, p, position)

History == UndoCommand \/ RedoCommand \/ Update

Selecting == \E S \in SUBSET Shown(doc.tree) : SelectItems(S)

(* What users do who neither attach an item below itself nor copy an item    *)
(* that has children.                                                       *)
CarefulNext ==
  \/ TreeWindow
  \/ Menus
  \/ History
  \/ Selecting
  \/ DuplicateSelection
  \/ \E x, p \in Shown(doc.tree) : MayAdopt(doc.tree, p, x) /\ AttachButton(x, p)

CarefulSpec == Init /\ [][CarefulNext]_vars

-----------------------------------------------------------------------------
(* Properties *)

(* The document and the three operation lists are well formed.              *)
TypeOK ==
  /\ doc \in Document
  /\ queued \in Seq(Operation) /\ executed \in Seq(Operation) /\ undone \in Seq(Operation)
  /\ commands \in 0 .. CommandsPerFrame

(* No ERHE_VERIFY of an operation fails and no null parent is dereferenced:  *)
(* what an operation assumed of the tree when it was queued, executed or     *)
(* undone still holds when it is executed, undone or redone.                *)
NoFault == doc.fault = "none"

(* What left the scene left alone: no item hangs below a removed one, where *)
(* no window shows it and no undo finds it.                                 *)
OrphansAreBare ==
  \A x \in Orphans(doc.tree) : /\ doc.tree.parent[x] = NoItem
                               /\ doc.tree.children[x] = << >>

(* The operations edit child vectors and parents behind each other's back;   *)
(* the tree they leave is one hierarchy_sanity_check() accepts, and nothing *)
(* is left hanging outside of it.                                           *)
TreeIsSound ==
  /\ OrphansAreBare
  /\ LinksAgreeIn(doc.tree) /\ NoDuplicateChildrenIn(doc.tree)
  /\ AcyclicIn(doc.tree) /\ DepthIsDistanceIn(doc.tree)

(* Nothing selected is outside the scene, although undo and redo bring back  *)
(* selections captured long before.                                         *)
SelectionInScene == doc.selection \subseteq Shown(doc.tree)
=============================================================================
