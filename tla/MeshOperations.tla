--------------------------- MODULE MeshOperations ----------------------------
(***************************************************************************)
(* Operations that a worker thread makes: a click in the operations window *)
(* or in the Geometry menu starts a job on the executor, the job reads the *)
(* selection and the meshes, builds the new meshes and queues a            *)
(* Mesh_operation or a Merge_operation, and the operation stack of the     *)
(* main thread runs it in some later frame (explorer/windows/operations,   *)
(* operations/mesh_operation, merge_operation, operation_stack).           *)
(*                                                                         *)
(* Three things are shared.  The mutex of the scene is held by a job while *)
(* it builds a Mesh_operation and by the main thread while an operation    *)
(* runs.  Nothing protects m_queued, and nothing the selection.            *)
(*                                                                         *)
(* When another graph is shown, Node_convex_hull_visualization takes the   *)
(* hulls of the old one out of the scene and adds those of the new one. It *)
(* asks neither the operation stack nor the selection, and it locks the    *)
(* mutex for what it adds, not for what it takes out.                      *)
(*                                                                         *)
(* What a mesh contains is the sequence of what went into it: the node it  *)
(* was made for and the clicks that changed it.                            *)
(***************************************************************************)
EXTENDS EditorOperations

CONSTANTS
  Root,           \* the root node of the scene
  InitialTrees,   \* the scenes that may be loaded
  HasMesh,        \* the nodes that have a mesh attached
  Hulls,          \* the node below which the hulls of the graph hang
  NewHulls,       \* bound: the nodes that the next graphs shown will make
  Click,          \* bound: the clicks that ask for an operation, one job each
  Selections,     \* bound: what the user selects
  MaxRemovals     \* bound: removals on the operation stack

ASSUME RootAssumption == Root \in Item
ASSUME InitialTreesAssumption ==
  \A t \in InitialTrees : /\ t \in Tree /\ t.parent[Root] = NoItem
                          /\ LinksAgreeIn(t) /\ NoDuplicateChildrenIn(t)
                          /\ AcyclicIn(t) /\ DepthIsDistanceIn(t)
ASSUME HasMeshAssumption == HasMesh \subseteq Item \ {Root}
ASSUME HullsAssumption ==
  /\ Hulls \in Item \ {Root} /\ NewHulls \subseteq HasMesh
  /\ \A t \in InitialTrees, x \in NewHulls : t.parent[x] = NoItem /\ t.children[x] = << >>
ASSUME NamesAssumption == Click \cap Item = {}

VARIABLES
  doc,        \* the item tree, the selection, and how the program ended
  mesh,       \* the primitives of the mesh of every node
  job,        \* what the executor does for every click
  queued,     \* m_queued
  executed,   \* m_executed
  undone,     \* m_undone
  pass,       \* update(): the place in m_queued and the end, read at the start
  hulls,      \* the hulls not made yet, and those that the main thread is about to add
  calm        \* history: the user has always waited and shown no other graph, and
              \* no access to m_queued met another

vars == << doc, mesh, job, queued, executed, undone, pass, hulls, calm >>

Content == Seq(Item \cup Click)

(* Entries: the node, its parent, what its mesh was when the job read it and *)
(* what it is to become. A removal has the steps of EditorOperations.       *)
Entry == [item : Item, parent : ItemOrNone, before : Content, after : Content]

Nothing == [kind |-> "none"]

MeshOperation(op) ==
  /\ op.kind \in {"edit", "merge"} /\ op.click \in Click
  /\ \A i \in DOMAIN op.entries : op.entries[i] \in Entry
  /\ op.selectionBefore \subseteq Item
RemoveOperation(op) == op.kind = "remove" /\ op.steps \in Operation

Job(phase, kind, operation) == [phase |-> phase, kind |-> kind, operation |-> operation]

Phase == {"none", "asked", "reading", "pushing", "torn", "done"}
Idle == [at |-> 0, end |-> 0]

InScene(t) == Subtree(t, Root)

Init ==
  /\ \E t \in InitialTrees : doc = [tree |-> t, selection |-> {}, fault |-> "none"]
  /\ mesh = [x \in HasMesh |-> << x >>]
  /\ job = [c \in Click |-> Job("none", "edit", Nothing)]
  /\ queued = << >> /\ executed = << >> /\ undone = << >>
  /\ pass = Idle
  /\ hulls = [unmade |-> NewHulls, coming |-> {}]
  /\ calm = TRUE

Alive == doc.fault = "none"

InPhase(phase) == {c \in Click : job[c].phase = phase}
Pushing == InPhase("pushing") \cup InPhase("torn")

(* A job that builds a Mesh_operation of a selection holds item_host_mutex,  *)
(* with a mesh or not; one that builds a Merge_operation takes no lock.     *)
Holds(c) == /\ job[c].phase = "reading" /\ job[c].kind = "edit"
            /\ job[c].operation.selectionBefore # {}
Locked == \E c \in Click : Holds(c)

(* An operation is on its way from a click to its execution. *)
Busy == queued # << >> \/ InPhase("asked") \cup InPhase("reading") \cup Pushing # {}

(* The jobs once one more thread uses m_queued: a push_back() that was under *)
(* way has met another access.                                              *)
TornPhase(phase) == IF phase = "pushing" THEN "torn" ELSE phase
Torn == [c \in Click |-> Job(TornPhase(job[c].phase), job[c].kind, job[c].operation)]

-----------------------------------------------------------------------------
(* What the operations do: states are records of a document and the meshes. *)

State == [doc |-> doc, mesh |-> mesh]
Failed(s, why) == [s EXCEPT !.doc = FailWith(@, why)]

(* set_parent({}), then set_parent(parent): the node is the last child now,  *)
(* and all depths are again what they were.                                 *)
Reattached(t, x) ==
  LET p == t.parent[x]
  IN  IF p = NoItem THEN t ELSE [t EXCEPT !.children[p] = Append(RemoveFirst(@, x), x)]

(* Where set_parent() puts the node of an entry: back where it was just taken *)
(* out, nowhere, or below the parent that the entry recorded.               *)
Placed(d, e, where) ==
  CASE where = "same" -> [d EXCEPT !.tree = Reattached(@, e.item)]
    [] where = "out"  -> Hang(d, e.item, NoItem, AtEnd)
    [] where = "back" -> Hang(d, e.item, e.parent, AtEnd)

PlacedInOrder(d, entries, where) ==
  FoldLeft(LAMBDA acc, e : Placed(acc, e, where), d, entries)

(* Mesh_operation: every node is taken out and put back with its mesh as it  *)
(* was ("before") or as it is to become ("after"). No node has two entries. *)
Edited(s, entries, which) ==
  [doc |-> PlacedInOrder(s.doc, entries, "same"),
   mesh |-> [x \in HasMesh |->
               IF \E e \in ToSet(entries) : e.item = x
               THEN (CHOOSE e \in ToSet(entries) : e.item = x)[which] ELSE s.mesh[x]]]

(* The operation has an entry, and the first node is in a scene. *)
Hosted(s, op) == op.entries # << >> /\ op.entries[1].item \in InScene(s.doc.tree)

(* ERHE_VERIFY: the operation is hosted. *)
ExecuteEdit(s, op) == IF Hosted(s, op) THEN Edited(s, op.entries, "after") ELSE Failed(s, "verify")

(* Mutant: undo() leaves the new mesh. *)
UndoEditKeepsMesh(s, op) ==
  IF Hosted(s, op) THEN Edited(s, op.entries, "after") ELSE Failed(s, "verify")

UndoEdit(s, op) == IF Hosted(s, op) THEN Edited(s, op.entries, "before") ELSE Failed(s, "verify")

(* Merge_operation does nothing without sources or outside of a scene. The   *)
(* first node is taken out and put back with the new mesh, the others leave *)
(* the scene, with what is below them.                                      *)
ExecuteMerge(s, op) ==
  LET first == Edited(s, << op.entries[1] >>, "after")
      left == PlacedInOrder(first.doc, Tail(op.entries), "out")
  IN  IF ~Hosted(s, op) THEN s
      ELSE [first EXCEPT !.doc = [left EXCEPT !.selection = {op.entries[1].item}]]

(* The others come back as last children. *)
UndoMerge(s, op) ==
  LET first == Edited(s, << op.entries[1] >>, "before")
      back == PlacedInOrder(first.doc, Tail(op.entries), "back")
  IN  IF ~Hosted(s, op) THEN s
      ELSE [first EXCEPT !.doc = [back EXCEPT !.selection = op.selectionBefore]]

ExecuteRemoval(s, op) ==
  LET r == Execute(s.doc, op.steps) IN [state |-> [s EXCEPT !.doc = r.doc],
                                        op |-> [op EXCEPT !.steps = r.op]]

UndoRemoval(s, op) ==
  LET r == Undo(s.doc, op.steps) IN [state |-> [s EXCEPT !.doc = r.doc],
                                     op |-> [op EXCEPT !.steps = r.op]]

ExecuteAny(s, op) ==
  CASE op.kind = "edit"   -> [state |-> ExecuteEdit(s, op), op |-> op]
    [] op.kind = "merge"  -> [state |-> ExecuteMerge(s, op), op |-> op]
    [] OTHER             -> ExecuteRemoval(s, op)

UndoAny(s, op) ==
  CASE op.kind = "edit"   -> [state |-> UndoEdit(s, op), op |-> op]
    [] op.kind = "merge"  -> [state |-> UndoMerge(s, op), op |-> op]
    [] OTHER             -> UndoRemoval(s, op)

(* The mutex of the scene is taken for an item in the scene. For one outside *)
(* (the undo of a removal) it is the mutex of all orphans.                  *)
NeedsLock(op) == IF op.kind \in {"edit", "merge"} THEN Hosted(State, op)
                 ELSE op.steps[1].item \in InScene(doc.tree)

(* Mutant: execute() and undo() take no lock. *)
NeverWaits(op) == TRUE

MayRun(op) == Locked => ~NeedsLock(op)

-----------------------------------------------------------------------------
(* The user, on the main thread: between two updates *)

Command == Alive /\ pass = Idle /\ hulls.coming = {}

(* Clicks in the tree and the viewport. A job that walks the selection at    *)
(* that moment may read freed memory.                                       *)
Select(S) ==
  /\ Command
  /\ S # doc.selection /\ S \subseteq InScene(doc.tree) \ {Root}
  /\ doc' \in {[doc EXCEPT !.selection = S]}
            \cup {FailWith(doc, "race") : c \in InPhase("reading")}
  /\ calm' = (calm /\ ~Busy)
  /\ UNCHANGED << mesh, job, queued, executed, undone, pass, hulls >>

Selected == doc.selection \cap HasMesh

(* Mutant: the buttons look at nothing either. *)
AlwaysEnabled(kind) == TRUE

(* The buttons look at the number of selected meshes, the menu does not. *)
Enabled(kind) == Cardinality(Selected) >= (IF kind = "merge" THEN 2 ELSE 1)

(* Merge and the other operations: a job starts, for the next click. *)
Ask(c, kind) ==
  /\ Command
  /\ job[c].phase = "none"
  /\ c = CHOOSE d \in InPhase("none") : TRUE
  /\ job' = [job EXCEPT ![c] = Job("asked", kind, @.operation)]
  /\ calm' = (calm /\ ~Busy /\ Enabled(kind))
  /\ UNCHANGED << doc, mesh, queued, executed, undone, pass, hulls >>

(* Delete in the popup menu of an item that is not selected. *)
RemoveOne(x) ==
  /\ Command
  /\ Len(SelectSeq(queued \o executed \o undone, LAMBDA op : op.kind = "remove")) < MaxRemovals
  /\ x \in InScene(doc.tree) \ ({Root} \cup doc.selection)
  /\ queued' = Append(queued, [kind |-> "remove", steps |-> << Removal(doc, x) >>])
  /\ job' = Torn
  /\ calm' = (calm /\ ~Busy)
  /\ UNCHANGED << doc, mesh, executed, undone, pass, hulls >>

UndoCommand ==
  /\ Command
  /\ executed # << >> /\ MayRun(Last(executed))
  /\ LET r == UndoAny(State, Last(executed))
     IN  /\ doc' = r.state.doc /\ mesh' = r.state.mesh
         /\ undone' = Append(undone, r.op)
  /\ executed' = Front(executed)
  /\ calm' = (calm /\ ~Busy)
  /\ UNCHANGED << job, queued, pass, hulls >>

RedoCommand ==
  /\ Command
  /\ undone # << >> /\ MayRun(Last(undone))
  /\ LET r == ExecuteAny(State, Last(undone))
     IN  /\ doc' = r.state.doc /\ mesh' = r.state.mesh
         /\ executed' = Append(executed, r.op)
  /\ undone' = Front(undone)
  /\ calm' = (calm /\ ~Busy)
  /\ UNCHANGED << job, queued, pass, hulls >>

-----------------------------------------------------------------------------
(* update(), on the main thread in every frame *)

(* Mutant: the end is one too far. *)
BeginUpdateTooLong ==
  /\ Command
  /\ pass' = IF queued = << >> THEN Idle ELSE [at |-> 1, end |-> Len(queued) + 1]
  /\ job' = Torn
  /\ calm' = (calm /\ Pushing = {})
  /\ UNCHANGED << doc, mesh, queued, executed, undone, hulls >>

BeginUpdate ==
  /\ Command
  /\ pass' = IF queued = << >> THEN Idle ELSE [at |-> 1, end |-> Len(queued)]
  /\ job' = Torn
  /\ calm' = (calm /\ Pushing = {})
  /\ UNCHANGED << doc, mesh, queued, executed, undone, hulls >>

ExecuteNext ==
  /\ Alive
  /\ pass.at \in 1 .. pass.end
  /\ MayRun(queued[pass.at])
  /\ LET r == ExecuteAny(State, queued[pass.at])
     IN  /\ doc' = r.state.doc /\ mesh' = r.state.mesh
         /\ executed' = Append(executed, r.op)
  /\ pass' = [pass EXCEPT !.at = @ + 1]
  /\ UNCHANGED << job, queued, undone, hulls, calm >>

(* What was queued meanwhile is cleared with the rest. *)
EndUpdate ==
  /\ Alive
  /\ pass # Idle /\ pass.at > pass.end
  /\ queued' = << >> /\ undone' = << >>
  /\ pass' = Idle
  /\ UNCHANGED << doc, mesh, job, executed, hulls, calm >>

-----------------------------------------------------------------------------
(* recreate_visualization_scene_graph(), on the main thread between the      *)
(* update of the operation stack and the commands of the next frame: another *)
(* graph was shown. The node without a mesh that is hung below every hull is *)
(* left out.                                                                *)

(* remove_all_children_recursively(): no lock is taken, and the operations   *)
(* and the selection keep what they know of the old hulls. Bound: every graph *)
(* has a hull, one of NewHulls that no graph before it had.                 *)
EmptyHulls ==
  /\ Command
  /\ doc' = [doc EXCEPT !.tree = RemoveChildrenFromTree(@, Hulls)]
  /\ \E S \in SUBSET hulls.unmade \ {{}} :
       hulls' = [unmade |-> hulls.unmade \ S, coming |-> S]
  /\ calm' = FALSE
  /\ UNCHANGED << mesh, job, queued, executed, undone, pass >>

(* add_node_convex_hull(): a new node, with the mutex locked. *)
AddHull(x) ==
  /\ Alive
  /\ x \in hulls.coming
  /\ ~Locked
  /\ doc' = Hang(doc, x, Hulls, AtEnd)
  /\ hulls' = [hulls EXCEPT !.coming = @ \ {x}]
  /\ UNCHANGED << mesh, job, queued, executed, undone, pass, calm >>

-----------------------------------------------------------------------------
(* The jobs, on the threads of the executor *)

Orders == SetToSeqs(doc.selection)
WithMesh(s) == FoldLeft(LAMBDA r, x : IF x \in HasMesh THEN Append(r, x) ELSE r, << >>, s)

EntryFor(x, after) ==
  [item |-> x, parent |-> doc.tree.parent[x], before |-> mesh[x], after |-> after]

(* make_entries(), in the order of the selection. *)
EditEntries(c, order) ==
  LET s == WithMesh(order) IN [i \in DOMAIN s |-> EntryFor(s[i], Append(mesh[s[i]], c))]

(* Merge_operation(): the shallowest node first; one node is not enough.     *)
MergeEntries(c, order) ==
  LET s == WithMesh(order)
      all == FlattenSeq([i \in DOMAIN s |-> mesh[s[i]]])
  IN  IF Len(s) < 2 THEN << >>
      ELSE [i \in DOMAIN s |-> EntryFor(s[i], IF i = 1 THEN Append(all, c) ELSE mesh[s[i]])]

ShallowFirst(order) ==
  \A i \in 1 .. Len(order) - 1 : doc.tree.depth[order[i]] <= doc.tree.depth[order[i + 1]]

(* The selection is read when the job starts. ERHE_VERIFY: the first selected *)
(* node is in a scene, or every source of a merge has a parent.             *)
MayBuild(kind, order) ==
  CASE kind = "edit"  -> order = << >> \/ order[1] \in InScene(doc.tree)
    [] kind = "merge" -> \/ Len(order) < 2
                         \/ \A x \in ToSet(WithMesh(order)) : doc.tree.parent[x] # NoItem

Entries(c, kind, order) ==
  CASE kind = "edit"  -> EditEntries(c, order)
    [] kind = "merge" -> MergeEntries(c, order)

Start(c) ==
  /\ Alive
  /\ job[c].phase = "asked"
  /\ (job[c].kind = "edit" /\ doc.selection # {}) => ~Locked
  /\ \E order \in Orders :
       /\ job[c].kind = "merge" => ShallowFirst(order)
       /\ doc' = IF MayBuild(job[c].kind, order) THEN doc ELSE FailWith(doc, "verify")
       /\ job' = [job EXCEPT ![c] = Job("reading", @.kind,
                    [kind |-> @.kind, click |-> c, entries |-> Entries(c, @.kind, order),
                     selectionBefore |-> doc.selection])]
  /\ UNCHANGED << mesh, queued, executed, undone, pass, hulls, calm >>

(* The operation is built, the lock is released, and queue() begins. *)
Finish(c) ==
  /\ Alive
  /\ job[c].phase = "reading"
  /\ LET meets == pass # Idle \/ Pushing # {}
     IN  /\ job' = [Torn EXCEPT ![c] = Job(IF meets THEN "torn" ELSE "pushing", @.kind, @.operation)]
         /\ calm' = (calm /\ ~meets)
  /\ UNCHANGED << doc, mesh, queued, executed, undone, pass, hulls >>

(* Mutant: what was built is not queued. *)
PushNothing(c) ==
  /\ Alive
  /\ c \in Pushing
  /\ job' = [job EXCEPT ![c] = Job("done", @.kind, Nothing)]
  /\ UNCHANGED << doc, mesh, queued, executed, undone, pass, hulls, calm >>

(* queue() ends. A push_back() that met another access may have appended the *)
(* operation, lost it, or left a vector that the program crashes on.        *)
Push(c) ==
  /\ Alive
  /\ c \in Pushing
  /\ \/ queued' = Append(queued, job[c].operation) /\ UNCHANGED doc
     \/ job[c].phase = "torn" /\ UNCHANGED << queued, doc >>
     \/ job[c].phase = "torn" /\ doc' = FailWith(doc, "race") /\ UNCHANGED queued
  /\ job' = [job EXCEPT ![c] = Job("done", @.kind, Nothing)]
  /\ UNCHANGED << mesh, executed, undone, pass, hulls, calm >>

-----------------------------------------------------------------------------
User ==
  \/ \E S \in Selections : Select(S)
  \/ \E c \in Click, kind \in {"edit", "merge"} : Ask(c, kind)
  \/ \E x \in Item : RemoveOne(x)
  \/ UndoCommand
  \/ RedoCommand

Rebuild == EmptyHulls \/ \E x \in NewHulls : AddHull(x)

Update == BeginUpdate \/ ExecuteNext \/ EndUpdate

Worker == \E c \in Click : Start(c) \/ Finish(c) \/ Push(c)

Next == User \/ Update \/ Rebuild \/ Worker

Spec == Init /\ [][Next]_vars

(* The main loop calls update() in every frame and the executor runs every   *)
(* job. The user does nothing by necessity. The fairness of Update is stated *)
(* of pass, which its steps change and no others do.                        *)
UpdateMoves ==
  /\ Alive /\ hulls.coming = {}
  /\ IF pass = Idle THEN queued # << >>
     ELSE pass.at \in 1 .. pass.end => MayRun(queued[pass.at])
  /\ pass' \in {Idle, [pass EXCEPT !.at = @ + 1], [at |-> 1, end |-> Len(queued)]}

FairSpec == Spec /\ WF_pass(UpdateMoves) /\ WF_vars(Worker)

-----------------------------------------------------------------------------
(* Properties *)

(* The document, the jobs and the three lists are well formed. *)
TypeOK ==
  /\ doc \in Document
  /\ mesh \in [HasMesh -> Content]
  /\ \A c \in Click : /\ job[c].phase \in Phase /\ job[c].kind \in {"edit", "merge"}
                     /\ job[c].operation # Nothing => MeshOperation(job[c].operation)
  /\ \A ops \in {queued, executed, undone} : \A i \in DOMAIN ops :
       MeshOperation(ops[i]) \/ RemoveOperation(ops[i])
  /\ pass.at \in 0 .. pass.end + 1 /\ pass.end \in 0 .. Len(queued)
  /\ hulls \in [unmade : SUBSET NewHulls, coming : SUBSET NewHulls]
  /\ calm \in BOOLEAN

(* No ERHE_VERIFY fails and nothing crashes for a user who waits until an    *)
(* operation that was asked for has run, asks with the buttons, and keeps    *)
(* the graph that is shown. What the worker found in the scene is still     *)
(* there when the operation runs, is undone and is redone: once another     *)
(* graph is shown it need not be, the hulls may be gone.                    *)
WaitingIsSafe == calm => Alive

(* What the operations do to the meshes, one after the other. *)
Applied(m, op) ==
  LET s == [i \in DOMAIN op.entries |-> op.entries[i].item]
  IN  CASE op.kind = "edit"  -> [x \in HasMesh |-> IF Contains(s, x) THEN Append(m[x], op.click)
                                                   ELSE m[x]]
        [] op.kind = "merge" -> IF s = << >> THEN m
                                ELSE [m EXCEPT ![s[1]] =
                                        Append(FlattenSeq([i \in DOMAIN s |-> m[s[i]]]), op.click)]
        [] op.kind = "remove" -> m

(* The operations carry whole meshes that a worker made from what it saw:    *)
(* that the meshes are always those that the list of executed operations    *)
(* makes, none lost and none taken back twice, is true only because nothing *)
(* ran between the worker and update(). With all undone, every node is back  *)
(* below the parent it had, those that a merge took out too.                *)
SceneFollowsHistory ==
  calm => /\ mesh = FoldLeft(Applied, [x \in HasMesh |-> << x >>], executed)
          /\ executed = << >> => \E t \in InitialTrees : doc.tree.parent = t.parent

(* While a worker holds the mutex of the scene no mesh changes, and no node  *)
(* leaves but those below Hulls, all at once: undo, redo and update() wait   *)
(* for the worker, and what shows another graph does not.                   *)
ReaderUndisturbed ==
  [][\A c \in Click : Holds(c) /\ Holds(c)' =>
       /\ mesh' = mesh
       /\ \A x \in InScene(doc.tree) \ InScene(doc.tree') :
            IsAncestor(doc.tree, Hulls, x) /\ doc.tree.children[Hulls]' = << >>]_vars

HasRun(c) == \E i \in DOMAIN executed : executed[i].kind # "remove" /\ executed[i].click = c

(* What was asked for happens, although update() clears the queue that the   *)
(* workers append to, unless an impatient user, a graph shown meanwhile or  *)
(* the race on m_queued loses it.                                           *)
EachAskedRuns ==
  \A c \in Click : job[c].phase = "asked" ~> HasRun(c) \/ ~calm
=============================================================================
