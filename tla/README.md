# A TLA+ model of the graph-explorer

The repository is the erhe engine and its scene editor, the *explorer*. The
specifications in this directory model the parts of it that hold state over many
steps: the item tree, the operations on it that can be undone, the operation
stack and the worker threads that feed it, the nodes of a scene with their
transforms, the graph of operators with the windows that show it, the ring buffer that feeds the GPU, and the byte rings and
packets of a network connection. TLC checks them on small instances, and TLAPS
proves the most important invariants for every value of the constants.

Paths below are relative to `src/src/`.

## 1. Inventory

| component | state it keeps | operations | what makes it hard |
|---|---|---|---|
| Item hierarchy, `erhe/item/hierarchy.cpp` | per item: weak parent, vector of children, depth | `set_parent`, `remove`, `recursive_remove`, `remove_all_children_recursively` | three redundant records; recursion over a structure that the recursion edits |
| Operations, `explorer/operations/item_*`, `compound_operation.cpp` | what the constructor and `execute()` captured: parents, indices, selections | `execute`, `undo` | captured values must still be right when they are used |
| Operation stack, `explorer/operations/operation_stack.cpp` | `m_queued`, `m_executed`, `m_undone` | `queue`, `update`, `undo`, `redo` | built in one moment, run in another; `queue` also called from worker threads |
| Commands and windows, `explorer/windows/item_tree_window.cpp`, `operations.cpp`, `tools/selection_tool.cpp`, `tools/clipboard.cpp`, `scene/scene_commands.cpp` | selection, last selected item of each type, clipboard | select, delete, duplicate, drag, attach, insert, paste | each must keep the preconditions of the operations it queues |
| Mesh and merge operations, `explorer/operations/mesh_operation.cpp`, `merge_operation.cpp`, `windows/operations.cpp` | jobs on the executor; entries that carry whole meshes | ask, build, queue; `execute`, `undo` | reads the selection on another thread, locks item hosts, appends to `m_queued` without a lock; the hulls of a graph change beside all of it |
| GPU ring buffer, `erhe/renderer/gpu_ring_buffer.cpp` | write and read position with wrap counts, queue of fences, one open range | `open`, `close`, `submit`, `cancel`, `update_entries` | the GPU runs concurrently; wraps; alignment; fences |
| Scene graph, `erhe/scene/scene.cpp`, `node.cpp`, `node_attachment.cpp`, `mesh.cpp` | registered nodes, meshes, cameras, lights; transforms; flags that the physics sets | register, unregister, attach, update transforms | nested call-backs on parent and host changes; a cached sort |
| Message bus, `erhe/message_bus` | receivers, queue, mutex | add receiver, send, queue, update | call-backs under a lock |
| Network, `erhe/net` | byte rings, framing, connection state | connect, poll, send, receive | partial sends, wraps, states of a socket |
| Node graph, `erhe/graph` | nodes, pins, links, sorted flag | clear, register, unregister, connect, disconnect, sort | erasing while iterating, stale order, plain pointers |
| Graph explorer, `explorer/windows/project_explorer.cpp`, `explorer/graph/graph_window.cpp`, `explorer/graph/node_convex_hull_visualization.cpp` | project tree, shown graph and its selection, hulls in the scene | scan, choose a folder, show, select, rebuild the hulls | ownership by one item of a tree that may be replaced; a request, a message and their effect in three frames |
| Wavefronts and time line, `explorer/graph/wavefront_visualization.cpp`, `timeline_window.cpp` | frames and offset of each operator, length, playhead | arrange, show and hide, edit, play, render | unsigned times, negative offsets, a playhead that is a float, a length computed after the playhead moved |
| Render graph, `erhe/rendergraph` | nodes, inputs and outputs | connect, disconnect, sort, execute | the same with resources |
| Input commands, `erhe/commands` | bindings, active command, who has the mouse | press, move, release, tick | states of commands, priority |

**How they interact.** `Explorer::tick()` (`explorer/explorer.cpp:184`) is the
main loop: it runs the commands of the input events (236), the network (239),
draws the windows, whose widgets are commands too (245), runs the operation
stack (257), delivers queued messages (264) and then renders, which opens,
fills and submits ranges of the GPU ring buffers. A command changes the
selection, and `undo` and `redo` change the tree, at once; an edit is *queued*
as an operation and executed by `Operation_stack::update()` later in the same
frame. An operation changes the item tree through
`Hierarchy::set_parent()` or edits a child vector itself, and sets the
selection. A change of the tree calls back into `Node` and `Scene`.

**What makes each correct.**

* *Hierarchy*: parents and child vectors agree, nothing is listed twice, there
  is no cycle, stored depths are distances, siblings keep their order.
* *Operations and stack*: no assertion of an operation can fail; undo restores
  the tree exactly, redo exactly brings back what was undone, a new edit drops
  the redo list; what leaves the scene leaves it completely; the selection
  never names what is not in the scene.
* *GPU ring buffer*: bytes lent to the program are not bytes that the GPU may
  read; positions stay in order across wraps; `open()` returns.
* *Scene graph*: an item is registered in exactly the scene it hangs in; moving
  a node in the tree does not move it in the world; after an update every node,
  and every mesh that rays are shot at, is where its parent puts it.
* *Message bus*: each message reaches each receiver once; nobody waits for
  itself.
* *Network*: bytes arrive in order and complete or the connection closes; a full
  buffer is never taken for an empty one.
* *Mesh operations*: what a worker found still holds when its operation runs; an
  operation that was asked for is executed; nothing changes under a reader.
* *Node graph*: links and pins name each other; the order of evaluation
  respects the links of the moment.
* *Graph explorer*: a node is looked up only in the graph it belongs to; a scan
  destroys nothing that is pointed to; the scene follows the graph window.
* *Wavefronts*: the time line covers what is shown; arranged operators run in the
  order of their depth; a frame comes to its end.

`PROJECT.json` lists the components and, line by line, the hazards.

## 2. Modules

```
ItemTree ---- Hierarchy (TLC)
   |              \--- SceneNodes --- MCSceneNodes (TLC)
   |                        \-------- SceneNodesProofs (TLAPS)
   |                                        |
   \--- ItemTreeProofs (TLAPS, lemmas) ------/
EditorOperations
   |
   |--- SceneEditing --- MCSceneEditing ---\
   |         |                              MCSceneHistory (TLC)
   |    SceneHistory ---- implements --- UndoHistory
   |         \--- SceneEditingProofs (TLAPS)
   |
   \--- MeshOperations --- MCMeshOperations (TLC)
             \------------ MeshOperationsProofs (TLAPS)

LinkGraph --- NodeGraph --- MCNodeGraph (TLC)
                 \--------- GraphProofs (TLAPS)
                                |
GraphExplorer -----------------/
       \--------- MCGraphExplorer (TLC)

Wavefronts --- MCWavefronts (TLC)
       \------ WavefrontsProofs (TLAPS)

GpuRingBuffer -- implements --- BufferLoans
   |--- MCGpuRingBuffer (TLC)
   \--- RingProofs (TLAPS)

ByteRing --- RingBuffer -- implements --- ByteQueue
   |             |--- (TLC)
   |             \--- RingProofs (TLAPS)
   \---- PacketStream --- MCPacketStream (TLC)
                 \------- RingProofs (TLAPS)
```

**ItemTree** has no variables. A tree is a record of three functions, the three
members `m_parent`, `m_children`, `m_depth` of every item, and each operation of
`Hierarchy` is an operator from trees to trees, because one `execute()` is many
calls of `set_parent`. `SetParent` has the early return for an unchanged parent,
the erase from the old vector, the clamped insert into the new one and
`set_depth_recursive` with its early stop. The recursion down the tree is a
function on the natural numbers (`DepthWave`), and `IsAncestor` is stated by
closed sets, so that the module can be used in proofs. The three removals are
stated by their results, and written once more as the code runs them, as loops of
`set_parent` calls (`RemoveLoop`, `RecursiveRemoveLoop`); `RemovalsAreLoops` says that the
two agree in every reachable tree. The recursion is a function on sound trees: in one
with a cycle the code would not return.

**Hierarchy** makes a machine of it: any sequence of public operations on any
items, under the contract that `set_parent` leaves to its callers (`MayAdopt`:
not onto itself or its own descendant).

**SceneNodes** is `Hierarchy` as `erhe::scene::Node` extends it: `hosted`, the nodes
whose `node_data.host` is the scene; `order`, the vector of the scene as it was last
sorted, empty while `m_nodes_sorted` is false; the two transforms of every node; and
one mesh, with how often the layer of the scene has it and where its instance in
the ray tracing scene is. Each action is one of `Hierarchy` with all that it calls
back: `Rehost`, the registration of a subtree, and `KeepPlaces`, the new transforms
relative to new parents. A removal hands its children over by calls of `set_parent`,
which do not disturb each other, so the action states what they end in. `awake` is
the flag `no_transform_update`, which the physics engine sets (`SetActive`).
`UpdateTransforms` is one pass over the vector: a node takes the new transform of a
parent that comes earlier and the old one of a parent that comes later. A transform
is an element of any group.

**EditorOperations** has `execute()` and `undo()` of `Item_parent_change_operation`,
`Item_reposition_in_parent_operation`, `Item_insert_remove_operation` and
`Compound_operation` as operators on a *document*: the tree, the selection, and
`fault`, how the program ended. A failed `ERHE_VERIFY`, a null parent that is
dereferenced and a `set_parent` that makes a cycle (`set_depth_recursive` then does
not return) are faults. A step is a record of the members of the operation, and running it returns the record with
what it captured.

**SceneEditing** is the editor: `doc`, the three lists of the operation stack,
and `commands`, how many commands this frame has handled. One action per
command (`DeleteSelection`, `DuplicateSelection`, `InsertItem`, `RemoveOne`,
`MoveSelection`, `AttachSelectionTo`, `AttachButton`, `SelectItems`), each with
the filters of its source, and `Update`, `UndoCommand`, `RedoCommand`. The
selection is a set; where the code depends on its order (the vector in order of
the clicks, the hash set in `delete_selection`) the action takes every order. An
item that is in no list and not in the scene stands for a new one. `CarefulNext`
leaves out two commands that break the program by themselves, attaching an
item below itself and copying an item that has children; section 3 tells what
they do.

**SceneHistory** adds the history variables `past` and `future`, the trees before
each executed and after each undone operation, and shows that the stack implements
**UndoHistory**, where undo and redo simply exchange stored documents.

**MeshOperations** is the other way onto the operation stack: a click starts a job
on the executor, the job reads the selection and the meshes, builds an operation
and queues it. Each job goes through *asked*, *reading*, *pushing* and *done*. Here
`update()` is in steps, `BeginUpdate`, one `ExecuteNext` per operation and
`EndUpdate`, because the workers run between them. A job that builds a
`Mesh_operation` of a selection, with or without meshes in it, holds the mutex of
the scene from `Start` to `Finish`; one that builds a `Merge_operation` takes no lock. `MayRun` is the same mutex taken by
`execute()` and `undo()`, which for an item outside of the scene is the one of all
orphans. `m_queued` has no lock: a `push_back()` lasts from `Finish` to `Push`, and one
that met another access (*torn*) may have appended the operation, lost it or left
a vector that the program crashes on. The contents of a mesh are the sequence of
what went into it. What a job reads, it reads in one step; for a merge, which
holds no lock, this is the one abstraction that hides interleavings.

The operation stack is not alone with the scene. When another graph is shown,
`recreate_visualization_scene_graph()` takes everything below the node of the hulls
out of the scene, without the mutex, and adds the new hulls one by one with it. This
is `Rebuild`: `EmptyHulls`, and `AddHull` for each. The operations on the lists and
the selection are told nothing of it. `NewHulls` bounds how many graphs may be shown:
each has a hull that no graph before it had. Hulls are nodes with a mesh that the user
can select and edit like any other; the node without a mesh that is hung below each of
them is left out, and the model starts after the first graph has made the node
`Hulls`.

`calm` is a history variable: the user has always waited until an operation that was
asked for had run, has used the buttons (which look at the selection, as the menu
does not), and has shown no other graph; and no `push_back()` has met another
access. (A graph that is shown before the first operation is one of the scenes that
the model starts with.)

**LinkGraph** is `erhe::graph` as a value: nodes in order, source and sink of each
link, the links that each pin names, the sorted flag, and an operator for each
operation. Links are addresses, so that a destroyed one may come back as another.
`Overlooked` counts the links that the loop of `unregister_node()` does not
disconnect because `disconnect()` erases from the vector it walks; `MCNodeGraph`
writes the loop over the storage of the vector once more and compares. `PlaceNext`
is one round of `sort()`. **NodeGraph**
is any sequence of these operations, and remembers the nodes whose pins `clear()`
left with pointers to destroyed links: the program makes new nodes instead.

**GraphExplorer** follows a `.dfg` file through the phases of a frame: the windows
scan, select and request, the message bus delivers, and the end of the frame loads
the file, fills the graph window and queues the message that rebuilds the hulls in
the next frame. The folder dialog has phases of its own, `ChooseFolder`, `ShowFolder`
and `ScanAgain`, the three writes of the callback, and takes them at any moment of a
frame: SDL is given the callback with no word about thread or time
(`project_explorer.cpp:100`), and answers from another thread on some systems.
Ownership is the point: an item lives as long as a tree or the selection of the editor
refers to it, and `owner` is the item that owns the nodes of the graph. The request of a
frame has a reference to an item and does not own it. When the dialog replaced the
trees meanwhile, the end of the frame uses a destroyed item (`EndFrameDangling`), and
the phase is "undefined" from then on.

**Wavefronts** has the offsets and frames of the operators and the time line in
one machine: `Update` moves the playhead by what time has passed, `Wrap` is one round of
the loops that bring it back into the time line, the windows follow, and `Render`
computes the length. Times and lengths are numbers modulo `Word`. The playhead and the length of the
time line are floats: numbers of `Digits` binary digits, to which every sum and
difference is `Rounded`, the even one of two that are equally near. A round of the loop
whose length is lost in the rounding changes nothing, and the loop stays where it is.
Only whole numbers of time units are considered, so the fractions that a float also has are
left out.

**GpuRingBuffer** has the members of `GPU_ring_buffer` and the one range in use.
`open()` is `Open` (the call) and the turns of its loop: `TakeAhead`,
`TakeWrapped` with the padding entry of `wrap_write()`, `UpdateAndRetry` for the
first turn in which nothing fits, `StallForGpu` for the later ones, which end in
`gl::finish()`. `Signal` is the GPU reaching any one fence, between any two of
these. `Close`, `Submit` and `Cancel` are the calls of the renderer. Every
renderer submits or cancels its range before it opens the next on the same
ring (`forward_renderer.cpp`, `line_renderer.cpp`, `text_renderer.cpp`,
`imgui_renderer.cpp`), so there is one `range`. Bytes are offsets; the alignment is
any positive number. It implements **BufferLoans**: bytes lent, trimmed, handed
to the GPU and returned.

**ByteRing** is the ring buffer of a socket as a value, with an operator for each
member function: two offsets, the flag `full` that tells an empty buffer from a full
one, and the bytes. `% m_max_size` of a sum of an offset and at most the size is
`Wrapped`. **RingBuffer** calls these in any order, with `begin_produce()` and
`end_produce()` as one action around the call of `recv()` that they bracket, and
implements **ByteQueue**.

**PacketStream** is one direction of an established connection: the sender with
its send buffer, the bytes that the operating system holds (`wire`), and the
receiver with its receive buffer. `Send` is the whole of `send()`, with the flush
when there is no room and the call of `send_pending()` at the end; `SenderPoll` and
`ReceiverPoll` are the calls that `poll()` makes after `select()`. The system takes or
gives any part of what it is asked for, is busy when it has nothing or no room, or
fails, and then the socket closes. A byte is a record that says which packet it
belongs to and where, so that misplaced bytes are seen; the header is a magic byte
and a length. The loop over received packets is the function `ProcessPackets`, of as many
turns as there may be headers in the buffer. The two directions share only the states of the sockets. Sockets are
non-blocking, as `connect()` makes them.

## 3. Model checking

| run | what it shows | bounds, and why they are enough |
|---|---|---|
| `hierarchy` | all invariants of the tree and `RemovalsAreLoops`, in every reachable tree; `SiblingOrderKept` on every step | four items: every shape up to a chain of four and three siblings; a removal can hand two children over, below a parent and beside a sibling |
| `scene_history` | no fault, sound trees, no selection outside the scene, exact undo and redo | two operations on two items and a new one, so that one is undone below another and redone; one operation on up to three selected items in any order, flat, forked and chained: compounds of three steps and up to six removals |
| `key_and_drop` | finding: two commands of one frame | a Delete key and the end of a drag before one `update()` |
| `scene_nodes` | registration follows the tree, rearranging moves nothing in the world, the first update after a registration is exact, later updates settle | the root and three nodes: chains of three, a node moved within the scene below one that was sorted after it, a subtree that comes and goes; transforms of two elements, one of them not the identity; one node with a body, two that may have the mesh |
| `mesh_operations` | a user who waits and keeps the graph meets no failed assertion and finds meshes and parents as the executed operations make them; no mesh changes under a worker that holds the mutex and no node leaves but the old hulls; every click runs, or the user did not wait or showed another graph, or there was a race | two clicks, so that two workers and the main thread meet; a removal; two hulls, one dragged below the other: a merge takes out a node with another below it; one more hull, which the next graph makes |
| `node_graph` | links and pins agree, a sort finds an order exactly when there is one, a node with few links leaves none behind | three nodes with an input and an output, four links: cycles, chains, and pins of three links, of which the loop overlooks one |
| `graph_explorer` | lookups succeed, a scan destroys nothing that is pointed to, hulls are those of the newest graph, again and again | two files, two graphs that share a name of a node, one with its depths against the order of its names, one with equal depths and a node without a hull; the dialog answers at any moment; six trees: five can be referred to at once |
| `wavefronts` | when the time line covers the wavefronts, when its length can be 0, that arranged operators keep their order, that frames go on | two operators in the order of their depth and against it; times modulo 8; an offset of -2, before time 0; floats of two digits, so that lengths from 5 on are rounded; a playhead typed to be at 8 or -8, from where a length of 2 or less is lost in the rounding; steps of the playhead of one and two |
| `gpu_ring` | positions in order, no overlap, `BufferLoans` is implemented, `open()` returns for requests up to half the capacity | eight bytes, alignment two, requests of nothing, one, three, four and all bytes, three wraps: every relation of the two positions occurs, with a padding, after a wrap and two |
| `byte_ring` | the ring is a queue | four bytes of two kinds: full, empty, and around the end from every offset |
| `packets` | messages arrive in order, whole, once and all of them, or an end closes | three packets of one or two bytes and a header; four bytes under way, so that packets are cut inside headers and several arrive at once; 13 bytes of buffer, so that no offset passes the end |
| `packet_at_end` | finding: a packet that goes around the end of the receive buffer | five bytes of buffer, two packets of three bytes |

`scene_history` handles one command per frame: the operations then run on the
document they were built from. With two commands per frame they need not, which is
what `key_and_drop` shows. The bounds are constants (`CommandsPerFrame`,
`MaxOperations`, `MaxSelected`, `MaxWraps`, `MaxPackets`, `MaxStep`, `Click`,
`Selections`, `MaxRemovals`, `NewHulls`, `Typed`) in guards, and the constraints `FewSelected`, `Bounded` and
`MeshOrBody` (the mesh is on no node while the body is active: the two only meet in
`SceneInPlace`, which leaves the node of an active body out). The GPU run may
stop when the last allowed wrap is reached, hence `CHECK_DEADLOCK FALSE` there; so
may the runs that look for a finding, and `mesh_operations`, once the program has
ended in a fault, and a connection of which both ends are closed.

`packets` keeps both rings in their first lap: at most 12 of 13 bytes are ever
sent. That is a bound on what the code does right, not only on the model: the
findings and observations below are what happens at the end of the buffer, when
it is full, and with an empty message.

**Fairness.** `gpu_ring` assumes weak fairness of `OpenLoop`, for `OpenReturns`. The
loop runs in the thread that called `open()`, and nothing else is waited for.
Nothing is assumed of `Signal`: that the GPU gets anywhere follows from
`gl::finish()`, which is part of `StallForGpu`.
`packets` assumes weak fairness of both polls, for `EachArrives`:
`Network_window::update_network()` polls the server and the client in every frame.
`graph_explorer` and `wavefronts` assume weak fairness of the steps of a frame and
nothing of the user: `Explorer::run()` calls `tick()` until the window closes.
`scene_nodes` assumes weak fairness of `UpdateTransforms`: a view updates the scene each
time it is rendered (`viewport_scene_view.cpp:153`). `Settles` also supposes that at some time
nothing but updates happens, as a property of the behaviour and not of the code.
`mesh_operations` assumes that `update()` is called again and again
(`explorer.cpp:257`) and that the executor runs every job; a step of `update()` that
waits for the mutex is not enabled, and the worker that holds it always lets go.

Each property was also run against a changed definition that makes it fail (the
operators marked *Mutant*, listed in `PROJECT.json`).

### Findings

* **Two operations in one frame** (`key_and_drop`). The parent that
  `Item_parent_change_operation` verifies is the one of the moment it was queued.
* **A packet at the end of the buffer** (`packet_at_end`). `rotate()` moves the bytes
  but not the offsets, and the assertion after it fails.

### Observations

What the models show and no document of the repository denies. The constants under
which TLC finds it are given where a run of its own would be needed.

* **A cycle by the Attach button.** `windows/operations.cpp:274` reparents the first
  of two selected nodes below the second without asking how they are related. When
  it is above the second, `set_depth_recursive()` does not return. The tree window refuses the
  same ("Ancestors cannot be attached to descendants", `item_tree_window.cpp:292`).
  `NoFault` fails when `CarefulNext` is given `AttachButton` without `MayAdopt`.
* **Copies with children.** The copy constructor of `Hierarchy` hangs the copied
  children below the copy (`hierarchy.cpp:26`), which no `shared_ptr` owns yet:
  `shared_from_this()` throws.
* **Transforms one update late.** A move within a scene leaves `m_nodes_sorted` true.
  A node that is moved below one that comes later in the vector is updated before
  its parent: whenever a node further up moves, it is drawn one update behind, until
  the next node is registered. This is why
  `UpdateIsExact` speaks of unsorted vectors: without `order = << >>` TLC finds the
  behaviour in eight steps. `m_node_physics_sorted` (`scene_root.cpp:588`) is likewise
  not reset by a move.
* **Calls that move nothing.** `end_produce(0)` and `end_consume(0)` change what
  equal offsets mean. `NothingLost`, a part of `Reliable`, fails three more ways, under these constants of
  `MCPacketStream` (`MaxSize`, `Lengths`, `WireSize`, `MaxPackets`): a receive
  buffer that is drained just at its end calls itself full and takes nothing any
  more (6, {1}, 6, 2); a send buffer that is exactly full while the system is busy
  forgets everything (5, {1}, 1, 2); a message that is refused for its length makes
  an empty send buffer send old bytes (5, {4}, 4, 1). Each pair of calls that
  moves at least one byte is right (`byte_ring`, and for every size `RingIsQueue`).
* **An empty message stops the connection.** Its length, 0, is taken for "header not
  received" (`socket.cpp:376`), and nothing behind it is delivered: `EachArrives`
  fails with `Lengths = {0, 1}`. The network window sends one when Enter is
  pressed in an empty text field.
* **A ring that waits for nobody.** When all entries are done and the write position
  is in the middle of the buffer, a request larger than both parts is never
  granted: `open()` does not reset the positions of an empty ring. `OpenReturns`
  says that requests of at most half the capacity are safe; with a request of
  six bytes of eight TLC finds the ring that never grants it.
* **Mesh operations of an impatient user.** A second click before the first operation
  has run builds its meshes from the old ones, and the first operation is lost when
  the second runs. The Geometry menu starts an operation with nothing selected, and
  `execute()` then fails `ERHE_VERIFY(!m_entries.empty())` (`mesh_operation.cpp:43`).
  A node that is removed before the operation asked for it has run fails the
  verification that the operation is hosted.
* **Another graph under an operation.** The hulls of the old graph leave the scene
  (`node_convex_hull_visualization.cpp:98`) whatever the operation stack and the
  selection know of them. The user selects hulls, shows another graph and asks for an
  operation: the job fails the verification that the first selected node is in a scene.
  Or the operation has run, another graph is shown, and *Undo* fails that the operation
  is hosted (`mesh_operation.cpp:86`, `88`), though the user has waited each time. With
  `calm' = (calm /\ ~Busy)` in `EmptyHulls`, TLC finds that `WaitingIsSafe` fails in six
  states. The removal takes no mutex either (it is taken at line 159, for what is
  added), so it may run while a worker reads the hulls that leave. `scene_history` is
  not about this: what it says of undo and redo holds while only the commands listed
  in `SceneEditing` change the scene.
* **A race without impatience.** `update()` reads `m_queued` every frame, while the first `push_back()`
  of a worker allocates it: an operation may be lost, or the program crash, also
  for a user who waits. This is why `calm` excludes it.
* **The order of siblings.** `execute()` and `undo()` of a mesh operation take the
  node out and append it as the last child.
* **Links left behind.** `unregister_node()` of a node with three links at a pin leaves one
  of them, from or to a node that is not in the graph any more. After `clear()`
  the graph counts as sorted for ever, and `sort()` does nothing.
* **A new folder below the shown graph.** Choosing a folder replaces the tree and
  destroys the nodes that the graph window still has pointers to; the properties speak of
  which graph a node belongs to, not of whether it is still there. Where the dialog is
  answered from another thread, the folder may also be replaced between the click on a
  file and the end of the frame, which then loads a destroyed item: TLC reaches the
  phase "undefined". The button *Scan* alone destroys neither (`ScanKeepsTheNodes`).
* **The end of the time line** is that of the operator listed last, not of the one that
  ends last (`wavefront_visualization.cpp:351`). `ListedInTime` excludes it from
  `TimelineCovers`.
* **A playhead that never comes back.** A negative offset can make the length 0 in one
  case (`LengthIsPositive`). The playhead is a float and can be typed to be anywhere:
  when it loops from so far away that the subtraction of the length is lost in the
  rounding, it stays where it is. In both cases the loop of `Timeline_window::update()`
  does not end, and the program hangs (`timeline_window.cpp:57`). `FramesGoOn` says that
  nothing else stops the frames, and that the playhead is then at least 2^24 lengths away
  (any number of them, when the length is 0). `TimelineCovers` likewise speaks of lengths that are exact as a float.

**What the properties leave out by their own words**, so that nobody reads more into
them: the race on `m_queued`, the impatient user and the graph shown meanwhile (`calm`);
what the time line does when the operators are not listed in the order they end
(`ListedInTime`); nodes hidden during an arrangement (`placed`); a graph that is taken for
sorted after `clear()` (`SortFindsAnOrder` speaks of the sort that does run); the second lap of
the byte rings (`packets`).

## 4. Proofs

The lemmas are in two modules that state nothing about a specification.
`SequenceLemmas` has what `InsertAt`, `RemoveAt`, `RemoveFirst` and the like do to a
sequence, and the two tools for recursion: induction stated for a *set* of numbers
(`NatSetInduction`), and that a recursive function on the natural numbers exists
(`NatRecursion`), so that the equation of `wave[k]` or of the rounds of a sort may be
used in a proof. `ItemTreeProofs` has what every operator of `ItemTree` keeps.

`SceneNodesProofs` proves for any finite set of items, first of **Hierarchy**:

* `TypeCorrect`: `Spec => []TypeOK`;
* `LinksAlwaysAgree`: `Spec => []LinksAgree` and no duplicates;
* `AlwaysAcyclic`: `Spec => []Acyclic`;
* `DepthIsAlwaysDistance`: `Spec => []DepthIsDistance`;
* `RemovalsAlwaysAreLoops`: `Spec => []RemovalsAreLoops`;
* `SiblingsKeepTheirOrder`: `Spec => SiblingOrderKept`.

The inductive invariant is `HierarchyInv`, the conjunction of types, agreement of
the links, no duplicates (`Consistent`), acyclicity and depths. They need each
other: that a child is found once in its vector is what makes the erase leave no
second entry, and that a moved item is not above its new parent (`MayAdopt`)
excludes a cycle only when parents form no cycle before. Acyclicity is stated as
"every nonempty set of items has one whose parent is outside", which makes the
step one choice of a set. Depths are the deepest part: `set_depth_recursive` stops where
it finds a depth that is right, and this is correct only because the depths below
the moved item fitted one another before, so that all of the subtree is off by the same
number (`SetDepthRecursiveFits`); and its waves end, because no item is deeper than there are
items (`DepthBound`).

The loops of the removals are followed call by call. What `remove()` has done when m
children are left is one tree only, since depths follow from the links (`SameTree`): the
first m children are in their place, the others behind the siblings of their parent, the
last one first (`Handed`, `HandsUp`). `recursive_remove()` calls itself with trees it has
already changed; that the subtree of the next child is still what it was (`GoneStays`)
rests on the subtrees of siblings having nothing in common (`SiblingsApart`), which
rests on acyclicity. That the recursion ends, and that the recursive function exists at
all, is an induction on the number of items in the subtree
(`RecursiveRemoveIsLoop`). Assumed: `NoItem \notin Item`, and that `Item` is finite.

Then of **SceneNodes**, for any nodes, bodies and mesh, and for transforms of any
group:

* `SceneIsHierarchy`: `NodesSpec => Spec`, the scene only does to the tree what `Hierarchy`
  allows, so the theorems above hold of it;
* `HostsAlwaysFollowTree`: `NodesSpec => []HostsFollowTree`;
* `StructureAlwaysKeepsPlaces`: `NodesSpec => StructureKeepsPlaces`;
* `FirstUpdateIsExact`: `NodesSpec => UpdateIsExact`.

The invariant is `NodesInv`: `HierarchyInv`, types, and the hosts. Hosts alone are not
inductive: that a whole subtree changes its host keeps every other node's host equal to
its parent's only because a subtree is closed under parents and children, which
rests on the agreement of links and on acyclicity. `StructureKeepsPlaces` is the
cancellation of a transform and its inverse, applied to the moved nodes, and, for
the nodes below them, that none of them got another place. `UpdateIsExact` is where the
depths are needed: a vector sorted by depth has every parent before its children.
Assumed of transforms: a left identity and `a (a⁻¹ b) = b`; floating-point
matrices satisfy the second up to rounding.

`RingProofs` proves of **GpuRingBuffer**, for every capacity, alignment, set of requests and
number of wraps:

* `TypeCorrect`, `SanityChecksAlwaysHold`, `NeverOverwrites`: the invariants;
* `ReadAlwaysMovesOn`: the action property;
* `LendsAsPromised`: the refinement, `Spec => Loans!Spec`.

`SanityChecksHold` is not inductive: it speaks of each entry and the write position
only. Its `RingInv` adds that each entry *fits behind* the write position
(`EntriesFit`), that the entries are ordered, each one beginning where the one
before it ended or later, in the same wrap or the next (`Ordered`), and that the
open or closed range lies between the write position and the free end
(`RangeFits`). Order is what a pop needs: the new read position is the end of the
popped entry, and all later entries lie after it, hence outside the bytes
that become free. No proof uses the order in which the GPU completes fences.

and of **RingBuffer**, for every size of the buffer and every set of bytes:

* `OffsetsStayInside`: `RingSpec => []OffsetsInside`;
* `RingIsQueue`: the refinement, `RingSpec => IsQueue`.

The invariant is `QueueInv`: types, and that a full buffer has equal offsets. Without
the second part, consuming from a full buffer would leave a number of bytes that
has nothing to do with what was in it. The two lemmas that carry the proof are
`ProduceAppends` and `ConsumeTakes`, about what a caller finds in the buffer after a
call; both compare the contents byte by byte, and `Distance` is the arithmetic of
going around the end.

and of **PacketStream**, for every size of the buffers, every set of lengths of messages, any
number of packets and any room in the operating system:

* `ReliableUntilTheEnd`: `MessagesFit` implies that always, as long as the bytes of all
  messages queued are fewer than a buffer holds, `Reliable` and `NoFault`.

`MessagesFit` says that each packet fits in an empty buffer. The bound on the bytes is not for the
sake of the proof: beyond it the offsets meet or pass the end of a buffer, and there the
code is wrong, as `packet_at_end` and the observation on calls that move nothing show. The
theorem says that nothing goes wrong before. The
invariant is `ConnectionInv`. Of all bytes `Total(sent)` that were ever queued, the
receive buffer holds a slice, the wire the next one and the send buffer the last
(`Carries`), and the receive buffer begins where the delivered packets end; that a
byte lies in its buffer at the offset that is its number (`Holds`) is what makes
`end_produce(0)` and `end_consume(0)` harmless there. So a header is read only where a
packet begins, however the calls cut the bytes (`LengthRead`, `PayloadGives`), each turn
of the loop in `recv()` delivers the packet that comes next or waits for the rest of it
(`ProcessGoesWell`), and `LoopGoesWell` is the induction over the turns. `Reliable` follows by
joining the slices (`NoneLostIsReliable`), where the bytes of packets are a fold
whose equation `SequenceLemmas` proves (`FlattenStep`).

`GraphProofs` proves of **NodeGraph**, for any nodes, pins and links:

* `LinksAndPinsAlwaysAgree`: `GraphSpec => []LinksAndPinsAgree`;
* `NeverDiscarded`: `GraphSpec => []NoLinkIsDiscarded`;
* `SortAlwaysFindsAnOrder`: `GraphSpec => []SortFindsAnOrder`;
* `UnregisterAlwaysUnlinks`: `GraphSpec => UnregisterUnlinks`.

The first two are inductive only together: `clear()` leaves the pins it spoils to the
discarded nodes, and that no link ends at one of these is what lets a new link
take a free address without a spoiled pin naming it. Both need the third
conjunct, that a link with a source has a sink. Nothing is assumed of
how many links the loop of `unregister_node()` overlooks: any subset of the links
at the pins of the node may stay.

`SortFindsAnOrder` says that the rounds of `sort()` place every node exactly when the
nodes have an order that respects the links. One direction is an invariant of the
rounds: what is placed is in order (`PlacedIsOrder`). The other is an argument about the
earliest node of the supposed order that is not placed: its sources are, so the
round finds it (`SomeoneIsReady`); each such round places one more, and after as many
rounds as there are nodes none is left (`RoundsFinish`). It needs `NodesInv`: nodes are
registered once, so that places can be counted, and a pin has finitely many links.
`UnregisterUnlinks` counts: with at most two links at its pins, the loop overlooks none.

and of **GraphExplorer**, for any files, trees and graphs, and a folder dialog that answers at
any moment:

* `LookupsAlwaysSucceed` (`LookupsSucceed`), which rests on `LoadAndShow`: nodes,
  graph, owner and the selection of the window are replaced together;
* `ScanAlwaysKeepsTheNodes` (`ScanKeepsTheNodes`): what is pointed to and belongs to the
  tree of the explorer belongs to that of the window, unless the dialog is between the
  two. This is kept because a scan makes a tree that nothing refers to (`ScannedIsNew`).
  Assumed: there is a tree besides any five;
* `HullsAlwaysAgreeOrQueued` (`HullsAgreeOrQueued`), from `OneGraph` and that every message
  announces a graph. `SortLists` is about sorting: an injection of as many places as there
  are nodes reaches every node. Assumed: a graph has finitely many nodes.

`WavefrontsProofs` proves of **Wavefronts**, for graphs of any size, times of any width and
floats of any number of digits:

* `AlwaysArrangedByDepth`: `Spec => []ArrangedByDepth`;
* `LengthIsAlwaysPositive`: `Spec => LengthIsPositive`;
* `TimelineAlwaysCovers`: `Spec => TimelineCovers`.

The invariant, `TimesInv`, keeps what the last arrangement ordered: an arrangement adds up the
lengths in one sorted order (`ArrangedWell`), and what the user enters for a node takes
that node out of the claim and leaves the others. The time line is a loop, and `Tells` is
its invariant: which node the first time and the last time come from. That the length is
0 in the one case only is then arithmetic modulo `Word`. `TimelineAlwaysCovers` is about
lengths up to `Exact`, which rounding leaves as they are. Assumed: operators are listed once,
the first frame is not after the last (`fetch_wavefront()` sorts them), `Word > 2`, and that a float has
a digit.

`SceneEditingProofs` proves of **SceneHistory**, for any finite set of items, any scenes that
may be loaded, histories of any length, and one command per frame:

* `SceneStaysTyped`: `HistorySpec => []TypeOK`;
* `SceneNeverFaults`: `HistorySpec => []NoFault`;
* `SceneStaysSound`: `HistorySpec => []TreeIsSound`;
* `SelectionStaysInScene`: `HistorySpec => []SelectionInScene`;
* `HistoryIsExact`: `HistorySpec => UndoIsExact`, the refinement of `UndoHistory`.

The hypothesis `CommandsPerFrame <= 1` is needed: with two commands in a frame the
second operation runs on another tree than the one it was built from, and
`key_and_drop` shows the verification that fails. Within it, the proof says why the
operations, which keep indices and not trees, never meet an index or a parent they
do not expect. The argument has three layers.

*Steps.* `set_parent()` back to the former parent at the former index restores parents,
depths and the order of the children (`SetParentUndone`): parents and depths follow
from one another (`DepthsFollow`), and at most two child vectors change, each by one
erase and one insert that are inverse when nothing is listed twice. On it rest
`ReparentUndone`, `RepositionUndone`, `InsertUndone` and `RemoveUndone`; the last is a
chain of trees in which the children leave one by one (`HandsOver`), each the first
of those left, while the place of the item itself stays what it was
(`Standing`). Each theorem says also that executing the captured step again captures
the same, which is what redo does.

*Compounds.* What a command queues is a compound built from one tree, but step *k*
runs on the tree that step *k - 1* left. `Leads` gives each step a set of trees it may
meet; `CompoundRuns` composes them. Three such sets are enough: for removals, all trees
that fit, as each item is removed as it is found, or found an orphan
(`RemovalsEdit`); for insertions, those where the later items are still outside
(`InsertionsEdit`); for moves, those where the items not yet moved have the parents they
had, and the new parent and all above it stay where they are (`MovesEdit`). The lemmas
`DeleteBuilds`, `DuplicateBuilds`, `MoveBuilds`, `AttachBuilds` and their like show that the
commands build nothing else; it is here that the guards of the tree window are used.

*The history.* `HistoryInv` says that the executed operations lead through the remembered
trees up to the present one (`PastIsExact`), the undone ones on from there
(`FutureIsExact`), each of them exactly (`Exact`: it leads from its tree to the next when
executed, back when undone, captures nothing new, and selects what is shown), and
that what is queued was built from the present document. `NoFault` alone is far from
inductive: whether an undo succeeds depends on every operation between. The
induction over the steps of a compound is for sets of numbers, over functions that
are written as such; `InOrder` and `InReverse` are recursive functions for this reason.

`MeshOperationsProofs` proves for any scene, clicks and selections

* `AtMostOneHolds`: at most one worker is between lock and unlock;
* `MeshesStayTyped`: `Spec => []TypeOK`;
* `ReadersStayUndisturbed`: `Spec => ReaderUndisturbed`, of which `MeshesStayWhileRead` is
  the part about meshes;
* `WaitingIsAlwaysSafe`: `Spec => []WaitingIsSafe`;
* `SceneAlwaysFollowsHistory`: `Spec => []SceneFollowsHistory`.

The invariant of the first three is `TypedInv`. It says more than `TypeOK`: the tree is sound in every state
(`Good`), also after commands that no careful user gives, since each operation is a chain of
calls of `set_parent()` that are refused or keep it sound (`PlacesWell`, `RunsWell`), and so
is the removal of the hulls (`EmptyTyped`) and the addition of one, which was never below
anything (`AddTyped`, `InitHulls`); a job that has started has an operation; and a removal on a list moves the children of its
item, from the item to the place that it recorded (`RemovalStep`). That only hulls
leave the scene while a worker reads it (`ReadersStayUndisturbed`) has two sides. The
removal of the hulls takes out what is below `Hulls`, all of it, and nothing else
(`RemovalLeavesOthers`). Everything else waits, and for that the last part is needed: an operation on meshes that changes
anything is hosted by the scene and waits; a removal may run without the mutex when
its item is outside of the scene, and then every node it moves is below that item, or comes back
with it (`SceneGrows`, `SceneStays`). Assumed: the scenes that are loaded are sound
and the root has no parent (`InitialTreesAssumption`), that hulls not made yet hang nowhere
(`HullsAssumption`), and that `Item` is finite.

What `calm` promises needs the past and the future. `CalmInv` speaks of *pictures*, the
parents and the meshes: whether a removal is undone at the same index is not what is
promised, and a mesh operation moves its nodes to the end of their parents' children. It says,
for a user who waits and keeps the graph (`NoneComing`: no hull is about to be added): at most one operation is under way, from the click to the end of
`update()` (`OneTravels`); what a job has built was made from the present picture
(`JobsMade`); and the executed operations lead through pictures from the loaded
scene to the present one, each made from the picture before it (`Past`), the undone ones on
from there (`Future`). An operation that was *made* from a picture (`MadeEdit`, `MadeMerge`,
`MadeRemoval`) runs without a failed verification and leaves exactly the next one
(`AnyExact`), and is undone exactly from what it left (`AnyUndone`), although it carries whole
meshes and not changes. Three of its parts are not obvious. The sources of a merge are sorted by depth, and
that is why the node that stays is not below one that leaves (`FirstIsHighest`); otherwise it
would leave the scene with the others, and the undo, which does nothing for a node outside of
a scene, would not bring them back. The nodes that a merge took out
come back in the order of the entries, while others are still out, and none is refused
(`MayComeBack`, `PlacedBack`). A removal that is redone captures
the children again, which may have another order than at first. `SceneFollowsHistory`
is then an induction along the pictures (`PastMeshes`).

Every safety and action property of a passing run is stated by a theorem. Only
model-checked: liveness, which is out of the prover's reach: `OpenReturns`,
`EachArrives`, `HullsFollow`, `FramesGoOn`, `EachAskedRuns`, `Settles`.

## 5. Not modelled, and why

* The numbers in transforms, materials and all geometry. The contents of a
  mesh are in `MeshOperations` as a list of what made it.
* Mesh operations: physics bodies, meshes selected without their node (the code then
  dereferences a null node, `mesh_operation.cpp:138`), the transform part of *Bake*.
* Of the scene graph: cameras, lights and skins, which register as meshes do; several
  scenes; flags of visibility and selection that attachments copy; serial numbers,
  which only decide what is uploaded; `set_node_from_world()` and the messages that
  registration sends.
* The message bus beyond its queue: `send_message()` calls every receiver at once under
  a mutex that is not recursive. None of the explorer's receivers sends or queues,
  so nobody waits for itself; a model would show only that.
* The drawing of the graph window, the layout and the style of its nodes. The
  folder dialog may answer at any moment, but there is one dialog at a time, and a step
  of a window sees all of a write of the callback or none of it: that the two threads
  use the same pointers without a lock is not modelled.
* The node without a mesh below each hull, and the first graph, which makes the node
  that all hulls hang below.
* Rendering other than the ring buffer, GL, windows, XR, files, fonts, logs:
  input and output.
* `editor/` is an older copy of the explorer with the same operations;
  `hextiles/` is another program. Vendored libraries.
* Buffers that are not persistently mapped: `begin_write` and `end_write` around
  the same positions.
* Range selection and the last selected item: the selection is any set of shown
  items.

## 6. Plan

What is left, the behaviour most likely to go wrong first:

1. **Connection** (`erhe/net`): the states of a socket, connecting, listening and
   accepting, a server with several clients, `broadcast()` to one that has closed, and
   the accepted socket that blocks; composed with `PacketStream`.
2. **SceneNodes** with several scenes and the operations that attach and transform
   (`node_attach_operation.cpp`, `node_transform_operation.cpp`), undone; then the order
   of `after_physics_simulation_steps()`, which sorts as the scene does.
3. **Selection** with ranges and the last selected items, and the clipboard, which
   pastes below an item that may have been deleted; then the states of input
   commands and who holds the mouse.
4. The render graph (`erhe/rendergraph`), with `LinkGraph` as its pattern.
5. Proofs: of the modules above, as they come.
