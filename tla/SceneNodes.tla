----------------------------- MODULE SceneNodes ------------------------------
(***************************************************************************)
(* The nodes of one scene: erhe::scene::Node on top of the item hierarchy,  *)
(* the vector of nodes and the mesh layer of erhe::scene::Scene, and the    *)
(* transforms.                                                             *)
(*                                                                         *)
(* Node::set_parent() adds two things to Hierarchy::set_parent(). A subtree *)
(* that comes below a node of the scene is registered there, node by node,  *)
(* and one that leaves is unregistered, with the meshes it carries. And the *)
(* node stays where it is in the world: its transform relative to the new  *)
(* parent is calculated. The transforms below it are brought up to date     *)
(* once per rendered view, in the order of the scene's vector.             *)
(*                                                                         *)
(* One scene, one mesh. A transform is an element of any group: the code    *)
(* multiplies and inverts matrices, and the model takes that as exact.      *)
(***************************************************************************)
EXTENDS Hierarchy

CONSTANTS
  Root,           \* Scene::m_root_node
  Bodies,         \* the nodes with a dynamic rigid body
  Carriers,       \* the nodes the mesh may be attached to
  Place,          \* the transforms
  Here,           \* the identity
  Compose(_, _),  \* the product of two transforms
  Invert(_)       \* the inverse of a transform

ASSUME RootAssumption == Root \in Item
ASSUME NodesAssumption == Bodies \cup Carriers \subseteq Item \ {Root}
ASSUME PlaceAssumption ==
  /\ Here \in Place
  /\ \A a \in Place : Invert(a) \in Place /\ Compose(Here, a) = a
  /\ \A a, b \in Place : Compose(a, b) \in Place
  /\ \A a, b \in Place : Compose(a, Compose(Invert(a), b)) = b

VARIABLES
  hosted,   \* the nodes whose node_data.host is the scene
  order,    \* m_flat_node_vector as last sorted; empty: m_nodes_sorted is false
  local,    \* parent_from_node
  world,    \* world_from_node
  awake,    \* the nodes with the flag no_transform_update
  mesh      \* the mesh, see Mesh

sceneVars == << tree, hosted, order, local, world, awake, mesh >>

(* node: m_node. entries: how often the mesh is in the layer of the scene    *)
(* and its instance in the ray tracing scene. traced: the transform of that  *)
(* instance.                                                               *)
Mesh == [node : Carriers \cup {NoItem}, entries : Int, traced : Place]

NodesInit ==
  /\ Init
  /\ hosted = {Root}
  /\ order = << >>
  /\ local = [x \in Item |-> Here] /\ world = [x \in Item |-> Here]
  /\ awake = {}
  /\ mesh = [node |-> NoItem, entries |-> 0, traced |-> Here]

-----------------------------------------------------------------------------
(* Membership *)

(* The mesh is registered when its node comes from outside of H into K, and  *)
(* unregistered when it goes.                                               *)
Count(n, H) == IF n \in H THEN 1 ELSE 0
Reregistered(m, H, K) == [m EXCEPT !.entries = @ + Count(m.node, K) - Count(m.node, H)]

(* Mutant: a node that is registered is not put into the vector of the scene. *)
KeepOrder(K) == SelectSeq(order, LAMBDA y : y \in K)

(* The vector when the nodes of K are in the scene: unregister_node() leaves *)
(* the others in their order, register_node() resets m_nodes_sorted.        *)
OrderAfter(K) ==
  IF K \subseteq hosted THEN SelectSeq(order, LAMBDA y : y \in K) ELSE << >>

(* Mutant: the children of a node keep their host. *)
RehostItemOnly(x, p) ==
  IF tree.parent[x] \in hosted <=> p \in hosted THEN hosted
  ELSE IF p \in hosted THEN hosted \cup {x} ELSE hosted \ {x}

(* handle_parent_update() and handle_item_host_update(): when the old and    *)
(* the new parent have different hosts, every node of the subtree goes.     *)
HostedAfter(x, p) ==
  IF tree.parent[x] \in hosted <=> p \in hosted THEN hosted
  ELSE IF p \in hosted THEN hosted \cup Subtree(tree, x)
                       ELSE hosted \ Subtree(tree, x)

(* The nodes of K are in the scene, the others are not. A rigid body that    *)
(* leaves the physics world is deactivated.                                 *)
Rehost(K) ==
  /\ hosted' = K
  /\ order' = OrderAfter(K)
  /\ awake' = awake \cap K

-----------------------------------------------------------------------------
(* Transforms *)

(* Mutant: the transform relative to the parent is kept. *)
LocalAsBefore(t, w, x) == local[x]

(* set_world_from_node() with the node's own transform: what it becomes      *)
(* relative to its parent in t.                                             *)
LocalFor(t, w, x) ==
  IF t.parent[x] = NoItem THEN w[x] ELSE Compose(Invert(w[t.parent[x]]), w[x])

(* update_world_from_node() *)
WorldFor(t, w, l, x) ==
  IF t.parent[x] = NoItem THEN l[x] ELSE Compose(w[t.parent[x]], l[x])

(* handle_node_transform_update() of the mesh, when the nodes of S got their *)
(* transforms in w.                                                         *)
Retraced(m, S, w) == IF m.node \in S THEN [m EXCEPT !.traced = w[m.node]] ELSE m

(* The nodes of S keep their place in the world below their parents in tree'. *)
KeepPlaces(S) ==
  /\ local' = [y \in Item |-> IF y \in S THEN LocalFor(tree', world, y) ELSE local[y]]
  /\ world' = [y \in Item |-> IF y \in S THEN WorldFor(tree', world, local', y)
                                         ELSE world[y]]
  /\ mesh' = Retraced(Reregistered(mesh, hosted, hosted'), S, world')

-----------------------------------------------------------------------------
(* The tree *)

(* Node::set_parent(p): a node that becomes an orphan keeps its transforms. *)
SetNodeParent(x, p) ==
  /\ x # Root
  /\ Attach(x, p, AtEnd)
  /\ Rehost(HostedAfter(x, p))
  /\ KeepPlaces(IF p = NoItem THEN {} ELSE {x})

(* remove() hands the children over by set_parent(). *)
MovedUp(x) == IF tree.parent[x] = NoItem THEN {} ELSE ToSet(tree.children[x])

RemoveNode(x) ==
  /\ x # Root
  /\ RemoveItem(x)
  /\ Rehost(hosted \ {x})
  /\ KeepPlaces(MovedUp(x))

RecursiveRemoveNode(x) ==
  /\ x # Root
  /\ RecursiveRemove(x)
  /\ Rehost(hosted \ Subtree(tree, x))
  /\ KeepPlaces({})

RemoveNodesBelow(x) ==
  /\ RemoveAllChildrenRecursively(x)
  /\ Rehost(hosted \ (Subtree(tree, x) \ {x}))
  /\ KeepPlaces({})

-----------------------------------------------------------------------------
(* Attachments and transforms *)

(* Node_attachment::set_node(n) on the mesh: its instance gets the transform *)
(* of the node only when the host changes.                                  *)
AttachMesh(n) ==
  /\ n # mesh.node
  /\ LET moved == [node |-> n, traced |-> mesh.traced,
                   entries |-> mesh.entries + Count(n, hosted) - Count(mesh.node, hosted)]
     IN  mesh' = IF n \in hosted <=> mesh.node \in hosted THEN moved
                 ELSE Retraced(moved, Item, world)
  /\ UNCHANGED << tree, hosted, order, local, world, awake >>

(* set_parent_from_node() and set_world_from_node(), by tools, by the        *)
(* properties window and, for the node of an active body, after each step   *)
(* of the physics simulation.                                               *)
SetTransform(x, place) ==
  /\ x # Root
  /\ local' = [local EXCEPT ![x] = place]
  /\ world' = [world EXCEPT ![x] = WorldFor(tree, world, local', x)]
  /\ mesh' = Retraced(mesh, {x}, world')
  /\ UNCHANGED << tree, hosted, order, awake >>

(* The physics engine activates a body or puts it to sleep. *)
SetActive(x) ==
  /\ x \in Bodies \cap hosted
  /\ awake' = IF x \in awake THEN awake \ {x} ELSE awake \cup {x}
  /\ UNCHANGED << tree, hosted, order, local, world, mesh >>

(* Mutant: the nodes stay in the order in which they were registered. *)
UnsortedVectors == IF order # << >> THEN {order} ELSE SetToSeqs(hosted \ {Root})

(* sort_transform_nodes(), when m_nodes_sorted is false: by depth. std::sort *)
(* may put nodes of the same depth in any order.                            *)
SortedVectors ==
  IF order # << >> THEN {order}
  ELSE {s \in SetToSeqs(hosted \ {Root}) :
          \A i \in 1 .. Len(s) - 1 : tree.depth[s[i]] <= tree.depth[s[i + 1]]}

(* The nodes of the vector whose transform the loop updates. *)
Refreshed == {x \in Item \ awake : x \in ToSet(order') /\ tree.parent[x] # NoItem}

(* What the loop makes of world: each of these nodes is put below its parent, *)
(* at the place the parent then has, the new one if it came earlier in the  *)
(* vector and the old one if it comes later.                                *)
Updated ==
  \A x \in Item :
    world'[x] = IF x \in Refreshed
                THEN WorldFor(tree, IF Precedes(order', tree.parent[x], x) THEN world'
                                    ELSE world, local, x)
                ELSE world[x]

(* Scene::update_node_transforms() *)
UpdateTransforms ==
  /\ UNCHANGED << tree, hosted, local, awake >>
  /\ order' \in SortedVectors
  /\ world' \in [Item -> Place] /\ Updated
  /\ mesh' = Retraced(mesh, Refreshed, world')

NodesNext ==
  \/ UpdateTransforms
  \/ \E x \in Item :
       \/ \E p \in ItemOrNone : SetNodeParent(x, p)
       \/ RemoveNode(x)
       \/ RecursiveRemoveNode(x)
       \/ RemoveNodesBelow(x)
       \/ SetActive(x)
       \/ \E place \in Place : SetTransform(x, place)
  \/ \E n \in Carriers \cup {NoItem} : AttachMesh(n)

NodesSpec == NodesInit /\ [][NodesNext]_sceneVars

(* Every rendered view of the scene updates the transforms first. *)
FairNodesSpec == NodesSpec /\ WF_sceneVars(UpdateTransforms)

-----------------------------------------------------------------------------
(* Properties *)

(* node_sanity_check() and the ERHE_VERIFYs of handle_item_host_update: a     *)
(* node and its parent have the same host, an orphan has none, and the mesh *)
(* is in the layer once when its node is in the scene and not at all when   *)
(* it is not, whichever of the two moved.                                   *)
HostsFollowTree ==
  /\ Root \in hosted /\ tree.parent[Root] = NoItem
  /\ \A x \in Item \ {Root} : x \in hosted <=> tree.parent[x] \in hosted
  /\ mesh.entries = Count(mesh.node, hosted)

InPlace(x) == tree.parent[x] # NoItem => world[x] = Compose(world[tree.parent[x]], local[x])

(* Rearranging the tree, whatever is moved, removed or handed over to a      *)
(* grandparent, moves nothing in the world, now or at the next update: no   *)
(* node gets another place, and one that agreed with its parent still does. *)
StructureKeepsPlaces ==
  [][tree' # tree => /\ world' = world
                     /\ \A x \in Item : InPlace(x) => InPlace(x)']_sceneVars

(* What the views and the picking rays should find. *)
SceneInPlace ==
  LET seen == hosted \ (awake \cup {Root})
  IN  /\ \A x \in seen : InPlace(x)
      /\ mesh.node \in seen => mesh.traced = world[mesh.node]

(* The first update after a node was added puts every node of the scene and  *)
(* its mesh in place, in one pass: the depths by which it sorts are right.  *)
UpdateIsExact ==
  [][UpdateTransforms /\ order = << >> => SceneInPlace']_sceneVars

(* A move within the scene leaves the vector sorted by the old depths, and   *)
(* an update may then place a node before its parent. Once nothing else     *)
(* happens, the updates of the following views put everything in place.     *)
Settles == <>[][UpdateTransforms]_sceneVars => <>[]SceneInPlace
=============================================================================
