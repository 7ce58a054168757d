---------------------------- MODULE GraphExplorer ----------------------------
(***************************************************************************)
(* A domain flow graph on its way from the project tree to the graph       *)
(* window and to the convex hulls of the scene (Project_explorer,          *)
(* Graph_window, Node_convex_hull_visualization), one frame after another. *)
(*                                                                         *)
(* A file of the tree owns the nodes it made for the graph window; the     *)
(* graph has plain pointers to them. They live as long as the file item,   *)
(* which a tree or the selection holds. Every scan makes a new tree.       *)
(***************************************************************************)
EXTENDS Naturals, FiniteSets, SequencesExt

CONSTANTS
  File,  \* the .dfg files of a folder
  Tree,  \* names for trees; a tree that nothing refers to gives its name back
  Dfg,   \* what load() may read: [depth |-> [id -> Nat], solid |-> ids with a hull]
  None

ASSUME NoneAssumption == None \notin Dfg
ASSUME DfgAssumption == \A d \in Dfg : IsFiniteSet(DOMAIN d.depth)
(* Five trees may be referred to at once. A new one is none of them. *)
ASSUME TreeAssumption ==
  /\ Tree # {}
  /\ \A a, b, c, d, e \in Tree : \E t \in Tree : t \notin {a, b, c, d, e}

Item == [file : File, tree : Tree]

Ids == UNION {DOMAIN d.depth : d \in Dfg}

VARIABLES
  phase,         \* where Explorer::tick() is, or "undefined" behaviour
  dialog,        \* what the answer of the folder dialog still has to do
  explorerTree,  \* Project_explorer::m_root
  windowTree,    \* the root that the tree window shows
  held,          \* the items of the tree that the selection of the editor holds
  request,       \* the item to show, queued with at_end_of_frame()
  owner,         \* the item that made the nodes of the graph
  nodes,         \* Graph_window::m_graph: the payloads of its nodes
  flow,          \* Graph_window::m_dfg
  picked,        \* Graph_window::m_selection: [owner, id], each held by it
  messages,      \* the queue of the message bus
  hulls          \* the children of the hulls' root node: [flow, id], from left to right

trees == << explorerTree, windowTree, held >>
view == << owner, nodes, flow, picked >>
vars == << phase, dialog, trees, request, view, messages, hulls >>

AliveInExplorer(i) == i.tree = explorerTree \/ i \in held

Alive(i) == i.tree \in {explorerTree, windowTree} \/ i \in held

Known == {explorerTree, windowTree}
           \cup {i.tree : i \in held \cup ({request, owner} \ {None})}
           \cup {n.owner.tree : n \in picked}
ScannedTree == CHOOSE t \in Tree : t \notin Known

(* Nodes by depth: std::sort leaves nodes of equal depth in any order.      *)
ByDepth(ids, depth) ==
  {s \in SetToSeqs(ids) : \A i, j \in DOMAIN s : i < j => depth[s[i]] <= depth[s[j]]}

Init ==
  /\ phase = "events" /\ dialog = "closed"
  /\ explorerTree = CHOOSE t \in Tree : TRUE
  /\ windowTree = explorerTree
  /\ held = {} /\ request = None
  /\ owner = None /\ nodes = {} /\ flow = None /\ picked = {}
  /\ messages = << >> /\ hulls = << >>

-----------------------------------------------------------------------------
(* SDL answers the folder dialog while the events are read or, where the     *)
(* platform has it so, from a thread of its own: at any moment of a frame.   *)
(* set_path() scans the folder and shows it in the tree window; the callback *)
(* then scans once more.                                                    *)
ChooseFolder ==
  /\ dialog = "closed" /\ dialog' = "set_root"
  /\ explorerTree' = ScannedTree
  /\ UNCHANGED << phase, windowTree, held, request, view, messages, hulls >>

ShowFolder ==
  /\ dialog = "set_root" /\ dialog' = "scan"
  /\ windowTree' = explorerTree
  /\ UNCHANGED << phase, explorerTree, held, request, view, messages, hulls >>

ScanAgain ==
  /\ dialog = "scan" /\ dialog' = "closed"
  /\ explorerTree' = ScannedTree
  /\ UNCHANGED << phase, windowTree, held, request, view, messages, hulls >>

EventsRead ==
  /\ phase = "events" /\ phase' = "windows"
  /\ UNCHANGED << dialog, trees, request, view, messages, hulls >>

(* The windows. The button "Scan" makes a new tree that the tree window is  *)
(* not told about.                                                          *)
Scan ==
  /\ phase = "windows"
  /\ explorerTree' = ScannedTree
  /\ UNCHANGED << phase, dialog, windowTree, held, request, view, messages, hulls >>

ClickItem(f) ==
  /\ phase = "windows"
  /\ held' \in {{}, {[file |-> f, tree |-> windowTree]}}
  /\ UNCHANGED << phase, dialog, explorerTree, windowTree, request, view, messages, hulls >>

(* try_show(): the menu closes, so there is one request in a frame.         *)
Show(f) ==
  /\ phase = "windows" /\ request = None
  /\ request' = [file |-> f, tree |-> windowTree]
  /\ UNCHANGED << phase, dialog, trees, view, messages, hulls >>

(* Graph_node::node_editor() takes over what is selected in the editor.     *)
Pick(n) ==
  /\ phase = "windows" /\ n \in nodes /\ Alive(owner)
  /\ LET p == [owner |-> owner, id |-> n]
     IN  picked' = (picked \cup {p}) \ (picked \cap {p})
  /\ UNCHANGED << phase, dialog, trees, request, owner, nodes, flow, messages, hulls >>

WindowsDrawn ==
  /\ phase = "windows" /\ phase' = "messages"
  /\ UNCHANGED << dialog, trees, request, view, messages, hulls >>

-----------------------------------------------------------------------------
(* Message_bus::update() and recreate_visualization_scene_graph(): every     *)
(* hull goes, and the nodes of the graph that have one get theirs.          *)
RecreatedUnsorted ==
  {[k \in DOMAIN s |-> [flow |-> flow, id |-> s[k]]] : s \in SetToSeqs(nodes)}

Recreated ==
  IF flow = None THEN {hulls}
  ELSE {[k \in DOMAIN s |-> [flow |-> flow, id |-> s[k]]] :
          s \in ByDepth(nodes \cap flow.solid, flow.depth)}

UpdateMessageBus ==
  /\ phase = "messages" /\ phase' = "end"
  /\ hulls' \in IF "graph_loaded" \in ToSet(messages) THEN Recreated ELSE {hulls}
  /\ messages' = << >>
  /\ UNCHANGED << dialog, trees, request, view >>

(* The end of the frame: Domain_flow_graph_file::load() destroys the nodes  *)
(* it made before, and show_in_graph_window() clears the graph and the      *)
(* selection of the window, registers new nodes and queues the message.     *)
(* A load that fails leaves what it has read until then.                    *)
LoadAndShowKeepsSelection(d) ==
  /\ owner' = request /\ flow' = d /\ nodes' = DOMAIN d.depth
  /\ messages' = Append(messages, "graph_loaded")
  /\ UNCHANGED picked

LoadAndShowUntold(d) ==
  /\ owner' = request /\ flow' = d /\ nodes' = DOMAIN d.depth /\ picked' = {}
  /\ UNCHANGED messages

LoadAndShow(d) ==
  /\ owner' = request
  /\ flow' = d
  /\ nodes' = DOMAIN d.depth
  /\ picked' = {}
  /\ messages' = Append(messages, "graph_loaded")

EndFrame ==
  /\ phase = "end" /\ phase' = "events"
  /\ \/ request = None /\ UNCHANGED << view, messages >>
     \/ request # None /\ Alive(request) /\ \E d \in Dfg : LoadAndShow(d)
  /\ request' = None
  /\ UNCHANGED << dialog, trees, hulls >>

(* The callback has a reference to the item that was clicked and does not own *)
(* it: when another folder was chosen meanwhile, it loads a destroyed item.   *)
EndFrameDangling ==
  /\ phase = "end" /\ phase' = "undefined"
  /\ request # None /\ ~Alive(request)
  /\ UNCHANGED << dialog, trees, request, view, messages, hulls >>

-----------------------------------------------------------------------------
Frame == EventsRead \/ WindowsDrawn \/ UpdateMessageBus \/ EndFrame \/ EndFrameDangling

Dialog == ChooseFolder \/ ShowFolder \/ ScanAgain

User ==
  \/ Scan
  \/ \E f \in File : ClickItem(f) \/ Show(f)
  \/ \E n \in Ids : Pick(n)

Next == Frame \/ Dialog \/ User

Spec == Init /\ [][Next]_vars

(* Explorer::run() calls tick() until the window is closed.                  *)
FairSpec == Spec /\ WF_vars(Frame)

-----------------------------------------------------------------------------
(* Properties *)

(* The properties window looks up the payload of the selected node in the    *)
(* shown graph, and the hulls and wavefronts that of every node: it is the  *)
(* graph that these nodes were made for.                                    *)
LookupsSucceed ==
  /\ \A n \in nodes : flow # None /\ n \in DOMAIN flow.depth
  /\ \A p \in picked : p.owner = owner /\ p.id \in nodes

(* Unless a message about it is still queued, the scene has the hulls of the *)
(* shown graph and of no graph before it, from left to right by depth.      *)
HullsAgree ==
  flow # None =>
    /\ ToSet(hulls) = [flow : {flow}, id : nodes \cap flow.solid]
    /\ \A i, j \in DOMAIN hulls : i < j =>
         hulls[i] # hulls[j] /\ flow.depth[hulls[i].id] <= flow.depth[hulls[j].id]

HullsAgreeOrQueued == messages = << >> => HullsAgree

(* A scan alone destroys no node that the graph still points to, and not the *)
(* item that the end of the frame shows: the window goes on with the tree it *)
(* has, also while the dialog replaces the trees one after the other. (That  *)
(* the window turns to a new folder does destroy them.)                      *)
PointedTo == ({request} \cup IF nodes = {} THEN {} ELSE {owner}) \ {None}

ScanKeepsTheNodes ==
  [][explorerTree' # explorerTree /\ windowTree' = windowTree
       => \A i \in PointedTo : Alive(i) => Alive(i)']_vars

(* Whatever the user shows, and however fast: again and again the scene has  *)
(* the hulls of what the graph window shows, as long as no destroyed item    *)
(* was asked for.                                                           *)
HullsFollow == []<>HullsAgree \/ <>(phase = "undefined")
=============================================================================
