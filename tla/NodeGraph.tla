------------------------------ MODULE NodeGraph ------------------------------
(***************************************************************************)
(* erhe::graph::Graph as a state machine: any sequence of its operations.  *)
(*                                                                         *)
(* clear() leaves the pins of the old nodes with pointers to links that    *)
(* are gone.  The callers make new nodes for a new graph                   *)
(* (Domain_flow_graph_file::show_in_graph_window): a node whose pins are   *)
(* not clean when the graph is cleared is discarded, and not used again.   *)
(***************************************************************************)
EXTENDS LinkGraph

VARIABLES
  graph,
  discarded   \* nodes of earlier graphs whose pins name destroyed links

graphVars == << graph, discarded >>

GraphInit == graph = NewGraph /\ discarded = {}

Clear ==
  /\ graph' = Cleared(graph)
  /\ discarded' = discarded \cup {Owner[p] : p \in {p \in Pin : graph.pinLinks[p] # {}}}

Register(n) ==
  /\ n \notin discarded /\ n \notin ToSet(graph.nodes)
  /\ graph' = Registered(graph, n)
  /\ UNCHANGED discarded

(* connect() refuses pins of different keys. The graph window connects no   *)
(* node with itself.                                                        *)
Connect(p, q) ==
  /\ Key[p] = Key[q] /\ Owner[p] # Owner[q]
  /\ Owner[p] \notin discarded /\ Owner[q] \notin discarded
  /\ \E l \in Link \ Links(graph) : graph' = Connected(graph, l, p, q)
  /\ UNCHANGED discarded

Disconnect(l) ==
  /\ l \in Links(graph)
  /\ graph' = Disconnected(graph, {l})
  /\ UNCHANGED discarded

Unregister(n) ==
  /\ n \in ToSet(graph.nodes)
  /\ graph' \in Unregistered(graph, n)
  /\ UNCHANGED discarded

Sort == graph' = Sorted(graph) /\ UNCHANGED discarded

GraphNext ==
  \/ Clear
  \/ Sort
  \/ \E n \in Node : Register(n) \/ Unregister(n)
  \/ \E p \in SourcePin, q \in Pin \ SourcePin : Connect(p, q)
  \/ \E l \in Link : Disconnect(l)

GraphSpec == GraphInit /\ [][GraphNext]_graphVars

-----------------------------------------------------------------------------
(* Properties *)

(* The pins of every node that may still be used name exactly the links that *)
(* end there, also after clear() and after the loop of unregister_node()    *)
(* that erases from the vector it walks. Otherwise remove_link() erases the *)
(* end of a vector, and sort() reads a destroyed link.                      *)
LinksAndPinsAgree == PinsAgree(graph, {p \in Pin : Owner[p] \notin discarded})

(* No link of the graph hangs on a pin of a discarded node.                  *)
NoLinkIsDiscarded ==
  \A l \in Links(graph) : /\ Owner[graph.source[l]] \notin discarded
                          /\ Owner[graph.sink[l]] \notin discarded

(* sort() gives up only when there is no order at all: when the links of     *)
(* registered nodes make a cycle or come from a node that is not registered. *)
(* Otherwise it has the same nodes in an order of evaluation.                *)
SortFindsAnOrder ==
  LET sources == {Owner[graph.source[l]] : l \in {l \in Links(graph) :
                    Owner[graph.sink[l]] \in ToSet(graph.nodes)}}
      orders == {s \in SetToSeqs(ToSet(graph.nodes)) : RespectsLinks(graph, s)}
      result == Sorted([graph EXCEPT !.isSorted = FALSE])
  IN  IF sources \subseteq ToSet(graph.nodes) /\ orders # {}
      THEN result.isSorted /\ result.nodes \in orders
      ELSE ~result.isSorted

(* A node with at most two links at each pin leaves the graph without links, *)
(* although the loop skips. (With three, it leaves one behind.)              *)
UnregisterUnlinks ==
  [][\A n \in ToSet(graph.nodes) \ ToSet(graph'.nodes) : \A p \in PinsOf(n) :
       Cardinality(graph.pinLinks[p]) <= 2 => EndsAt(graph', p) = {}]_graphVars
=============================================================================
