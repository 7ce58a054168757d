----------------------------- MODULE GraphProofs -----------------------------
(***************************************************************************)
(* Of a graph (NodeGraph): links and pins name each other after any        *)
(* sequence of its operations, and sort() finds an order, for every set of  *)
(* nodes, pins and links.                                                   *)
(*                                                                         *)
(* Of a domain flow graph in the explorer (GraphExplorer), for any files,   *)
(* trees and graphs: a request is shown while its item exists, every        *)
(* payload is looked up in the graph it was made from, and the scene has    *)
(* the hulls of the graph of the window.                                    *)
(***************************************************************************)
EXTENDS NodeGraph, GraphExplorer, SequenceLemmas

(* The invariant: a graph whose usable pins agree with its links, and whose *)
(* links hang on usable pins only. The second part is what lets clear()     *)
(* discard nodes, and what makes a free address free: a link that is not in *)
(* the graph is at no usable pin.                                           *)
Usable == {p \in Pin : Owner[p] \notin discarded}

GraphRecord(g) ==
  \E N : g \in [nodes : N,
               source : [Link -> SourcePin \cup {NoPin}],
               sink : [Link -> (Pin \ SourcePin) \cup {NoPin}],
               pinLinks : [Pin -> SUBSET Link],
               isSorted : BOOLEAN]

GraphInv ==
  /\ GraphRecord(graph)
  /\ LinksAndPinsAgree
  /\ NoLinkIsDiscarded
  /\ \A l \in Links(graph) : graph.sink[l] # NoPin

-----------------------------------------------------------------------------
(* What the operations make of the four records *)

LEMMA FieldTypes ==
  ASSUME NEW g, GraphRecord(g)
  PROVE  /\ g.source \in [Link -> SourcePin \cup {NoPin}]
         /\ g.sink \in [Link -> (Pin \ SourcePin) \cup {NoPin}]
         /\ g.pinLinks \in [Pin -> SUBSET Link]
BY DEF GraphRecord

(* Changing the nodes and the flag changes nothing else. *)
LEMMA NodesOnly ==
  ASSUME NEW g, GraphRecord(g), NEW s,
         NEW h, h = [g EXCEPT !.nodes = s, !.isSorted = TRUE]
  PROVE  /\ GraphRecord(h)
         /\ h.source = g.source /\ h.sink = g.sink /\ h.pinLinks = g.pinLinks
<1>1. PICK N : g \in [nodes : N,
               source : [Link -> SourcePin \cup {NoPin}],
               sink : [Link -> (Pin \ SourcePin) \cup {NoPin}],
               pinLinks : [Pin -> SUBSET Link],
               isSorted : BOOLEAN]
  BY DEF GraphRecord
<1>2. h \in [nodes : {s},
               source : [Link -> SourcePin \cup {NoPin}],
               sink : [Link -> (Pin \ SourcePin) \cup {NoPin}],
               pinLinks : [Pin -> SUBSET Link],
               isSorted : BOOLEAN]
  BY <1>1
<1>3. h.source = g.source /\ h.sink = g.sink /\ h.pinLinks = g.pinLinks
  BY <1>1
<1> QED BY <1>2, <1>3 DEF GraphRecord

LEMMA SortedKeepsLinks ==
  ASSUME NEW g, GraphRecord(g)
  PROVE  /\ GraphRecord(Sorted(g))
         /\ Sorted(g).source = g.source
         /\ Sorted(g).sink = g.sink
         /\ Sorted(g).pinLinks = g.pinLinks
<1>1. Sorted(g) = g \/ \E s : Sorted(g) = [g EXCEPT !.nodes = s, !.isSorted = TRUE]
  BY Zenon DEF Sorted
<1>2. CASE Sorted(g) = g
  BY <1>2
<1>3. CASE Sorted(g) # g
  <2>1. PICK s : Sorted(g) = [g EXCEPT !.nodes = s, !.isSorted = TRUE]
    BY <1>1, <1>3
  <2> DEFINE h == Sorted(g)
  <2>2. h = [g EXCEPT !.nodes = s, !.isSorted = TRUE]
    BY <2>1
  <2> HIDE DEF h
  <2>3. GraphRecord(h) /\ h.source = g.source /\ h.sink = g.sink /\ h.pinLinks = g.pinLinks
    BY <2>2, NodesOnly
  <2> QED BY <2>3 DEF h
<1> QED BY <1>2, <1>3

LEMMA DisconnectedFields ==
  ASSUME NEW g, GraphRecord(g), NEW D
  PROVE  /\ GraphRecord(Disconnected(g, D))
         /\ Links(Disconnected(g, D)) = Links(g) \ D
         /\ \A l \in Link \ D : /\ Disconnected(g, D).source[l] = g.source[l]
                                /\ Disconnected(g, D).sink[l] = g.sink[l]
         /\ \A p \in Pin : Disconnected(g, D).pinLinks[p] = g.pinLinks[p] \ (D \cap EndsAt(g, p))
<1> DEFINE h == Disconnected(g, D)
<1>1. /\ h.nodes = g.nodes /\ h.isSorted = g.isSorted
      /\ h.source = [l \in Link |-> IF l \in D THEN NoPin ELSE g.source[l]]
      /\ h.sink = [l \in Link |-> IF l \in D THEN NoPin ELSE g.sink[l]]
      /\ h.pinLinks = [p \in Pin |-> g.pinLinks[p] \ (D \cap EndsAt(g, p))]
  BY DEF GraphRecord, Disconnected
<1>2. GraphRecord(h)
  BY DEF GraphRecord, Disconnected
<1> HIDE DEF h
<1>3. Links(h) = Links(g) \ D
  BY <1>1 DEF Links
<1> QED BY <1>1, <1>2, <1>3 DEF h

(* Disconnecting any links keeps every pin that agrees in agreement. *)
LEMMA DisconnectedAgrees ==
  ASSUME NEW g, GraphRecord(g), NEW D, NEW S \in SUBSET Pin, PinsAgree(g, S)
  PROVE  PinsAgree(Disconnected(g, D), S)
<1> DEFINE h == Disconnected(g, D)
<1>1. /\ Links(h) = Links(g) \ D
      /\ \A l \in Link \ D : h.source[l] = g.source[l] /\ h.sink[l] = g.sink[l]
      /\ \A p \in Pin : h.pinLinks[p] = g.pinLinks[p] \ (D \cap EndsAt(g, p))
  BY DisconnectedFields
<1> HIDE DEF h
<1>2. ASSUME NEW p \in S PROVE h.pinLinks[p] = EndsAt(h, p)
  <2>1. g.pinLinks[p] = EndsAt(g, p)
    BY DEF PinsAgree
  <2>2. EndsAt(h, p) = EndsAt(g, p) \ D
    BY <1>1 DEF EndsAt, Links
  <2> QED BY <1>1, <2>1, <2>2
<1> QED BY <1>2 DEF PinsAgree, h

LEMMA ConnectedFields ==
  ASSUME NEW g, GraphRecord(g), NEW l \in Link, NEW p \in SourcePin, NEW q \in Pin \ SourcePin,
         NEW h, h = Connected(g, l, p, q)
  PROVE  /\ GraphRecord(h)
         /\ h.source[l] = p /\ h.sink[l] = q
         /\ \A k \in Link \ {l} : h.source[k] = g.source[k] /\ h.sink[k] = g.sink[k]
         /\ \A r \in {p, q} : h.pinLinks[r] = g.pinLinks[r] \cup {l}
         /\ \A r \in Pin \ {p, q} : h.pinLinks[r] = g.pinLinks[r]
<1>1. GraphRecord(h)
  BY PinsAssumption DEF GraphRecord, Connected
<1>2. /\ h.source = [g.source EXCEPT ![l] = p] /\ h.sink = [g.sink EXCEPT ![l] = q]
      /\ h.pinLinks = [r \in Pin |-> IF r \in {p, q} THEN g.pinLinks[r] \cup {l}
                                    ELSE g.pinLinks[r]]
  BY DEF GraphRecord, Connected
<1>3. p \in Pin /\ q \in Pin
  BY PinsAssumption
<1>4. /\ g.source \in [Link -> SourcePin \cup {NoPin}]
      /\ g.sink \in [Link -> (Pin \ SourcePin) \cup {NoPin}]
  BY FieldTypes
<1>5. /\ h.source[l] = p /\ h.sink[l] = q
      /\ \A k \in Link \ {l} : h.source[k] = g.source[k] /\ h.sink[k] = g.sink[k]
  BY <1>2, <1>4
<1>6. /\ \A r \in {p, q} : h.pinLinks[r] = g.pinLinks[r] \cup {l}
      /\ \A r \in Pin \ {p, q} : h.pinLinks[r] = g.pinLinks[r]
  BY <1>2, <1>3
<1> QED BY <1>1, <1>5, <1>6

-----------------------------------------------------------------------------
LEMMA InitInv == GraphInit => GraphInv
<1> SUFFICES ASSUME GraphInit PROVE GraphInv
  OBVIOUS
<1>1. graph = NewGraph /\ discarded = {}
  BY DEF GraphInit
<1>2. GraphRecord(graph)
  BY <1>1 DEF NewGraph, GraphRecord
<1>3. Links(graph) = {}
  BY <1>1 DEF NewGraph, Links
<1> QED BY <1>1, <1>2, <1>3
        DEF GraphInv, LinksAndPinsAgree, NoLinkIsDiscarded, PinsAgree, EndsAt, NewGraph

LEMMA NextInv == GraphInv /\ [GraphNext]_graphVars => GraphInv'
<1> SUFFICES ASSUME GraphInv, [GraphNext]_graphVars PROVE GraphInv'
  OBVIOUS
<1>0. /\ GraphRecord(graph) /\ PinsAgree(graph, Usable) /\ Usable \subseteq Pin
      /\ \A l \in Links(graph) : /\ Owner[graph.source[l]] \notin discarded
                                 /\ Owner[graph.sink[l]] \notin discarded
                                 /\ graph.sink[l] # NoPin
  BY DEF GraphInv, LinksAndPinsAgree, NoLinkIsDiscarded, Usable
<1>a. ASSUME GraphRecord(graph'), graph'.source = graph.source, graph'.sink = graph.sink,
             graph'.pinLinks = graph.pinLinks, discarded' = discarded
      PROVE  GraphInv'
  BY <1>a, <1>0 DEF GraphInv, LinksAndPinsAgree, NoLinkIsDiscarded, PinsAgree, EndsAt, Links,
                    Usable
<1>b. ASSUME NEW D, graph' = Disconnected(graph, D), discarded' = discarded
      PROVE  GraphInv'
  <2>1. PinsAgree(graph', Usable)
    BY <1>b, <1>0, DisconnectedAgrees
  <2>2. /\ GraphRecord(graph') /\ Links(graph') = Links(graph) \ D
        /\ \A l \in Link \ D : /\ graph'.source[l] = graph.source[l]
                               /\ graph'.sink[l] = graph.sink[l]
    BY <1>b, <1>0, DisconnectedFields
  <2> QED BY <1>b, <1>0, <2>1, <2>2
          DEF GraphInv, LinksAndPinsAgree, NoLinkIsDiscarded, Usable, Links
<1>1. CASE Clear
  <2>1. /\ GraphRecord(graph') /\ graph'.pinLinks = graph.pinLinks
        /\ graph'.source = [l \in Link |-> NoPin]
    BY <1>0, <1>1 DEF Clear, Cleared, GraphRecord
  <2>2. Links(graph') = {}
    BY <2>1 DEF Links
  <2>3. ASSUME NEW p \in Pin, Owner[p] \notin discarded' PROVE graph.pinLinks[p] = {}
    BY <1>1, <2>3 DEF Clear
  <2> QED BY <2>1, <2>2, <2>3
          DEF GraphInv, LinksAndPinsAgree, NoLinkIsDiscarded, PinsAgree, EndsAt
<1>2. CASE Sort
  BY <1>0, <1>2, <1>a, SortedKeepsLinks DEF Sort
<1>3. ASSUME NEW n \in Node, Register(n) PROVE GraphInv'
  <2>1. /\ GraphRecord(graph') /\ graph'.source = graph.source /\ graph'.sink = graph.sink
        /\ graph'.pinLinks = graph.pinLinks /\ discarded' = discarded
    BY <1>0, <1>3 DEF Register, Registered, GraphRecord
  <2> QED BY <1>a, <2>1
<1>4. ASSUME NEW n \in Node, Unregister(n) PROVE GraphInv'
  <2>1. PICK D : /\ graph' = [Disconnected(graph, D) EXCEPT !.nodes = RemoveFirst(@, n)]
                 /\ discarded' = discarded
    BY <1>4, Zenon DEF Unregister, Unregistered
  <2> DEFINE h == Disconnected(graph, D)
  <2>2. GraphRecord(h) /\ PinsAgree(h, Usable)
    BY <1>0, DisconnectedFields, DisconnectedAgrees
  <2>3. /\ Links(h) = Links(graph) \ D
        /\ \A l \in Link \ D : h.source[l] = graph.source[l] /\ h.sink[l] = graph.sink[l]
    BY <1>0, DisconnectedFields
  <2> HIDE DEF h
  <2>4. graph' = [h EXCEPT !.nodes = RemoveFirst(@, n)]
    BY <2>1 DEF h
  <2>5. /\ GraphRecord(graph') /\ graph'.source = h.source /\ graph'.sink = h.sink
        /\ graph'.pinLinks = h.pinLinks
    BY <2>2, <2>4 DEF GraphRecord
  <2>6. PinsAgree(graph', Usable) /\ Links(graph') = Links(h)
    BY <2>2, <2>5 DEF PinsAgree, EndsAt, Links
  <2> QED BY <1>0, <2>1, <2>3, <2>5, <2>6
          DEF GraphInv, LinksAndPinsAgree, NoLinkIsDiscarded, Usable, Links
<1>5. ASSUME NEW p \in SourcePin, NEW q \in Pin \ SourcePin, Connect(p, q) PROVE GraphInv'
  <2>1. PICK l \in Link \ Links(graph) : graph' = Connected(graph, l, p, q)
    BY <1>5 DEF Connect
  <2>2. /\ discarded' = discarded
        /\ Owner[p] \notin discarded /\ Owner[q] \notin discarded
    BY <1>5 DEF Connect
  <2>3. /\ GraphRecord(graph')
        /\ graph'.source[l] = p /\ graph'.sink[l] = q
        /\ \A k \in Link \ {l} : /\ graph'.source[k] = graph.source[k]
                                 /\ graph'.sink[k] = graph.sink[k]
        /\ \A r \in {p, q} : graph'.pinLinks[r] = graph.pinLinks[r] \cup {l}
        /\ \A r \in Pin \ {p, q} : graph'.pinLinks[r] = graph.pinLinks[r]
    BY <1>0, <2>1, ConnectedFields
  <2>4. Links(graph') = Links(graph) \cup {l} /\ p # NoPin /\ q # NoPin
    BY <1>0, <2>3, PinsAssumption DEF Links, GraphRecord
  <2>5. ASSUME NEW r \in Pin
        PROVE  /\ r \in {p, q} => EndsAt(graph', r) = EndsAt(graph, r) \cup {l}
               /\ r \notin {p, q} => EndsAt(graph', r) = EndsAt(graph, r)
    <3>1. \A k \in Links(graph) : k \in Link \ {l}
      BY <2>1 DEF Links
    <3> QED BY <2>1, <2>3, <2>4, <3>1 DEF EndsAt
  <2>6. PinsAgree(graph', Usable)
    BY <1>0, <2>3, <2>5 DEF PinsAgree
  <2>7. \A k \in Links(graph') : /\ Owner[graph'.source[k]] \notin discarded
                                 /\ Owner[graph'.sink[k]] \notin discarded
                                 /\ graph'.sink[k] # NoPin
    BY <1>0, <2>1, <2>2, <2>3, <2>4 DEF Links, GraphRecord
  <2> QED BY <2>2, <2>3, <2>6, <2>7
          DEF GraphInv, LinksAndPinsAgree, NoLinkIsDiscarded, Usable
<1>6. ASSUME NEW l \in Link, Disconnect(l) PROVE GraphInv'
  BY <1>b, <1>6 DEF Disconnect
<1>7. CASE UNCHANGED graphVars
  BY <1>0, <1>7, <1>a DEF graphVars
<1> QED BY <1>1, <1>2, <1>3, <1>4, <1>5, <1>6, <1>7 DEF GraphNext

LEMMA SpecInv == GraphSpec => []GraphInv
BY InitInv, NextInv, PTL DEF GraphSpec

(* Pins and links name each other, whatever is connected, disconnected,     *)
(* registered, unregistered, sorted and cleared: remove_link() always finds *)
(* the link it erases.                                                      *)
THEOREM LinksAndPinsAlwaysAgree == GraphSpec => []LinksAndPinsAgree
<1>1. GraphInv => LinksAndPinsAgree
  BY DEF GraphInv
<1> QED BY <1>1, SpecInv, PTL

(* No link of the graph ever hangs on a node that clear() discarded.        *)
THEOREM NeverDiscarded == GraphSpec => []NoLinkIsDiscarded
<1>1. GraphInv => NoLinkIsDiscarded
  BY DEF GraphInv
<1> QED BY <1>1, SpecInv, PTL

-----------------------------------------------------------------------------
(* The order of evaluation *)

(* What sort() has placed so far: nodes of the graph, none twice, each one   *)
(* when all it takes input from was there.                                  *)
PlacedFirst(o, j) == {o[i] : i \in 1 .. j - 1}

Placed(g, o) ==
  /\ o \in Seq(ToSet(g.nodes)) /\ Injective(o)
  /\ \A j \in 1 .. Len(o) : InputsReady(g, PlacedFirst(o, j), o[j])

Ready(g, o) == {i \in DOMAIN g.nodes :
                  g.nodes[i] \notin ToSet(o) /\ InputsReady(g, ToSet(o), g.nodes[i])}

LEMMA MinInside ==
  ASSUME NEW S \in SUBSET Nat, S # {}
  PROVE  Min(S) \in S
BY NatSmallest DEF Min

(* A round of sort() places a node, unless none is ready.                    *)
LEMMA PlaceNextFacts ==
  ASSUME NEW g, g.nodes \in Seq(Node), NEW o, Placed(g, o)
  PROVE  /\ Placed(g, PlaceNext(g, o))
         /\ Len(PlaceNext(g, o)) = IF Ready(g, o) = {} THEN Len(o) ELSE Len(o) + 1
<1>0. o \in Seq(ToSet(g.nodes)) /\ Len(o) \in Nat /\ DOMAIN o = 1 .. Len(o)
  BY LenProperties DEF Placed
<1>1. CASE Ready(g, o) = {}
  <2>1. PlaceNext(g, o) = o
    BY <1>1 DEF PlaceNext, Ready
  <2> QED BY <1>1, <2>1
<1>2. CASE Ready(g, o) # {}
  <2> DEFINE m == Min(Ready(g, o))
             n == g.nodes[m]
             u == Append(o, n)
  <2>1. PlaceNext(g, o) = u
    BY <1>2 DEF PlaceNext, Ready
  <2>2. m \in Ready(g, o)
    <3>1. Ready(g, o) \in SUBSET Nat
      BY LenProperties DEF Ready
    <3> QED BY <1>2, <3>1, MinInside
  <2>3. m \in DOMAIN g.nodes /\ n \in ToSet(g.nodes) /\ n \notin ToSet(o) /\ InputsReady(g, ToSet(o), n)
    BY <2>2 DEF Ready, ToSet
  <2> HIDE DEF n
  <2>4. /\ u \in Seq(ToSet(g.nodes)) /\ Len(u) = Len(o) + 1
        /\ \A i \in 1 .. Len(o) : u[i] = o[i]
        /\ u[Len(o) + 1] = n
    BY <1>0, <2>3, AppendProperties
  <2> HIDE DEF u
  <2>6. Injective(u)
    <3>1. Injective(o)
      BY DEF Placed
    <3> QED BY <1>0, <2>3, <3>1, AppendNew DEF u
  <2>7. ASSUME NEW j \in 1 .. Len(u) PROVE InputsReady(g, PlacedFirst(u, j), u[j])
    <3>1. CASE j \in 1 .. Len(o)
      <4>1. \A i \in 1 .. j - 1 : u[i] = o[i]
        BY <1>0, <2>4, <3>1
      <4>2. PlacedFirst(u, j) = PlacedFirst(o, j)
        BY <4>1 DEF PlacedFirst
      <4> QED BY <2>4, <3>1, <4>2 DEF Placed
    <3>2. CASE j = Len(o) + 1
      <4>1. j - 1 = Len(o)
        BY <1>0, <3>2
      <4>2. PlacedFirst(u, j) = ToSet(o)
        BY <1>0, <2>4, <4>1 DEF PlacedFirst, ToSet
      <4> QED BY <2>3, <2>4, <3>2, <4>2
    <3> QED BY <1>0, <2>4, <3>1, <3>2
  <2> QED BY <1>2, <2>1, <2>4, <2>6, <2>7 DEF Placed
<1> QED BY <1>1, <1>2

(* The recursion of Sorted ends. *)
Rounds(f, g) ==
  f \in [Nat -> Seq(ToSet(g.nodes))] /\ f[0] = << >> /\ \A k \in Nat : f[k + 1] = PlaceNext(g, f[k])

LEMMA SortedRounds ==
  ASSUME NEW g, g.nodes \in Seq(Node)
  PROVE  \E f : /\ Rounds(f, g)
                /\ Sorted(g) = IF g.isSorted \/ Len(f[Len(g.nodes)]) < Len(g.nodes) THEN g
                               ELSE [g EXCEPT !.nodes = f[Len(g.nodes)], !.isSorted = TRUE]
<1> DEFINE D == Seq(ToSet(g.nodes))
           Body(w, k) == IF k = 0 THEN << >> ELSE PlaceNext(g, w[k - 1])
           step == [a \in Nat \X D |-> PlaceNext(g, a[2])]
<1>1. << >> \in D
  OBVIOUS
<1>2. \A o \in D : PlaceNext(g, o) \in D
  <2> SUFFICES ASSUME NEW o \in D PROVE PlaceNext(g, o) \in D
    OBVIOUS
  <2>1. CASE Ready(g, o) = {}
    BY <2>1 DEF PlaceNext, Ready
  <2>2. CASE Ready(g, o) # {}
    <3>1. Ready(g, o) \in SUBSET Nat
      BY LenProperties DEF Ready
    <3>2. Min(Ready(g, o)) \in Ready(g, o)
      BY <2>2, <3>1, MinInside
    <3>3. g.nodes[Min(Ready(g, o))] \in ToSet(g.nodes)
      BY <3>2 DEF Ready, ToSet
    <3>4. PlaceNext(g, o) = Append(o, g.nodes[Min(Ready(g, o))])
      BY <2>2 DEF PlaceNext, Ready
    <3> QED BY <3>3, <3>4, AppendProperties
  <2> QED BY <2>1, <2>2
<1>3. step \in [Nat \X D -> D]
  BY <1>2
<1>4. \A k \in Nat, o \in D : step[<<k, o>>] = PlaceNext(g, o)
  OBVIOUS
<1> HIDE DEF step, D
<1>5. \E f : Iterates(f, D, << >>, step)
  BY <1>1, <1>3, NatRecursion
<1>6. PICK f \in [Nat -> D] : f[0] = << >> /\ \A k \in Nat : f[k + 1] = step[<<k, f[k]>>]
  BY <1>5 DEF Iterates
<1>7. f = [k \in Nat |-> Body(f, k)]
  <2>1. ASSUME NEW k \in Nat PROVE f[k] = Body(f, k)
    <3>1. CASE k = 0
      BY <3>1, <1>6
    <3>2. CASE k # 0
      <4>1. k - 1 \in Nat /\ (k - 1) + 1 = k
        BY <3>2
      <4> QED BY <3>2, <4>1, <1>4, <1>6
    <3> QED BY <3>1, <3>2
  <2> HIDE DEF Body
  <2> QED BY <1>6, <2>1
<1> DEFINE order == CHOOSE w : w = [k \in Nat |-> Body(w, k)]
<1>8. Sorted(g) = IF g.isSorted \/ Len(order[Len(g.nodes)]) < Len(g.nodes) THEN g
                  ELSE [g EXCEPT !.nodes = order[Len(g.nodes)], !.isSorted = TRUE]
  BY Zenon DEF Sorted
<1>9. order = [k \in Nat |-> Body(order, k)]
  BY <1>7
<1> HIDE DEF order
<1>10. ASSUME NEW k \in Nat PROVE order[k] = f[k]
  <2> DEFINE P == {j \in Nat : order[j] = f[j]}
  <2>1. 0 \in P
    BY <1>6, <1>9
  <2>2. ASSUME NEW j \in P PROVE j + 1 \in P
    <3>1. j + 1 \in Nat /\ j + 1 # 0 /\ (j + 1) - 1 = j /\ order[j] = f[j]
      OBVIOUS
    <3>2. order[j + 1] = Body(order, j + 1) /\ f[j + 1] = Body(f, j + 1)
      BY <1>7, <1>9, <3>1
    <3> QED BY <3>1, <3>2
  <2>3. P \in SUBSET Nat
    OBVIOUS
  <2> HIDE DEF P
  <2>4. P = Nat
    BY <2>1, <2>2, <2>3, NatSetInduction
  <2> QED BY <2>4 DEF P
<1>11. Rounds(f, g)
  BY <1>4, <1>6 DEF Rounds, D
<1>12. Len(g.nodes) \in Nat
  BY LenProperties
<1> QED BY <1>8, <1>10, <1>11, <1>12

(* What sort() is called on: a graph whose nodes are registered once, and    *)
(* have pins that agree with the links.                                     *)
Sortable(g) ==
  /\ GraphRecord(g)
  /\ g.nodes \in Seq(Node) /\ Injective(g.nodes)
  /\ PinsAgree(g, {p \in Pin : Owner[p] \in ToSet(g.nodes)})
  /\ \A l \in Links(g) : g.sink[l] # NoPin

Sources(g) == {Owner[g.source[l]] : l \in {l \in Links(g) : Owner[g.sink[l]] \in ToSet(g.nodes)}}

(* A node is ready when the sources of the links that end at it are placed.  *)
LEMMA InputsAreLinks ==
  ASSUME NEW g, Sortable(g), NEW n \in ToSet(g.nodes), NEW placed
  PROVE  InputsReady(g, placed, n) <=>
           \A l \in Links(g) : Owner[g.sink[l]] = n => Owner[g.source[l]] \in placed
<1>1. /\ g.source \in [Link -> SourcePin \cup {NoPin}]
      /\ g.sink \in [Link -> (Pin \ SourcePin) \cup {NoPin}]
      /\ \A l \in Links(g) : g.sink[l] # NoPin
  BY FieldTypes DEF Sortable
<1>2. \A l \in Links(g) : l \in Link /\ g.source[l] \in SourcePin /\ g.sink[l] \in Pin \ SourcePin
  BY <1>1 DEF Links
<1>3. \A p \in Pin : Owner[p] = n => g.pinLinks[p] = EndsAt(g, p)
  BY DEF Sortable, PinsAgree
<1>4. ASSUME NEW p \in InputsOf(n) PROVE g.pinLinks[p] = {l \in Links(g) : g.sink[l] = p}
  <2>1. p \in Pin \ SourcePin /\ Owner[p] = n
    BY <1>4 DEF InputsOf
  <2>2. EndsAt(g, p) = {l \in Links(g) : g.sink[l] = p}
    BY <1>2, <2>1 DEF EndsAt
  <2> QED BY <1>3, <2>1, <2>2
<1>5. \A l \in Links(g) : Owner[g.sink[l]] = n => g.sink[l] \in InputsOf(n)
  BY <1>2 DEF InputsOf
<1>6. \A p \in InputsOf(n) : Owner[p] = n
  BY DEF InputsOf
<1> QED BY <1>4, <1>5, <1>6 DEF InputsReady

LEMMA RoundsPlace ==
  ASSUME NEW g, Sortable(g), NEW f, Rounds(f, g), NEW k \in Nat
  PROVE  Placed(g, f[k]) /\ Len(f[k]) <= k
<1> DEFINE P == {j \in Nat : Placed(g, f[j]) /\ Len(f[j]) <= j}
<1>0. g.nodes \in Seq(Node)
  BY DEF Sortable
<1>1. 0 \in P
  <2>1. f[0] = << >>
    BY DEF Rounds
  <2>2. Placed(g, << >>) /\ Len(<< >>) <= 0
    BY DEF Placed, Injective
  <2> QED BY <2>1, <2>2
<1>2. ASSUME NEW j \in P PROVE j + 1 \in P
  <2>1. f[j + 1] = PlaceNext(g, f[j]) /\ Placed(g, f[j]) /\ Len(f[j]) <= j /\ j \in Nat
    BY DEF Rounds
  <2>2. f[j] \in Seq(ToSet(g.nodes)) /\ Len(f[j]) \in Nat
    BY <2>1, LenProperties DEF Placed
  <2>3. Placed(g, f[j + 1]) /\ Len(f[j + 1]) \in {Len(f[j]), Len(f[j]) + 1}
    BY <1>0, <2>1, PlaceNextFacts
  <2> QED BY <2>1, <2>2, <2>3
<1>3. P \in SUBSET Nat
  OBVIOUS
<1> HIDE DEF P
<1>4. P = Nat
  BY <1>1, <1>2, <1>3, NatSetInduction
<1> QED BY <1>4 DEF P

(* Once all nodes are placed they are in an order of evaluation, and take    *)
(* input from each other only.                                              *)
LEMMA PlacedIsOrder ==
  ASSUME NEW g, Sortable(g), NEW o, Placed(g, o), Len(o) >= Len(g.nodes)
  PROVE  /\ o \in SetToSeqs(ToSet(g.nodes)) /\ ToSet(o) = ToSet(g.nodes)
         /\ RespectsLinks(g, o)
         /\ Sources(g) \subseteq ToSet(g.nodes)
<1>1. IsFiniteSet(ToSet(g.nodes)) /\ Cardinality(ToSet(g.nodes)) = Len(g.nodes)
  BY InjectiveLen DEF Sortable
<1>2. o \in Seq(ToSet(g.nodes)) /\ Injective(o) /\ Len(o) \in Nat /\ DOMAIN o = 1 .. Len(o)
  BY LenProperties DEF Placed
<1>3. o \in SetToSeqs(ToSet(g.nodes)) /\ ToSet(o) = ToSet(g.nodes)
  BY <1>1, <1>2, IsEnumeration
<1>4. ASSUME NEW l \in Links(g), NEW j \in 1 .. Len(o), o[j] = Owner[g.sink[l]]
      PROVE  \E i \in 1 .. j - 1 : o[i] = Owner[g.source[l]]
  <2>1. InputsReady(g, PlacedFirst(o, j), o[j]) /\ o[j] \in ToSet(g.nodes)
    BY <1>2, ElementOfSeq DEF Placed
  <2>2. Owner[g.source[l]] \in PlacedFirst(o, j)
    BY <1>4, <2>1, InputsAreLinks
  <2> QED BY <2>2 DEF PlacedFirst
<1>5. RespectsLinks(g, o)
  <2> SUFFICES ASSUME NEW l \in Links(g), NEW i \in 1 .. Len(o), NEW j \in 1 .. Len(o),
                      o[i] = Owner[g.source[l]], o[j] = Owner[g.sink[l]]
               PROVE  i < j
    BY <1>2 DEF RespectsLinks
  <2>1. PICK k \in 1 .. j - 1 : o[k] = Owner[g.source[l]]
    BY <1>4
  <2>2. k \in 1 .. Len(o)
    BY <1>2, <2>1
  <2>3. k = i
    BY <1>2, <2>1, <2>2 DEF Injective
  <2> QED BY <2>1, <2>3
<1>6. Sources(g) \subseteq ToSet(g.nodes)
  <2> SUFFICES ASSUME NEW l \in Links(g), Owner[g.sink[l]] \in ToSet(g.nodes)
               PROVE  Owner[g.source[l]] \in ToSet(g.nodes)
    BY DEF Sources
  <2>1. PICK j \in 1 .. Len(o) : o[j] = Owner[g.sink[l]]
    BY <1>2, <1>3 DEF ToSet
  <2>2. PICK i \in 1 .. j - 1 : o[i] = Owner[g.source[l]]
    BY <1>4, <2>1
  <2>3. i \in 1 .. Len(o)
    BY <1>2, <2>2
  <2> QED BY <1>2, <2>2, <2>3, ElementOfSeq
<1> QED BY <1>3, <1>5, <1>6

(* Where there is an order, its first node that has no place yet is ready.   *)
LEMMA SomeoneIsReady ==
  ASSUME NEW g, Sortable(g), Sources(g) \subseteq ToSet(g.nodes),
         NEW s \in SetToSeqs(ToSet(g.nodes)), RespectsLinks(g, s),
         NEW o, Placed(g, o), Len(o) < Len(g.nodes)
  PROVE  Ready(g, o) # {}
<1>1. IsFiniteSet(ToSet(g.nodes)) /\ Cardinality(ToSet(g.nodes)) = Len(g.nodes)
  BY InjectiveLen DEF Sortable
<1>2. s \in Seq(ToSet(g.nodes)) /\ ToSet(s) = ToSet(g.nodes) /\ DOMAIN s = 1 .. Len(s) /\ Len(s) \in Nat
  BY <1>1, SetToSeqsFacts, LenProperties
<1>3. o \in Seq(ToSet(g.nodes)) /\ Injective(o) /\ Len(o) \in Nat /\ Len(g.nodes) \in Nat
  BY LenProperties DEF Placed, Sortable
<1>4. Cardinality(ToSet(o)) = Len(o)
  BY <1>3, InjectiveLen
<1>5. ToSet(o) # ToSet(g.nodes)
  BY <1>1, <1>3, <1>4
<1>6. ToSet(o) \subseteq ToSet(g.nodes)
  BY <1>3, ElementOfSeq, LenProperties DEF ToSet
<1> DEFINE Q == {i \in 1 .. Len(s) : s[i] \notin ToSet(o)}
<1>7. Q # {}
  <2>1. PICK n \in ToSet(g.nodes) : n \notin ToSet(o)
    BY <1>5, <1>6
  <2>2. PICK i \in 1 .. Len(s) : s[i] = n
    BY <1>2, <2>1 DEF ToSet
  <2> QED BY <2>1, <2>2
<1>8. PICK i \in Q : \A j \in Q : i <= j
  <2>1. Q \in SUBSET Nat
    BY <1>2
  <2> HIDE DEF Q
  <2> QED BY <1>7, <2>1, NatSmallest
<1>9. i \in 1 .. Len(s) /\ s[i] \notin ToSet(o) /\ s[i] \in ToSet(g.nodes)
  BY <1>2, <1>8, ElementOfSeq
<1>10. ASSUME NEW l \in Links(g), Owner[g.sink[l]] = s[i] PROVE Owner[g.source[l]] \in ToSet(o)
  <2>1. Owner[g.source[l]] \in ToSet(g.nodes)
    BY <1>9, <1>10 DEF Sources
  <2>0. Owner[g.source[l]] \in ToSet(s)
    BY <1>2, <2>1
  <2>2. PICK j \in 1 .. Len(s) : s[j] = Owner[g.source[l]]
    BY <1>2, <2>0 DEF ToSet
  <2>3. j < i
    BY <1>2, <1>9, <1>10, <2>2 DEF RespectsLinks
  <2>4. j \notin Q
    BY <1>2, <1>8, <1>9, <2>3
  <2> QED BY <2>2, <2>4
<1>11. InputsReady(g, ToSet(o), s[i])
  BY <1>9, <1>10, InputsAreLinks
<1>12. PICK k \in DOMAIN g.nodes : g.nodes[k] = s[i]
  BY <1>9 DEF ToSet
<1> QED BY <1>9, <1>11, <1>12 DEF Ready

LEMMA RoundsFinish ==
  ASSUME NEW g, Sortable(g), Sources(g) \subseteq ToSet(g.nodes),
         NEW s \in SetToSeqs(ToSet(g.nodes)), RespectsLinks(g, s),
         NEW f, Rounds(f, g)
  PROVE  Len(f[Len(g.nodes)]) = Len(g.nodes)
<1> DEFINE P == {j \in Nat : j <= Len(g.nodes) => Len(f[j]) = j}
<1>0. g.nodes \in Seq(Node) /\ Len(g.nodes) \in Nat
  BY LenProperties DEF Sortable
<1>1. 0 \in P
  BY DEF Rounds
<1>2. ASSUME NEW j \in P PROVE j + 1 \in P
  <2> SUFFICES ASSUME j + 1 <= Len(g.nodes) PROVE Len(f[j + 1]) = j + 1
    OBVIOUS
  <2>1. Len(f[j]) = j /\ j < Len(g.nodes)
    BY <1>0
  <2>2. f[j + 1] = PlaceNext(g, f[j]) /\ Placed(g, f[j])
    BY RoundsPlace DEF Rounds
  <2>3. Ready(g, f[j]) # {}
    BY <2>1, <2>2, SomeoneIsReady
  <2> QED BY <1>0, <2>1, <2>2, <2>3, PlaceNextFacts
<1>3. P \in SUBSET Nat
  OBVIOUS
<1> HIDE DEF P
<1>4. P = Nat
  BY <1>1, <1>2, <1>3, NatSetInduction
<1> QED BY <1>0, <1>4 DEF P

(* Whether sort() has changed them or not, the links are the same.            *)
LEMMA SortedAgain ==
  ASSUME NEW g, Sortable(g), NEW h, h = [g EXCEPT !.isSorted = FALSE]
  PROVE  /\ Sortable(h) /\ ~h.isSorted /\ h.nodes = g.nodes /\ Links(h) = Links(g)
         /\ Sources(h) = Sources(g)
         /\ \A s : RespectsLinks(h, s) <=> RespectsLinks(g, s)
<1>1. PICK N : g \in [nodes : N,
               source : [Link -> SourcePin \cup {NoPin}],
               sink : [Link -> (Pin \ SourcePin) \cup {NoPin}],
               pinLinks : [Pin -> SUBSET Link],
               isSorted : BOOLEAN]
  BY DEF Sortable, GraphRecord
<1>2. /\ h \in [nodes : N,
               source : [Link -> SourcePin \cup {NoPin}],
               sink : [Link -> (Pin \ SourcePin) \cup {NoPin}],
               pinLinks : [Pin -> SUBSET Link],
               isSorted : BOOLEAN]
      /\ h.nodes = g.nodes /\ h.source = g.source /\ h.sink = g.sink /\ h.pinLinks = g.pinLinks
      /\ h.isSorted = FALSE
  BY <1>1
<1>3. GraphRecord(h)
  BY <1>2 DEF GraphRecord
<1>4. Links(h) = Links(g) /\ \A p : EndsAt(h, p) = EndsAt(g, p)
  BY <1>2 DEF Links, EndsAt
<1>5. Sources(h) = Sources(g) /\ \A s : RespectsLinks(h, s) <=> RespectsLinks(g, s)
  BY <1>2, <1>4 DEF Sources, RespectsLinks
<1>6. Sortable(h)
  BY <1>2, <1>3, <1>4 DEF Sortable, PinsAgree
<1> QED BY <1>2, <1>4, <1>5, <1>6

(* sort() finds an order exactly where there is one. *)
LEMMA SortFinds ==
  ASSUME NEW g, Sortable(g), ~g.isSorted
  PROVE  LET orders == {s \in SetToSeqs(ToSet(g.nodes)) : RespectsLinks(g, s)}
         IN  IF Sources(g) \subseteq ToSet(g.nodes) /\ orders # {}
             THEN Sorted(g).isSorted /\ Sorted(g).nodes \in orders
             ELSE ~Sorted(g).isSorted
<1> DEFINE orders == {s \in SetToSeqs(ToSet(g.nodes)) : RespectsLinks(g, s)}
<1>0. g.nodes \in Seq(Node) /\ Len(g.nodes) \in Nat
  BY LenProperties DEF Sortable
<1>1. PICK f : /\ Rounds(f, g)
               /\ Sorted(g) = IF g.isSorted \/ Len(f[Len(g.nodes)]) < Len(g.nodes) THEN g
                              ELSE [g EXCEPT !.nodes = f[Len(g.nodes)], !.isSorted = TRUE]
  BY <1>0, SortedRounds
<1> DEFINE o == f[Len(g.nodes)]
<1>2. Placed(g, o)
  BY <1>0, <1>1, RoundsPlace
<1> HIDE DEF o
<1>3. Len(o) \in Nat
  BY <1>2, LenProperties DEF Placed
<1>4. CASE Len(o) < Len(g.nodes)
  <2>1. Sorted(g) = g
    BY <1>1, <1>4 DEF o
  <2>2. ASSUME Sources(g) \subseteq ToSet(g.nodes), NEW s \in orders PROVE FALSE
    <3>1. Len(o) = Len(g.nodes)
      BY <1>1, <2>2, RoundsFinish DEF o
    <3> QED BY <1>0, <1>4, <3>1
  <2> HIDE DEF orders
  <2>3. ~(Sources(g) \subseteq ToSet(g.nodes) /\ orders # {})
    BY <2>2
  <2> QED BY <2>1, <2>3 DEF orders
<1>5. CASE Len(o) >= Len(g.nodes)
  <2>1. Sources(g) \subseteq ToSet(g.nodes) /\ o \in orders
    BY <1>2, <1>5, PlacedIsOrder
  <2>2. Sorted(g) = [g EXCEPT !.nodes = o, !.isSorted = TRUE]
    <3>1. ~(Len(o) < Len(g.nodes))
      BY <1>0, <1>3, <1>5
    <3> QED BY <1>1, <3>1 DEF o
  <2> HIDE DEF orders
  <2>3. Sorted(g).isSorted = TRUE /\ Sorted(g).nodes = o
    BY <2>2 DEF Sortable, GraphRecord
  <2> QED BY <2>1, <2>3 DEF orders
<1> QED BY <1>0, <1>3, <1>4, <1>5

(* The invariant of the nodes: registered once, none of them discarded; and   *)
(* finitely many links at a pin, which makes their number mean something.    *)
NodesInv ==
  /\ graph.nodes \in Seq(Node) /\ Injective(graph.nodes)
  /\ \A n \in ToSet(graph.nodes) : n \notin discarded
  /\ \A p \in Pin : IsFiniteSet(graph.pinLinks[p])

LEMMA NodesSortable ==
  ASSUME GraphInv, NodesInv
  PROVE  Sortable(graph)
BY DEF GraphInv, NodesInv, Sortable, LinksAndPinsAgree, PinsAgree

(* What an operation makes of the nodes and of the links of a pin. *)
LEMMA SortedNodes ==
  ASSUME GraphInv, NodesInv
  PROVE  /\ Sorted(graph).nodes \in Seq(Node) /\ Injective(Sorted(graph).nodes)
         /\ ToSet(Sorted(graph).nodes) = ToSet(graph.nodes)
<1> DEFINE g == graph
<1>0. Sortable(g) /\ g.nodes \in Seq(Node) /\ Len(g.nodes) \in Nat /\ GraphRecord(g)
  BY NodesSortable, LenProperties DEF NodesInv, GraphInv
<1> HIDE DEF g
<1>1. PICK f : /\ Rounds(f, g)
               /\ Sorted(g) = IF g.isSorted \/ Len(f[Len(g.nodes)]) < Len(g.nodes) THEN g
                              ELSE [g EXCEPT !.nodes = f[Len(g.nodes)], !.isSorted = TRUE]
  BY <1>0, SortedRounds
<1> DEFINE o == f[Len(g.nodes)]
<1>2. Placed(g, o)
  BY <1>0, <1>1, RoundsPlace
<1> HIDE DEF o
<1>3. Len(o) \in Nat /\ o \in Seq(ToSet(g.nodes)) /\ Injective(o)
  BY <1>2, LenProperties DEF Placed
<1>4. CASE Sorted(g) = g
  BY <1>0, <1>4 DEF Sortable, g
<1>5. CASE Sorted(g) # g
  <2>1. ~(Len(o) < Len(g.nodes)) /\ Sorted(g) = [g EXCEPT !.nodes = o, !.isSorted = TRUE]
    BY <1>1, <1>5 DEF o
  <2>2. Sorted(g).nodes = o
    BY <1>0, <2>1 DEF GraphRecord
  <2>3. ToSet(o) = ToSet(g.nodes)
    BY <1>0, <1>2, <1>3, <2>1, PlacedIsOrder
  <2>4. ToSet(g.nodes) \subseteq Node
    BY <1>0, ElementOfSeq, LenProperties DEF ToSet
  <2>5. o \in Seq(Node)
    BY <1>3, <2>4, LenProperties, SeqDef
  <2> QED BY <1>3, <2>2, <2>3, <2>5 DEF g
<1> QED BY <1>4, <1>5

LEMMA NodesNextInv == GraphInv /\ NodesInv /\ [GraphNext]_graphVars => NodesInv'
<1> SUFFICES ASSUME GraphInv, NodesInv, [GraphNext]_graphVars PROVE NodesInv'
  OBVIOUS
<1>0. /\ GraphRecord(graph) /\ graph.pinLinks \in [Pin -> SUBSET Link]
      /\ graph.nodes \in Seq(Node) /\ Injective(graph.nodes)
      /\ \A n \in ToSet(graph.nodes) : n \notin discarded
      /\ \A p \in Pin : IsFiniteSet(graph.pinLinks[p])
  BY FieldTypes DEF GraphInv, NodesInv
<1>1. CASE Clear
  <2>1. graph'.nodes = << >> /\ graph'.pinLinks = graph.pinLinks
    BY <1>0, <1>1 DEF Clear, Cleared, GraphRecord
  <2>2. Injective(<< >>) /\ ToSet(<< >>) = {}
    BY DEF Injective, ToSet
  <2> QED BY <1>0, <2>1, <2>2 DEF NodesInv
<1>2. CASE Sort
  <2>1. graph' = Sorted(graph) /\ discarded' = discarded
    BY <1>2 DEF Sort
  <2>2. Sorted(graph).pinLinks = graph.pinLinks
    BY <1>0, SortedKeepsLinks
  <2>3. /\ Sorted(graph).nodes \in Seq(Node) /\ Injective(Sorted(graph).nodes)
        /\ ToSet(Sorted(graph).nodes) = ToSet(graph.nodes)
    BY SortedNodes
  <2> QED BY <1>0, <2>1, <2>2, <2>3 DEF NodesInv
<1>3. ASSUME NEW n \in Node, Register(n) PROVE NodesInv'
  <2>1. /\ graph'.nodes = Append(graph.nodes, n) /\ graph'.pinLinks = graph.pinLinks
        /\ discarded' = discarded /\ n \notin discarded /\ n \notin ToSet(graph.nodes)
    BY <1>0, <1>3 DEF Register, Registered, GraphRecord
  <2>3. /\ graph'.nodes \in Seq(Node) /\ Injective(graph'.nodes)
        /\ ToSet(graph'.nodes) = ToSet(graph.nodes) \cup {n}
    <3>1. /\ Append(graph.nodes, n) \in Seq(Node) /\ Injective(Append(graph.nodes, n))
          /\ ToSet(Append(graph.nodes, n)) = ToSet(graph.nodes) \cup {n}
      BY <1>0, <2>1, AppendNew
    <3> QED BY <2>1, <3>1, Zenon
  <2> QED BY <1>0, <2>1, <2>3 DEF NodesInv
<1>4. ASSUME NEW n \in Node, Unregister(n) PROVE NodesInv'
  <2>1. PICK D : /\ graph' = [Disconnected(graph, D) EXCEPT !.nodes = RemoveFirst(@, n)]
                 /\ discarded' = discarded
    BY <1>4, Zenon DEF Unregister, Unregistered
  <2>2. /\ GraphRecord(Disconnected(graph, D))
        /\ \A p \in Pin : Disconnected(graph, D).pinLinks[p]
                            = graph.pinLinks[p] \ (D \cap EndsAt(graph, p))
    BY <1>0, DisconnectedFields
  <2>3. Disconnected(graph, D).nodes = graph.nodes
    BY <1>0 DEF GraphRecord, Disconnected
  <2>4. /\ graph'.nodes = RemoveFirst(graph.nodes, n)
        /\ graph'.pinLinks = Disconnected(graph, D).pinLinks
    BY <2>1, <2>2, <2>3 DEF GraphRecord
  <2>5. /\ graph'.nodes \in Seq(Node) /\ Injective(graph'.nodes)
        /\ ToSet(graph'.nodes) = ToSet(graph.nodes) \ {n}
    BY <1>0, <2>4, RemoveFirstInjective
  <2>6. ASSUME NEW p \in Pin PROVE IsFiniteSet(graph'.pinLinks[p])
    <3>1. graph'.pinLinks[p] \in SUBSET graph.pinLinks[p]
      BY <2>2, <2>4
    <3> QED BY <1>0, <3>1, FS_Subset
  <2> QED BY <1>0, <2>1, <2>5, <2>6 DEF NodesInv
<1>5. ASSUME NEW p \in SourcePin, NEW q \in Pin \ SourcePin, Connect(p, q) PROVE NodesInv'
  <2>1. PICK l \in Link : graph' = Connected(graph, l, p, q) /\ discarded' = discarded
    BY <1>5 DEF Connect
  <2>2. graph'.nodes = graph.nodes
    BY <1>0, <2>1 DEF GraphRecord, Connected
  <2>3. /\ \A r \in {p, q} : graph'.pinLinks[r] = graph.pinLinks[r] \cup {l}
        /\ \A r \in Pin \ {p, q} : graph'.pinLinks[r] = graph.pinLinks[r]
    BY <1>0, <2>1, ConnectedFields
  <2>4. ASSUME NEW r \in Pin PROVE IsFiniteSet(graph'.pinLinks[r])
    <3>1. IsFiniteSet(graph.pinLinks[r] \cup {l})
      BY <1>0, FS_AddElement
    <3> QED BY <1>0, <2>3, <3>1
  <2> QED BY <1>0, <2>1, <2>2, <2>4 DEF NodesInv
<1>6. ASSUME NEW l \in Link, Disconnect(l) PROVE NodesInv'
  <2>1. graph' = Disconnected(graph, {l}) /\ discarded' = discarded
    BY <1>6 DEF Disconnect
  <2>2. graph'.nodes = graph.nodes
    BY <1>0, <2>1 DEF GraphRecord, Disconnected
  <2>3. \A p \in Pin : graph'.pinLinks[p] = graph.pinLinks[p] \ ({l} \cap EndsAt(graph, p))
    BY <1>0, <2>1, DisconnectedFields
  <2>4. ASSUME NEW p \in Pin PROVE IsFiniteSet(graph'.pinLinks[p])
    <3>1. graph'.pinLinks[p] \in SUBSET graph.pinLinks[p]
      BY <2>3
    <3> QED BY <1>0, <3>1, FS_Subset
  <2> QED BY <1>0, <2>1, <2>2, <2>4 DEF NodesInv
<1>7. CASE UNCHANGED graphVars
  BY <1>7 DEF graphVars, NodesInv
<1> QED BY <1>1, <1>2, <1>3, <1>4, <1>5, <1>6, <1>7 DEF GraphNext

LEMMA NodesSpecInv == GraphSpec => [](GraphInv /\ NodesInv)
<1>1. GraphInit => NodesInv
  <2> SUFFICES ASSUME GraphInit PROVE NodesInv
    OBVIOUS
  <2>1. graph.nodes = << >> /\ \A p \in Pin : graph.pinLinks[p] = {}
    BY DEF GraphInit, NewGraph
  <2>2. Injective(<< >>) /\ ToSet(<< >>) = {} /\ << >> \in Seq(Node) /\ IsFiniteSet({})
    BY FS_EmptySet DEF Injective, ToSet
  <2> QED BY <2>1, <2>2 DEF NodesInv
<1> QED BY <1>1, InitInv, NextInv, NodesNextInv, PTL DEF GraphSpec

(* sort() gives up only where there is no order of evaluation at all, and      *)
(* otherwise finds one, for graphs of any size.                               *)
THEOREM SortAlwaysFindsAnOrder == GraphSpec => []SortFindsAnOrder
<1>1. GraphInv /\ NodesInv => SortFindsAnOrder
  <2> SUFFICES ASSUME GraphInv, NodesInv PROVE SortFindsAnOrder
    OBVIOUS
  <2> DEFINE h == [graph EXCEPT !.isSorted = FALSE]
             orders(g) == {s \in SetToSeqs(ToSet(g.nodes)) : RespectsLinks(g, s)}
  <2>1. /\ Sortable(h) /\ ~h.isSorted /\ h.nodes = graph.nodes /\ Links(h) = Links(graph)
        /\ Sources(h) = Sources(graph)
        /\ \A s : RespectsLinks(h, s) <=> RespectsLinks(graph, s)
    BY NodesSortable, SortedAgain
  <2> HIDE DEF h
  <2>2. IF Sources(h) \subseteq ToSet(h.nodes) /\ orders(h) # {}
        THEN Sorted(h).isSorted /\ Sorted(h).nodes \in orders(h)
        ELSE ~Sorted(h).isSorted
    BY <2>1, SortFinds
  <2>3. orders(h) = orders(graph)
    BY <2>1
  <2> HIDE DEF orders
  <2>4. IF Sources(graph) \subseteq ToSet(graph.nodes) /\ orders(graph) # {}
        THEN Sorted(h).isSorted /\ Sorted(h).nodes \in orders(graph)
        ELSE ~Sorted(h).isSorted
    BY <2>1, <2>2, <2>3
  <2> QED BY <2>4, Zenon DEF SortFindsAnOrder, Sources, orders, h
<1> QED BY <1>1, NodesSpecInv, PTL

(* A node with at most two links at each pin always leaves the graph without  *)
(* links.                                                                    *)
THEOREM UnregisterAlwaysUnlinks == GraphSpec => UnregisterUnlinks
<1> DEFINE Unlinked == \A n \in ToSet(graph.nodes) \ ToSet(graph'.nodes) : \A p \in PinsOf(n) :
                         Cardinality(graph.pinLinks[p]) <= 2 => EndsAt(graph', p) = {}
<1>1. GraphInv /\ NodesInv /\ [GraphNext]_graphVars => [Unlinked]_graphVars
  <2> SUFFICES ASSUME GraphInv, NodesInv, GraphNext,
                      NEW n \in ToSet(graph.nodes) \ ToSet(graph'.nodes), NEW p \in PinsOf(n),
                      Cardinality(graph.pinLinks[p]) <= 2
               PROVE  EndsAt(graph', p) = {}
    OBVIOUS
  <2>0. /\ GraphRecord(graph) /\ graph.nodes \in Seq(Node) /\ Injective(graph.nodes)
        /\ p \in Pin /\ Owner[p] = n /\ n \in ToSet(graph.nodes) /\ n \notin ToSet(graph'.nodes)
        /\ IsFiniteSet(graph.pinLinks[p])
    BY DEF GraphInv, NodesInv, PinsOf
  <2>1. CASE Clear
    <3>1. graph'.source = [l \in Link |-> NoPin]
      BY <2>0, <2>1 DEF Clear, Cleared, GraphRecord
    <3> QED BY <3>1 DEF EndsAt, Links
  <2>2. CASE Sort
    <3>1. ToSet(graph'.nodes) = ToSet(graph.nodes)
      BY <2>2, SortedNodes DEF Sort
    <3> QED BY <2>0, <3>1
  <2>3. ASSUME NEW m \in Node, Register(m) PROVE FALSE
    <3>1. graph'.nodes = Append(graph.nodes, m) /\ m \notin ToSet(graph.nodes)
      BY <2>0, <2>3 DEF Register, Registered, GraphRecord
    <3>3. ToSet(graph'.nodes) = ToSet(graph.nodes) \cup {m}
      <4>1. ToSet(Append(graph.nodes, m)) = ToSet(graph.nodes) \cup {m}
        BY <2>0, <3>1, AppendNew
      <4> QED BY <3>1, <4>1, Zenon
    <3> QED BY <2>0, <3>3
  <2>4. ASSUME NEW m \in Node, Unregister(m) PROVE EndsAt(graph', p) = {}
    <3>1. PICK D : /\ graph' = [Disconnected(graph, D) EXCEPT !.nodes = RemoveFirst(@, m)]
                   /\ \A q \in PinsOf(m) : Cardinality(graph.pinLinks[q] \ D)
                                             = Overlooked(Cardinality(graph.pinLinks[q]))
      BY <2>4, Zenon DEF Unregister, Unregistered
    <3>2. GraphRecord(Disconnected(graph, D)) /\ Links(Disconnected(graph, D)) = Links(graph) \ D
          /\ \A l \in Link \ D : /\ Disconnected(graph, D).source[l] = graph.source[l]
                                 /\ Disconnected(graph, D).sink[l] = graph.sink[l]
      BY <2>0, DisconnectedFields
    <3>3. Disconnected(graph, D).nodes = graph.nodes
      BY <2>0 DEF GraphRecord, Disconnected
    <3>4. /\ graph'.nodes = RemoveFirst(graph.nodes, m)
          /\ graph'.source = Disconnected(graph, D).source
          /\ graph'.sink = Disconnected(graph, D).sink
      BY <3>1, <3>2, <3>3 DEF GraphRecord
    <3>5. ToSet(graph'.nodes) = ToSet(graph.nodes) \ {m}
      BY <2>0, <3>4, RemoveFirstInjective
    <3>6. m = n
      BY <2>0, <3>5
    <3>7. Cardinality(graph.pinLinks[p] \ D) = 0
      <4>1. Cardinality(graph.pinLinks[p]) \in Nat
        BY <2>0, FS_CardinalityType
      <4>2. Overlooked(Cardinality(graph.pinLinks[p])) = 0
        BY <4>1 DEF Overlooked
      <4> QED BY <3>1, <3>6, <4>2
    <3>8. graph.pinLinks[p] \subseteq D
      <4>1. IsFiniteSet(graph.pinLinks[p] \ D)
        BY <2>0, FS_Difference
      <4> QED BY <3>7, <4>1, FS_EmptySet
    <3>9. graph.pinLinks[p] = EndsAt(graph, p)
      BY <2>0 DEF GraphInv, NodesInv, LinksAndPinsAgree, PinsAgree
    <3> QED BY <3>2, <3>4, <3>8, <3>9 DEF EndsAt, Links
  <2>5. ASSUME NEW a \in SourcePin, NEW b \in Pin \ SourcePin, Connect(a, b) PROVE FALSE
    <3>1. graph'.nodes = graph.nodes
      BY <2>0, <2>5 DEF GraphRecord, Connect, Connected
    <3> QED BY <2>0, <3>1
  <2>6. ASSUME NEW l \in Link, Disconnect(l) PROVE FALSE
    <3>1. graph'.nodes = graph.nodes
      BY <2>0, <2>6 DEF GraphRecord, Disconnect, Disconnected
    <3> QED BY <2>0, <3>1
  <2> QED BY <2>1, <2>2, <2>3, <2>4, <2>5, <2>6 DEF GraphNext
<1>2. GraphSpec => [][Unlinked]_graphVars
  BY <1>1, NodesSpecInv, PTL DEF GraphSpec
<1> QED BY <1>2 DEF UnregisterUnlinks

-----------------------------------------------------------------------------
(* GraphExplorer *)

(* Graph and nodes are replaced together, and the selection is cleared then.  *)
OneGraph ==
  /\ nodes = IF flow = None THEN {} ELSE DOMAIN flow.depth
  /\ picked \subseteq {[owner |-> owner, id |-> n] : n \in nodes}

-----------------------------------------------------------------------------
LEMMA OneGraphStays == OneGraph /\ [Next]_vars => OneGraph'
<1> SUFFICES ASSUME OneGraph, [Next]_vars PROVE OneGraph'
  OBVIOUS
<1>1. CASE UNCHANGED view
  BY <1>1 DEF OneGraph, view
<1>2. ASSUME NEW n \in Ids, Pick(n) PROVE OneGraph'
  <2>1. picked' \subseteq picked \cup {[owner |-> owner, id |-> n]} /\ n \in nodes
        /\ UNCHANGED << owner, nodes, flow >>
    BY <1>2 DEF Pick
  <2> QED BY <2>1 DEF OneGraph
<1>3. CASE EndFrame /\ request # None
  <2>1. PICK d \in Dfg : LoadAndShow(d) BY <1>3 DEF EndFrame
  <2>2. flow' = d /\ nodes' = DOMAIN d.depth /\ picked' = {} BY <2>1 DEF LoadAndShow
  <2>3. d # None BY NoneAssumption
  <2> QED BY <2>2, <2>3 DEF OneGraph
<1>4. CASE EndFrame /\ request = None BY <1>1, <1>4 DEF EndFrame, view
<1>5. CASE Dialog \/ Scan \/ (\E f \in File : ClickItem(f) \/ Show(f))
  BY <1>1, <1>5 DEF Dialog, ChooseFolder, ShowFolder, ScanAgain, Scan, ClickItem, Show, view
<1>6. CASE EventsRead \/ WindowsDrawn \/ UpdateMessageBus \/ EndFrameDangling
  BY <1>1, <1>6 DEF EventsRead, WindowsDrawn, UpdateMessageBus, EndFrameDangling, view
<1>7. CASE UNCHANGED vars BY <1>1, <1>7 DEF vars, view
<1> QED BY <1>2, <1>3, <1>4, <1>5, <1>6, <1>7 DEF Next, Frame, User

(* No window, hull or wavefront looks up a payload that the shown graph does *)
(* not have, whatever is loaded, shown again, or selected in between.        *)
THEOREM LookupsAlwaysSucceed == Spec => []LookupsSucceed
<1>1. Init => OneGraph BY DEF Init, OneGraph
<1>2. OneGraph => LookupsSucceed
  BY DEF OneGraph, LookupsSucceed
<1> QED BY <1>1, <1>2, OneGraphStays, PTL DEF Spec

-----------------------------------------------------------------------------
(* Which trees are referred to. The nodes of the graph, and the item that was *)
(* clicked, belong to the tree of the window when they belong to that of the *)
(* explorer.                                                                 *)
Items(S) == S = {} \/ \E i \in Item : S = {i}

OwnedInWindow ==
  /\ explorerTree \in Tree /\ windowTree \in Tree
  /\ Items(held)
  /\ request # None => request \in Item
  /\ owner # None => owner \in Item
  /\ nodes # {} => owner # None
  /\ \A i \in {request, owner} \ {None} : i.tree = explorerTree => i.tree = windowTree

TreesInv == OneGraph /\ OwnedInWindow

(* A scan makes a tree that nothing refers to.                               *)
LEMMA ScannedIsNew ==
  ASSUME TreesInv
  PROVE  ScannedTree \in Tree /\ ScannedTree \notin Known
<1> USE DEF TreesInv, OwnedInWindow
<1>1. PICK h \in Tree : \A i \in held : i.tree = h
  <2>1. CASE held = {} BY <2>1
  <2>2. CASE held # {}
    <3>1. PICK i \in Item : held = {i} BY <2>2 DEF Items
    <3> QED BY <3>1 DEF Item
  <2> QED BY <2>1, <2>2
<1>2. PICK o \in Tree : owner # None => owner.tree = o
  BY DEF Item
<1>3. picked # {} => owner # None
  BY DEF OneGraph
<1>4. \A n \in picked : n.owner.tree = o
  BY <1>2, <1>3 DEF OneGraph
<1>5. PICK r \in Tree : request # None => request.tree = r
  BY DEF Item
<1>6. Known \subseteq {explorerTree, windowTree, h, o, r}
  BY <1>1, <1>2, <1>4, <1>5 DEF Known
<1>7. \E t \in Tree : t \notin Known
  BY <1>6, TreeAssumption
<1> QED BY <1>7 DEF ScannedTree

LEMMA OwnedStays == TreesInv /\ [Next]_vars => OwnedInWindow'
<1> SUFFICES ASSUME TreesInv, [Next]_vars PROVE OwnedInWindow'
  OBVIOUS
<1> USE DEF TreesInv, OwnedInWindow
<1>1. CASE UNCHANGED << trees, request, owner, nodes >>
  BY <1>1 DEF trees
<1>2. CASE ShowFolder
  BY <1>2 DEF ShowFolder, view
<1>3. CASE ChooseFolder \/ ScanAgain \/ Scan
  <2>1. \A i \in {request, owner} \ {None} : i.tree \in Known BY DEF Known
  <2>2. explorerTree' = ScannedTree /\ UNCHANGED << windowTree, held, request, owner, nodes >>
    BY <1>3 DEF ChooseFolder, ScanAgain, Scan, view
  <2> QED BY <2>1, <2>2, ScannedIsNew
<1>4. ASSUME NEW f \in File, ClickItem(f) PROVE OwnedInWindow'
  <2>1. Items(held') BY <1>4 DEF ClickItem, Items, Item
  <2> QED BY <1>4, <2>1 DEF ClickItem, view
<1>5. ASSUME NEW f \in File, Show(f) PROVE OwnedInWindow'
  BY <1>5 DEF Show, trees, view, Item
<1>6. CASE EndFrame /\ request # None
  <2>1. PICK d \in Dfg : LoadAndShow(d) BY <1>6 DEF EndFrame
  <2>2. owner' = request BY <2>1 DEF LoadAndShow
  <2>3. request' = None /\ UNCHANGED trees BY <1>6 DEF EndFrame
  <2> QED BY <1>6, <2>2, <2>3 DEF trees
<1>7. CASE EndFrame /\ request = None
  BY <1>7 DEF EndFrame, trees, view
<1>8. ASSUME NEW n \in Ids, Pick(n) PROVE OwnedInWindow'
  BY <1>1, <1>8 DEF Pick
<1>9. CASE EventsRead \/ WindowsDrawn \/ UpdateMessageBus \/ EndFrameDangling \/ UNCHANGED vars
  BY <1>1, <1>9 DEF EventsRead, WindowsDrawn, UpdateMessageBus, EndFrameDangling, vars, view
<1> QED BY <1>2, <1>3, <1>4, <1>5, <1>6, <1>7, <1>8, <1>9 DEF Next, Frame, Dialog, User

LEMMA TreesInvAlways == Spec => []TreesInv
<1>1. Init => TreesInv
  BY TreeAssumption DEF Init, TreesInv, OneGraph, OwnedInWindow, Items
<1>2. TreesInv /\ [Next]_vars => TreesInv'
  BY OneGraphStays, OwnedStays DEF TreesInv
<1> QED BY <1>1, <1>2, PTL DEF Spec

Kept == explorerTree' # explorerTree /\ windowTree' = windowTree
          => \A i \in PointedTo : Alive(i) => Alive(i)'

LEMMA ScanKeeps == TreesInv /\ [Next]_vars => [Kept]_vars
<1> SUFFICES ASSUME TreesInv, Next, explorerTree' # explorerTree,
                    windowTree' = windowTree, NEW i \in PointedTo, Alive(i)
             PROVE  Alive(i)'
  BY DEF Kept
<1> USE DEF TreesInv, OwnedInWindow
<1>1. i.tree = windowTree \/ i \in held
  BY DEF Alive, PointedTo
<1>2. CASE ChooseFolder \/ ScanAgain \/ Scan
  <2>1. UNCHANGED << windowTree, held >>
    BY <1>2 DEF ChooseFolder, ScanAgain, Scan, view
  <2> QED BY <1>1, <2>1 DEF Alive
<1>3. CASE ShowFolder
  BY <1>3 DEF ShowFolder
<1>4. ASSUME NEW f \in File, ClickItem(f) \/ Show(f) PROVE FALSE
  BY <1>4 DEF ClickItem, Show, trees
<1>5. ASSUME NEW n \in Ids, Pick(n) PROVE FALSE
  BY <1>5 DEF Pick, trees
<1>6. CASE Frame
  BY <1>6 DEF Frame, EventsRead, WindowsDrawn, UpdateMessageBus, EndFrame, EndFrameDangling, trees
<1> QED BY <1>2, <1>3, <1>4, <1>5, <1>6 DEF Next, Dialog, User

(* A scan replaces the tree of the explorer. The item that owns the nodes of *)
(* the graph is still in the tree of the window or in the selection, wherever *)
(* between them the folder dialog is with the trees of a new folder.         *)
THEOREM ScanAlwaysKeepsTheNodes == Spec => ScanKeepsTheNodes
<1>1. Spec => [][Kept]_vars
  BY TreesInvAlways, ScanKeeps, PTL DEF Spec
<1> QED BY <1>1 DEF ScanKeepsTheNodes, Kept

-----------------------------------------------------------------------------
(* Sorting lists every node once, and those of less depth before others.     *)
LEMMA SortLists ==
  ASSUME NEW S, IsFiniteSet(S), NEW depth, NEW s \in ByDepth(S, depth)
  PROVE  /\ s \in [1 .. Cardinality(S) -> S]
         /\ \A x \in S : \E i \in DOMAIN s : s[i] = x
         /\ \A i, j \in DOMAIN s : i < j => s[i] # s[j] /\ depth[s[i]] <= depth[s[j]]
<1>1. s \in SetToSeqs(S) /\ \A i, j \in DOMAIN s : i < j => depth[s[i]] <= depth[s[j]]
  BY DEF ByDepth
<1>2. s \in Seq(S) /\ Injective(s) /\ ToSet(s) = S /\ Len(s) = Cardinality(S)
  BY <1>1, SetToSeqsFacts
<1>3. s \in [1 .. Cardinality(S) -> S] /\ DOMAIN s = 1 .. Len(s)
  BY <1>2, LenProperties
<1>4. \A x \in S : \E i \in DOMAIN s : s[i] = x BY <1>2 DEF ToSet
<1>5. \A i, j \in DOMAIN s : i < j => s[i] # s[j] BY <1>2, <1>3 DEF Injective
<1> QED BY <1>1, <1>3, <1>4, <1>5

(* What recreate_visualization_scene_graph() leaves in the scene.            *)
LEMMA RecreatedAgree ==
  ASSUME OneGraph, flow \in Dfg \cup {None}, UNCHANGED view, hulls' \in Recreated
  PROVE  HullsAgree'
<1> SUFFICES ASSUME flow # None PROVE HullsAgree'
  BY DEF HullsAgree, view
<1> DEFINE S == nodes \cap flow.solid
<1>1. IsFiniteSet(S)
  <2>1. IsFiniteSet(nodes) BY DfgAssumption DEF OneGraph
  <2> QED BY <2>1, FS_Subset
<1>2. PICK s \in ByDepth(S, flow.depth) :
        hulls' = [k \in DOMAIN s |-> [flow |-> flow, id |-> s[k]]]
  BY DEF Recreated
<1>3. /\ s \in [1 .. Cardinality(S) -> S]
      /\ \A x \in S : \E i \in DOMAIN s : s[i] = x
      /\ \A i, j \in DOMAIN s : i < j => s[i] # s[j] /\ flow.depth[s[i]] <= flow.depth[s[j]]
  BY <1>1, <1>2, SortLists
<1>4. DOMAIN hulls' = DOMAIN s BY <1>2
<1>5. ToSet(hulls') = [flow : {flow}, id : S]
  <2>1. ToSet(hulls') = {hulls'[k] : k \in DOMAIN s} BY <1>4 DEF ToSet
  <2>2. \A k \in DOMAIN s : hulls'[k] = [flow |-> flow, id |-> s[k]] /\ s[k] \in S
    BY <1>2, <1>3
  <2>3. ASSUME NEW h \in [flow : {flow}, id : S] PROVE \E k \in DOMAIN s : h = hulls'[k]
    <3>1. h = [flow |-> flow, id |-> h.id] /\ h.id \in S OBVIOUS
    <3>2. PICK k \in DOMAIN s : s[k] = h.id BY <1>3, <3>1
    <3>3. hulls'[k] = h BY <2>2, <3>1, <3>2
    <3> QED BY <3>3
  <2>4. ASSUME NEW k \in DOMAIN s PROVE hulls'[k] \in [flow : {flow}, id : S]
    <3>1. hulls'[k] = [flow |-> flow, id |-> s[k]] /\ s[k] \in S BY <2>2
    <3> HIDE DEF S
    <3> QED BY <3>1
  <2> HIDE DEF S
  <2> QED BY <2>1, <2>3, <2>4
<1>6. ASSUME NEW i \in DOMAIN hulls', NEW j \in DOMAIN hulls', i < j
      PROVE  /\ hulls'[i] # hulls'[j]
             /\ flow.depth[hulls'[i].id] <= flow.depth[hulls'[j].id]
  <2>1. hulls'[i].id = s[i] /\ hulls'[j].id = s[j] BY <1>2, <1>4
  <2>2. s[i] # s[j] /\ flow.depth[s[i]] <= flow.depth[s[j]] BY <1>3, <1>4, <1>6
  <2> QED BY <2>1, <2>2
<1> QED BY <1>5, <1>6 DEF HullsAgree, view

(* The only message there is announces a new graph, and as long as none is   *)
(* queued the hulls are those of the last one.                               *)
HullsInv ==
  /\ OneGraph
  /\ flow \in Dfg \cup {None}
  /\ messages \in Seq({"graph_loaded"})
  /\ HullsAgreeOrQueued

LEMMA HullsInvStays == HullsInv /\ [Next]_vars => HullsInv'
<1> SUFFICES ASSUME HullsInv, [Next]_vars PROVE HullsInv'
  OBVIOUS
<1>1. OneGraph' BY OneGraphStays DEF HullsInv
<1>2. CASE UNCHANGED << nodes, flow, messages, hulls >>
  BY <1>1, <1>2 DEF HullsInv, HullsAgreeOrQueued, HullsAgree
<1>3. CASE UpdateMessageBus
  <2>1. UNCHANGED << owner, nodes, flow, picked >> BY <1>3 DEF UpdateMessageBus, view
  <2>2. messages' = << >> BY <1>3 DEF UpdateMessageBus
  <2>3. CASE "graph_loaded" \in ToSet(messages)
    <3>1. hulls' \in Recreated BY <1>3, <2>3 DEF UpdateMessageBus
    <3>2. HullsAgree' BY <2>1, <3>1, RecreatedAgree DEF HullsInv, view
    <3> QED BY <1>1, <2>1, <2>2, <3>2 DEF HullsInv, HullsAgreeOrQueued
  <2>4. CASE "graph_loaded" \notin ToSet(messages)
    <3>1. messages = << >>
      <4>1. \A i \in DOMAIN messages : messages[i] = "graph_loaded" BY DEF HullsInv
      <4>2. DOMAIN messages = {} BY <2>4, <4>1 DEF ToSet
      <4> QED BY <4>2 DEF HullsInv
    <3>2. hulls' = hulls BY <1>3, <2>4 DEF UpdateMessageBus
    <3> QED BY <1>1, <2>1, <2>2, <3>1, <3>2 DEF HullsInv, HullsAgreeOrQueued, HullsAgree
  <2> QED BY <2>3, <2>4
<1>4. CASE EndFrame /\ request # None
  <2>1. PICK d \in Dfg : LoadAndShow(d) BY <1>4 DEF EndFrame
  <2>2. flow' = d /\ messages' = Append(messages, "graph_loaded")
    BY <2>1 DEF LoadAndShow
  <2>3. messages' \in Seq({"graph_loaded"}) /\ messages' # << >>
    BY <2>2 DEF HullsInv
  <2> QED BY <1>1, <2>2, <2>3 DEF HullsInv, HullsAgreeOrQueued
<1>5. CASE EndFrame /\ request = None
  BY <1>2, <1>5 DEF EndFrame, view
<1>6. CASE Dialog \/ Scan \/ (\E f \in File : ClickItem(f) \/ Show(f))
            \/ (\E n \in Ids : Pick(n))
  BY <1>2, <1>6 DEF Dialog, ChooseFolder, ShowFolder, ScanAgain, Scan, ClickItem, Show, Pick, view
<1>7. CASE EventsRead \/ WindowsDrawn \/ EndFrameDangling \/ UNCHANGED vars
  BY <1>2, <1>7 DEF EventsRead, WindowsDrawn, EndFrameDangling, vars, view
<1> QED BY <1>3, <1>4, <1>5, <1>6, <1>7 DEF Next, Frame, User

(* However often graphs are loaded and shown: the scene has exactly the hulls *)
(* of the newest one, from left to right by depth, or a message says that it *)
(* will.                                                                    *)
THEOREM HullsAlwaysAgreeOrQueued == Spec => []HullsAgreeOrQueued
<1>1. Init => HullsInv
  BY DEF Init, HullsInv, OneGraph, HullsAgreeOrQueued, HullsAgree
<1>2. HullsInv => HullsAgreeOrQueued BY DEF HullsInv
<1> QED BY <1>1, <1>2, HullsInvStays, PTL DEF Spec
=============================================================================
