------------------------------ MODULE LinkGraph ------------------------------
(***************************************************************************)
(* The graph of erhe::graph as a value: nodes, the links between their     *)
(* pins, and what each operation of Graph makes of it.                     *)
(*                                                                         *)
(* A link knows its two pins, a pin knows its links, and the graph owns    *)
(* the links: three records that every operation has to keep in step.      *)
(* Links and nodes are named by raw pointers.  A link that is destroyed    *)
(* leaves its address to the next one.                                     *)
(***************************************************************************)
EXTENDS Naturals, Sequences, FiniteSets, SequencesExt

CONSTANTS
  Node,       \* the graph nodes
  Pin,        \* the pins of all nodes
  SourcePin,  \* the output pins
  Owner,      \* m_owner_node of every pin
  Key,        \* m_key of every pin: what may be connected to what
  Link,       \* the addresses that a link may have
  NoPin       \* the null pointer

ASSUME PinsAssumption ==
  /\ SourcePin \subseteq Pin
  /\ NoPin \notin Pin
  /\ Owner \in [Pin -> Node]

InputsOf(n) == {p \in Pin \ SourcePin : Owner[p] = n}
PinsOf(n) == {p \in Pin : Owner[p] = n}

(* nodes is m_nodes; a link without a source is not in m_links. The order of *)
(* the links of a pin matters to one loop only (Unregistered).              *)
Graph == [nodes : Seq(Node),
          source : [Link -> SourcePin \cup {NoPin}],
          sink : [Link -> (Pin \ SourcePin) \cup {NoPin}],
          pinLinks : [Pin -> SUBSET Link],
          isSorted : BOOLEAN]

NewGraph == [nodes |-> << >>,
             source |-> [l \in Link |-> NoPin],
             sink |-> [l \in Link |-> NoPin],
             pinLinks |-> [p \in Pin |-> {}],
             isSorted |-> FALSE]

Links(g) == {l \in Link : g.source[l] # NoPin}
EndsAt(g, p) == {l \in Links(g) : p \in {g.source[l], g.sink[l]}}

-----------------------------------------------------------------------------
(* clear(): the links are destroyed without telling the pins. *)
Cleared(g) == [g EXCEPT !.nodes = << >>,
                        !.source = [l \in Link |-> NoPin],
                        !.sink = [l \in Link |-> NoPin],
                        !.isSorted = TRUE]

(* register_node() *)
Registered(g, n) == [g EXCEPT !.nodes = Append(@, n)]

(* connect(): a new link at the free address l. *)
Connected(g, l, p, q) ==
  [g EXCEPT !.source[l] = p, !.sink[l] = q,
            !.pinLinks = [r \in Pin |-> IF r \in {p, q} THEN @[r] \cup {l} ELSE @[r]]]

(* Mutant: only the sink pin forgets the links. *)
DisconnectedAtSink(g, D) ==
  [g EXCEPT !.source = [l \in Link |-> IF l \in D THEN NoPin ELSE @[l]],
            !.sink = [l \in Link |-> IF l \in D THEN NoPin ELSE @[l]],
            !.pinLinks = [p \in Pin |-> IF p \in SourcePin THEN @[p]
                                        ELSE @[p] \ (D \cap EndsAt(g, p))]]

(* disconnect(), called with every link of D: a link that the graph does not *)
(* have is refused.                                                         *)
Disconnected(g, D) ==
  [g EXCEPT !.source = [l \in Link |-> IF l \in D THEN NoPin ELSE @[l]],
            !.sink = [l \in Link |-> IF l \in D THEN NoPin ELSE @[l]],
            !.pinLinks = [p \in Pin |-> @[p] \ (D \cap EndsAt(g, p))]]

(* How many of the k links of a pin unregister_node() does not disconnect.  *)
(* disconnect() erases from the vector that the loop walks: every second    *)
(* link moves into a place the loop has passed, but the last one is still   *)
(* found in its old place behind the new end of the vector.                 *)
Overlooked(k) == IF k = 0 THEN 0 ELSE (k - 1) \div 2

(* Mutant: the loop misses every link that moved. *)
UnregisteredSkipping(g, n) ==
  LET AtPins == UNION {g.pinLinks[p] : p \in PinsOf(n)}
  IN  {[Disconnected(g, D) EXCEPT !.nodes = RemoveFirst(@, n)] :
         D \in {D \in SUBSET AtPins :
                  \A p \in PinsOf(n) :
                    Cardinality(g.pinLinks[p] \ D) = Cardinality(g.pinLinks[p]) \div 2}}

(* unregister_node(): the possible graphs. *)
Unregistered(g, n) ==
  LET AtPins == UNION {g.pinLinks[p] : p \in PinsOf(n)}
  IN  {[Disconnected(g, D) EXCEPT !.nodes = RemoveFirst(@, n)] :
         D \in {D \in SUBSET AtPins :
                  \A p \in PinsOf(n) :
                    Cardinality(g.pinLinks[p] \ D) = Overlooked(Cardinality(g.pinLinks[p]))}}

-----------------------------------------------------------------------------
(* Mutant: one placed source is enough. *)
AnyInputReady(g, placed, n) ==
  \A p \in InputsOf(n) :
    g.pinLinks[p] = {} \/ \E l \in g.pinLinks[p] : Owner[g.source[l]] \in placed

(* Everything that n takes its input from has its place. *)
InputsReady(g, placed, n) ==
  \A p \in InputsOf(n) : \A l \in g.pinLinks[p] : Owner[g.source[l]] \in placed

(* One round of sort(): the first unsorted node whose inputs are ready.     *)
PlaceNext(g, order) ==
  LET placed == ToSet(order)
      ready == {i \in DOMAIN g.nodes :
                  g.nodes[i] \notin placed /\ InputsReady(g, placed, g.nodes[i])}
  IN  IF ready = {} THEN order ELSE Append(order, g.nodes[Min(ready)])

(* sort(): as many rounds as there are nodes. When one finds no node the     *)
(* graph is not acyclic, and stays as it is.                                *)
Sorted(g) ==
  LET order[k \in Nat] == IF k = 0 THEN << >> ELSE PlaceNext(g, order[k - 1])
      done == order[Len(g.nodes)]
  IN  IF g.isSorted \/ Len(done) < Len(g.nodes) THEN g
      ELSE [g EXCEPT !.nodes = done, !.isSorted = TRUE]

-----------------------------------------------------------------------------
(* What the operations promise *)

(* The pins in S and the links name each other. remove_link() erases the    *)
(* end of the vector when a pin does not have the link.                     *)
PinsAgree(g, S) == \A p \in S : g.pinLinks[p] = EndsAt(g, p)

(* Every node comes after the nodes it takes input from. *)
RespectsLinks(g, order) ==
  \A l \in Links(g) : \A i, j \in DOMAIN order :
    order[i] = Owner[g.source[l]] /\ order[j] = Owner[g.sink[l]] => i < j
=============================================================================
