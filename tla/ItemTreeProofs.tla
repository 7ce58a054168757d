--------------------------- MODULE ItemTreeProofs ----------------------------
(***************************************************************************)
(* Lemmas about the item tree, for every finite set of items: what each    *)
(* operation does to the redundant links, to cycles and to the depths.     *)
(***************************************************************************)
EXTENDS ItemTree, SequenceLemmas

-----------------------------------------------------------------------------
(* Trees *)

(* The part of the invariant that says which lists the links make up. *)
Consistent(t) == t \in Tree /\ LinksAgreeIn(t) /\ NoDuplicateChildrenIn(t)

(* The children vectors agree with the parent links when the first is free  *)
(* of duplicates and holds the items of the second: what each operation has  *)
(* to show of its result.                                                   *)
LEMMA ConsistentIntro ==
  ASSUME NEW t, t.parent \in [Item -> ItemOrNone],
         t.children \in [Item -> Seq(Item)], t.depth \in [Item -> Nat],
         t = [parent |-> t.parent, children |-> t.children, depth |-> t.depth],
         \A p \in Item : Injective(t.children[p])
                        /\ ToSet(t.children[p]) = {x \in Item : t.parent[x] = p}
  PROVE  Consistent(t)
<1>1. t \in Tree
  BY DEF Tree
<1>2. LinksAgreeIn(t)
  BY DEF LinksAgreeIn
<1>3. NoDuplicateChildrenIn(t)
  BY DEF NoDuplicateChildrenIn, Injective
<1> QED BY <1>1, <1>2, <1>3 DEF Consistent

LEMMA ConsistentElim ==
  ASSUME NEW t, Consistent(t)
  PROVE  /\ t.parent \in [Item -> ItemOrNone]
         /\ t.children \in [Item -> Seq(Item)]
         /\ t.depth \in [Item -> Nat]
         /\ t = [parent |-> t.parent, children |-> t.children, depth |-> t.depth]
         /\ \A p \in Item : /\ Injective(t.children[p])
                           /\ ToSet(t.children[p]) = {x \in Item : t.parent[x] = p}
<1>1. t \in Tree
  BY DEF Consistent
<1>2. /\ t.parent \in [Item -> ItemOrNone]
      /\ t.children \in [Item -> Seq(Item)]
      /\ t.depth \in [Item -> Nat]
      /\ t = [parent |-> t.parent, children |-> t.children, depth |-> t.depth]
  BY <1>1 DEF Tree
<1>3. ASSUME NEW p \in Item
      PROVE  /\ Injective(t.children[p])
             /\ ToSet(t.children[p]) = {x \in Item : t.parent[x] = p}
  <2>1. Injective(t.children[p])
    BY DEF Consistent, NoDuplicateChildrenIn, Injective
  <2>2. t.children[p] \in Seq(Item)
    BY <1>2
  <2>3. \A x : x \in ToSet(t.children[p]) => x \in Item
    BY <2>2, ElementOfSeq, ToSetDef
  <2>4. \A x \in Item : x \in ToSet(t.children[p]) <=> t.parent[x] = p
    BY DEF Consistent, LinksAgreeIn
  <2> QED BY <2>1, <2>3, <2>4
<1> QED BY <1>2, <1>3

(* Whatever set_depth_recursive stores, it touches no link. *)
LEMMA SetDepthRecursiveLinks ==
  ASSUME NEW t, t \in Tree, NEW x \in Item, NEW d \in Nat
  PROVE  LET u == SetDepthRecursive(t, x, d) IN
         /\ u.parent = t.parent /\ u.children = t.children
         /\ u.depth \in [Item -> Nat] /\ u \in Tree
<1> DEFINE wave == DepthWave(t, x, d)
           Level(y) == {k \in 0 .. Cardinality(Item) : y \in wave[k]}
           depth == [y \in Item |-> IF Level(y) = {} THEN t.depth[y]
                                   ELSE d + CHOOSE k \in Level(y) : TRUE]
<1> HIDE DEF wave
<1>1. SetDepthRecursive(t, x, d) = [t EXCEPT !.depth = depth]
  BY DEF SetDepthRecursive, wave
<1>2. \A y \in Item : depth[y] \in Nat
  <2> TAKE y \in Item
  <2>1. CASE Level(y) = {}
    BY <2>1 DEF Tree
  <2>2. CASE Level(y) # {}
    <3>1. (CHOOSE k \in Level(y) : TRUE) \in Level(y)
      BY <2>2
    <3> HIDE DEF Level
    <3>2. \A k \in Level(y) : k \in Nat
      BY DEF Level
    <3> QED BY <2>2, <3>1, <3>2
  <2> QED BY <2>1, <2>2
<1>3. depth \in [Item -> Nat]
  BY <1>2
<1> HIDE DEF depth
<1> QED BY <1>1, <1>3 DEF Tree

(* Moving x below p, wherever in the list, keeps the links in step. *)
LEMMA RelinkedConsistent ==
  ASSUME NEW t, Consistent(t), NEW x \in Item, NEW p \in ItemOrNone,
         NEW position \in Nat, t.parent[x] # p
  PROVE  Consistent(Relinked(t, x, p, position))
<1> DEFINE old == t.parent[x]
           mid == RemoveChild(t.children, old, x)
           new == AddChild(mid, p, x, position)
           u == Relinked(t, x, p, position)
           under(q) == {y \in Item : t.parent[y] = q}
<1>1. /\ t.parent \in [Item -> ItemOrNone]
      /\ t.children \in [Item -> Seq(Item)]
      /\ t.depth \in [Item -> Nat]
      /\ t = [parent |-> t.parent, children |-> t.children, depth |-> t.depth]
      /\ \A q \in Item : Injective(t.children[q]) /\ ToSet(t.children[q]) = under(q)
  BY ConsistentElim
<1>2. /\ mid \in [Item -> Seq(Item)]
      /\ \A q \in Item : Injective(mid[q]) /\ ToSet(mid[q]) = under(q) \ {x}
  <2>1. CASE old = NoItem
    <3>1. mid = t.children
      BY <2>1 DEF RemoveChild
    <3>2. \A q \in Item : x \notin under(q)
      BY <2>1, NoItemAssumption
    <3> QED BY <1>1, <3>1, <3>2
  <2>2. CASE old # NoItem
    <3>1. old \in Item
      BY <1>1, <2>2 DEF ItemOrNone
    <3>2. mid = [t.children EXCEPT ![old] = RemoveFirst(t.children[old], x)]
      BY <2>2 DEF RemoveChild
    <3>3. /\ RemoveFirst(t.children[old], x) \in Seq(Item)
          /\ Injective(RemoveFirst(t.children[old], x))
          /\ ToSet(RemoveFirst(t.children[old], x)) = ToSet(t.children[old]) \ {x}
      BY <1>1, <3>1, RemoveFirstInjective
    <3>4. mid \in [Item -> Seq(Item)]
      BY <1>1, <3>2, <3>3
    <3>5. \A q \in Item : q # old => x \notin under(q)
      OBVIOUS
    <3>6. ASSUME NEW q \in Item
          PROVE  Injective(mid[q]) /\ ToSet(mid[q]) = under(q) \ {x}
      <4>1. CASE q = old
        BY <1>1, <3>1, <3>2, <3>3, <4>1
      <4>2. CASE q # old
        <5>1. mid[q] = t.children[q]
          BY <1>1, <3>2, <4>2
        <5>2. under(q) \ {x} = under(q)
          BY <3>5, <4>2
        <5> HIDE DEF mid, under
        <5> QED BY <1>1, <5>1, <5>2
      <4> QED BY <4>1, <4>2
    <3> QED BY <3>4, <3>6
  <2> QED BY <2>1, <2>2
<1> HIDE DEF mid
<1>3. /\ new \in [Item -> Seq(Item)]
      /\ \A q \in Item : /\ Injective(new[q])
                        /\ ToSet(new[q]) = IF q = p THEN (under(q) \ {x}) \cup {x}
                                                    ELSE under(q) \ {x}
  <2>1. CASE p = NoItem
    BY <2>1, <1>2, NoItemAssumption DEF AddChild
  <2>2. CASE p # NoItem
    <3> DEFINE k == 1 + IF position < Len(mid[p]) THEN position ELSE Len(mid[p])
    <3>1. p \in Item /\ mid[p] \in Seq(Item) /\ Injective(mid[p]) /\ x \notin ToSet(mid[p])
      BY <2>2, <1>2 DEF ItemOrNone
    <3>2. k \in 1 .. Len(mid[p]) + 1
      BY <3>1, LenProperties
    <3>3. new = [mid EXCEPT ![p] = InsertAt(mid[p], k, x)]
      BY <2>2 DEF AddChild
    <3> HIDE DEF k
    <3>4. /\ InsertAt(mid[p], k, x) \in Seq(Item)
          /\ Injective(InsertAt(mid[p], k, x))
          /\ ToSet(InsertAt(mid[p], k, x)) = ToSet(mid[p]) \cup {x}
      BY <3>1, <3>2, InsertAtInjective
    <3> DEFINE longer == InsertAt(mid[p], k, x)
    <3>5. longer \in Seq(Item) /\ Injective(longer) /\ ToSet(longer) = ToSet(mid[p]) \cup {x}
      BY <3>4
    <3>6. new = [mid EXCEPT ![p] = longer]
      BY <3>3
    <3> HIDE DEF longer, new, under
    <3>7. new \in [Item -> Seq(Item)]
      BY <1>2, <3>5, <3>6
    <3>8. ASSUME NEW q \in Item
          PROVE  /\ Injective(new[q])
                 /\ ToSet(new[q]) = IF q = p THEN (under(q) \ {x}) \cup {x}
                                    ELSE under(q) \ {x}
      <4>1. CASE q = p
        <5>1. new[q] = longer
          BY <1>2, <3>1, <3>6, <4>1
        <5> QED BY <1>2, <3>5, <4>1, <5>1
      <4>2. CASE q # p
        <5>1. new[q] = mid[q]
          BY <1>2, <3>6, <4>2
        <5> QED BY <1>2, <4>2, <5>1
      <4> QED BY <4>1, <4>2
    <3> QED BY <3>7, <3>8
  <2> QED BY <2>1, <2>2
<1> HIDE DEF new
<1>4. u = [parent |-> [t.parent EXCEPT ![x] = p], children |-> new, depth |-> t.depth]
  BY DEF Relinked, new, mid
<1>5. \A q \in Item : {y \in Item : u.parent[y] = q}
                      = IF q = p THEN (under(q) \ {x}) \cup {x} ELSE under(q) \ {x}
  BY <1>1, <1>4
<1>6. u.parent \in [Item -> ItemOrNone]
  BY <1>1, <1>4
<1>7. u.children = new /\ u.depth = t.depth
  BY <1>4
<1>8. u = [parent |-> u.parent, children |-> u.children, depth |-> u.depth]
  BY <1>4
<1> HIDE DEF u, under
<1>9. \A q \in Item : /\ Injective(u.children[q])
                    /\ ToSet(u.children[q]) = {y \in Item : u.parent[y] = q}
  BY <1>3, <1>5, <1>7
<1>10. u.children \in [Item -> Seq(Item)] /\ u.depth \in [Item -> Nat]
  BY <1>1, <1>3, <1>7
<1>11. Consistent(u)
  BY <1>6, <1>8, <1>9, <1>10, ConsistentIntro
<1> QED BY <1>11 DEF u

LEMMA SetParentConsistent ==
  ASSUME NEW t, Consistent(t), NEW x \in Item, NEW p \in ItemOrNone, NEW position \in Nat
  PROVE  /\ Consistent(SetParent(t, x, p, position))
         /\ SetParent(t, x, p, position).parent = [t.parent EXCEPT ![x] = p]
<1>1. CASE t.parent[x] = p
  BY <1>1, ConsistentElim DEF SetParent
<1>2. CASE t.parent[x] # p
  <2> DEFINE u == Relinked(t, x, p, position)
             d == IF p = NoItem THEN 0 ELSE t.depth[p] + 1
             v == SetDepthRecursive(u, x, d)
  <2>1. Consistent(u)
    BY <1>2, RelinkedConsistent
  <2>2. d \in Nat
    BY ConsistentElim DEF ItemOrNone
  <2>3. SetParent(t, x, p, position) = v
    BY <1>2 DEF SetParent
  <2>4. u.parent = [t.parent EXCEPT ![x] = p]
    BY DEF Relinked, Consistent, Tree
  <2> HIDE DEF u, d
  <2>5. u \in Tree
    BY <2>1 DEF Consistent
  <2>6. v.parent = u.parent /\ v.children = u.children /\ v \in Tree
    BY <2>2, <2>5, SetDepthRecursiveLinks
  <2> HIDE DEF v
  <2>7. LinksAgreeIn(v) /\ NoDuplicateChildrenIn(v)
    BY <2>1, <2>6 DEF Consistent, LinksAgreeIn, NoDuplicateChildrenIn
  <2> QED BY <2>3, <2>4, <2>6, <2>7 DEF Consistent
<1> QED BY <1>1, <1>2

-----------------------------------------------------------------------------
(* Cycles *)

(* Hanging x below an item that is not in its own subtree makes no cycle.   *)
(* A cycle would be a set S closed under parents that holds x and p; the     *)
(* path from p to its root avoids x, so it is a smaller closed set inside S. *)
LEMMA AdoptionAcyclic ==
  ASSUME NEW t, t.parent \in [Item -> ItemOrNone], AcyclicIn(t),
         NEW u, NEW x \in Item, NEW p \in ItemOrNone, MayAdopt(t, p, x),
         u.parent = [t.parent EXCEPT ![x] = p]
  PROVE  AcyclicIn(u)
<1> SUFFICES ASSUME NEW S \in SUBSET Item, S # {},
                    \A y \in S : u.parent[y] \in S
             PROVE  FALSE
  BY DEF AcyclicIn
<1>1. x \in S
  <2>1. PICK y \in S : t.parent[y] \notin S
    BY DEF AcyclicIn
  <2> QED BY <2>1
<1>2. p \in S /\ p \in Item /\ p # NoItem
  BY <1>1, NoItemAssumption
<1>3. p # x /\ ~IsAncestor(t, x, p)
  BY <1>2 DEF MayAdopt
<1>4. PICK U \in SUBSET Item :
        /\ p \in U /\ x \notin U
        /\ \A y \in U : t.parent[y] # NoItem => t.parent[y] \in U
  <2>1. CASE t.parent[p] = NoItem
    <3>1. {p} \in SUBSET Item /\ x \notin {p}
      BY <1>2, <1>3
    <3> QED BY <2>1, <3>1
  <2>2. CASE t.parent[p] # NoItem
    <3>1. PICK V \in SUBSET Item : UpwardClosed(t, V) /\ t.parent[p] \in V /\ x \notin V
      BY <1>3, <2>2 DEF IsAncestor
    <3>2. V \cup {p} \in SUBSET Item /\ x \notin V \cup {p}
      BY <3>1, <1>2, <1>3
    <3> QED BY <3>1, <3>2 DEF UpwardClosed
  <2> QED BY <2>1, <2>2
<1>5. \A y \in S \cap U : t.parent[y] \in S \cap U
  <2> TAKE y \in S \cap U
  <2>1. u.parent[y] = t.parent[y]
    BY <1>4
  <2>2. t.parent[y] \in S /\ t.parent[y] # NoItem
    BY <2>1, NoItemAssumption
  <2> QED BY <2>2, <1>4
<1>6. S \cap U \in SUBSET Item /\ S \cap U # {}
  BY <1>2, <1>4
<1> QED BY <1>5, <1>6 DEF AcyclicIn

(* Taking items out makes no cycle either. *)
LEMMA DropAcyclic ==
  ASSUME NEW t, t.parent \in [Item -> ItemOrNone], AcyclicIn(t), NEW u,
         \A y \in Item : u.parent[y] \in {t.parent[y], NoItem}
  PROVE  AcyclicIn(u)
<1> SUFFICES ASSUME NEW S \in SUBSET Item, S # {},
                    \A y \in S : u.parent[y] \in S
             PROVE  FALSE
  BY DEF AcyclicIn
<1>1. \A y \in S : t.parent[y] \in S
  BY NoItemAssumption
<1> QED BY <1>1 DEF AcyclicIn

(* Short-circuiting x, as remove() does, makes no cycle: a closed set of the *)
(* new tree, with x added when a child of x is in it, was closed before.     *)
LEMMA BypassAcyclic ==
  ASSUME NEW t, t.parent \in [Item -> ItemOrNone], AcyclicIn(t), NEW u, NEW x \in Item,
         \A y \in Item : u.parent[y] = IF y = x THEN NoItem
                                       ELSE IF t.parent[y] = x THEN t.parent[x]
                                            ELSE t.parent[y]
  PROVE  AcyclicIn(u)
<1> SUFFICES ASSUME NEW S \in SUBSET Item, S # {},
                    \A y \in S : u.parent[y] \in S
             PROVE  FALSE
  BY DEF AcyclicIn
<1>1. x \notin S
  BY NoItemAssumption
<1>2. CASE \E y \in S : t.parent[y] = x
  <2>1. t.parent[x] \in S
    BY <1>1, <1>2
  <2>2. \A y \in S \cup {x} : t.parent[y] \in S \cup {x}
    BY <1>1, <2>1
  <2>3. S \cup {x} \in SUBSET Item /\ S \cup {x} # {}
    OBVIOUS
  <2> QED BY <2>2, <2>3 DEF AcyclicIn
<1>3. CASE \A y \in S : t.parent[y] # x
  <2>1. \A y \in S : t.parent[y] \in S
    BY <1>1, <1>3
  <2> QED BY <2>1 DEF AcyclicIn
<1> QED BY <1>2, <1>3

(* The subtree of x is closed: below an item of it are only items of it, and *)
(* above an item of it other than x as well.                                *)
LEMMA SubtreeClosed ==
  ASSUME NEW t, t.parent \in [Item -> ItemOrNone], NEW x \in Item
  PROVE  /\ x \in Subtree(t, x) /\ Subtree(t, x) \in SUBSET Item
         /\ \A y \in Item : t.parent[y] \in Subtree(t, x) => y \in Subtree(t, x)
         /\ \A y \in Subtree(t, x) : y # x => t.parent[y] \in Subtree(t, x)
<1>1. x \in Subtree(t, x) /\ Subtree(t, x) \in SUBSET Item
  BY DEF Subtree
<1>2. ASSUME NEW y \in Item, t.parent[y] \in Subtree(t, x)
      PROVE  y \in Subtree(t, x)
  <2>1. t.parent[y] \in Item /\ t.parent[y] # NoItem
    BY <1>1, <1>2, NoItemAssumption
  <2>2. CASE t.parent[y] = x
    BY <2>1, <2>2 DEF Subtree, IsAncestor
  <2>3. CASE IsAncestor(t, x, t.parent[y])
    <3>1. ASSUME NEW V \in SUBSET Item, UpwardClosed(t, V), t.parent[y] \in V
          PROVE  x \in V
      <4>1. t.parent[t.parent[y]] \in V
        BY <2>3, <3>1 DEF IsAncestor, UpwardClosed
      <4> QED BY <2>3, <3>1, <4>1 DEF IsAncestor
    <3> QED BY <2>1, <3>1 DEF Subtree, IsAncestor
  <2> QED BY <1>2, <2>2, <2>3 DEF Subtree
<1>3. ASSUME NEW y \in Subtree(t, x), y # x
      PROVE  t.parent[y] \in Subtree(t, x)
  <2>1. IsAncestor(t, x, y) /\ y \in Item
    BY <1>3 DEF Subtree
  <2> DEFINE q == t.parent[y]
  <2>2. q \in Item
    BY <2>1 DEF IsAncestor, ItemOrNone
  <2>3. SUFFICES ASSUME q # x PROVE IsAncestor(t, x, q)
    BY <2>2 DEF Subtree
  <2>4. t.parent[q] # NoItem
    <3>1. SUFFICES ASSUME t.parent[q] = NoItem PROVE FALSE
      OBVIOUS
    <3>2. UpwardClosed(t, {q}) /\ {q} \in SUBSET Item
      BY <3>1, <2>2 DEF UpwardClosed
    <3> QED BY <3>2, <2>1, <2>3 DEF IsAncestor
  <2>5. ASSUME NEW V \in SUBSET Item, UpwardClosed(t, V), t.parent[q] \in V
        PROVE  x \in V
    <3>1. UpwardClosed(t, V \cup {q}) /\ V \cup {q} \in SUBSET Item
      BY <2>5, <2>2 DEF UpwardClosed
    <3>2. x \in V \cup {q}
      BY <3>1, <2>1 DEF IsAncestor
    <3> QED BY <3>2, <2>3
  <2> QED BY <2>4, <2>5 DEF IsAncestor
<1> QED BY <1>1, <1>2, <1>3

-----------------------------------------------------------------------------
(* The removals *)

(* Erasing x from the list of its old parent p: needed by remove() and       *)
(* recursive_remove(), for lists c whose items are known.                    *)
Erased(k, c, p, x) ==
  /\ k \in [Item -> Seq(Item)]
  /\ \A q \in Item :
       /\ Injective(k[q])
       /\ ToSet(k[q]) = IF q = p THEN ToSet(c[q]) \ {x} ELSE ToSet(c[q])

LEMMA RemoveChildFacts ==
  ASSUME NEW c, NEW p, NEW x \in Item,
         c \in [Item -> Seq(Item)], p \in ItemOrNone,
         \A q \in Item : Injective(c[q])
  PROVE  Erased(RemoveChild(c, p, x), c, p, x)
<1>1. CASE p = NoItem
  BY <1>1, NoItemAssumption DEF RemoveChild, Erased
<1>2. CASE p # NoItem
  <2>1. p \in Item /\ c[p] \in Seq(Item) /\ Injective(c[p])
    BY <1>2 DEF ItemOrNone
  <2>2. /\ RemoveFirst(c[p], x) \in Seq(Item)
        /\ Injective(RemoveFirst(c[p], x))
        /\ ToSet(RemoveFirst(c[p], x)) = ToSet(c[p]) \ {x}
    BY <2>1, RemoveFirstInjective
  <2>3. RemoveChild(c, p, x) = [c EXCEPT ![p] = RemoveFirst(c[p], x)]
    BY <1>2 DEF RemoveChild
  <2> QED BY <2>1, <2>2, <2>3 DEF Erased
<1> QED BY <1>1, <1>2

LEMMA RecursiveRemoveConsistent ==
  ASSUME NEW t, Consistent(t), NEW x \in Item
  PROVE  Consistent(RecursiveRemoveFromTree(t, x))
<1> DEFINE S == Subtree(t, x)
           p == t.parent[x]
           left == [y \in Item |-> IF y \in S THEN << >> ELSE t.children[y]]
           kept == RemoveChild(left, p, x)
           up == [y \in Item |-> IF y \in S THEN NoItem ELSE t.parent[y]]
           dp == [y \in Item |-> IF y \in S THEN 0 ELSE t.depth[y]]
           u == [parent |-> up, children |-> kept, depth |-> dp]
<1>1. /\ t.parent \in [Item -> ItemOrNone]
      /\ t.children \in [Item -> Seq(Item)]
      /\ t.depth \in [Item -> Nat]
      /\ \A q \in Item : /\ Injective(t.children[q])
                        /\ ToSet(t.children[q]) = {y \in Item : t.parent[y] = q}
  BY ConsistentElim
<1>2. /\ x \in S /\ S \in SUBSET Item
      /\ \A y \in Item : t.parent[y] \in S => y \in S
      /\ \A y \in S : y # x => t.parent[y] \in S
  BY <1>1, SubtreeClosed
<1>3. RecursiveRemoveFromTree(t, x) = u
  BY DEF RecursiveRemoveFromTree, Dismantled
<1> HIDE DEF S
<1>4. Injective(<< >>) /\ ToSet(<< >>) = {} /\ << >> \in Seq(Item)
  BY DEF Injective, ToSet
<1>5. /\ left \in [Item -> Seq(Item)]
      /\ \A q \in Item : /\ Injective(left[q])
                        /\ ToSet(left[q]) = IF q \in S THEN {}
                                            ELSE {y \in Item : t.parent[y] = q}
  BY <1>1, <1>4
<1> HIDE DEF left
<1>6. /\ kept \in [Item -> Seq(Item)]
      /\ \A q \in Item : /\ Injective(kept[q])
                        /\ ToSet(kept[q]) = IF q = p THEN ToSet(left[q]) \ {x}
                                            ELSE ToSet(left[q])
  <2>0. left \in [Item -> Seq(Item)] /\ p \in ItemOrNone
    BY <1>1, <1>5
  <2>1. \A q \in Item : Injective(left[q])
    BY <1>5
  <2> HIDE DEF p
  <2>2. Erased(RemoveChild(left, p, x), left, p, x)
    BY <2>0, <2>1, RemoveChildFacts
  <2> QED BY <2>2 DEF Erased
<1> HIDE DEF kept
<1>7. ASSUME NEW q \in Item
      PROVE  ToSet(kept[q]) = {y \in Item : up[y] = q}
  <2>1. ASSUME NEW y \in Item
        PROVE  y \in ToSet(kept[q]) <=> up[y] = q
    <3>1. CASE y \in S
      <4>1. up[y] # q
        BY <3>1, NoItemAssumption
      <4>2. CASE y = x
        BY <4>1, <4>2, <1>5, <1>6
      <4>3. CASE y # x
        <5>1. t.parent[y] \in S
          BY <3>1, <4>3, <1>2
        <5>2. y \notin ToSet(left[q])
          BY <5>1, <1>5
        <5> QED BY <4>1, <5>2, <1>6
      <4> QED BY <4>2, <4>3
    <3>2. CASE y \notin S
      <4>1. y # x /\ up[y] = t.parent[y] /\ t.parent[y] \notin S
        BY <3>2, <1>2
      <4> QED BY <4>1, <1>5, <1>6
    <3> QED BY <3>1, <3>2
  <2>2. ToSet(kept[q]) \subseteq Item
    BY <1>5, <1>6
  <2> QED BY <2>1, <2>2
<1>8. up \in [Item -> ItemOrNone] /\ dp \in [Item -> Nat]
  BY <1>1 DEF ItemOrNone
<1> HIDE DEF up, dp
<1>9. /\ u.parent = up /\ u.children = kept /\ u.depth = dp
      /\ u = [parent |-> u.parent, children |-> u.children, depth |-> u.depth]
  OBVIOUS
<1> HIDE DEF u
<1> QED BY <1>3, <1>6, <1>7, <1>8, <1>9, ConsistentIntro

LEMMA RemoveChildrenConsistent ==
  ASSUME NEW t, Consistent(t), AcyclicIn(t), NEW x \in Item
  PROVE  Consistent(RemoveChildrenFromTree(t, x))
<1> DEFINE S == Subtree(t, x)
           kept == [y \in Item |-> IF y \in S THEN << >> ELSE t.children[y]]
           up == [y \in Item |-> IF y \in S \ {x} THEN NoItem ELSE t.parent[y]]
           dp == [y \in Item |-> IF y \in S \ {x} THEN 0 ELSE t.depth[y]]
           u == [parent |-> up, children |-> kept, depth |-> dp]
<1>1. /\ t.parent \in [Item -> ItemOrNone]
      /\ t.children \in [Item -> Seq(Item)]
      /\ t.depth \in [Item -> Nat]
      /\ \A q \in Item : /\ Injective(t.children[q])
                        /\ ToSet(t.children[q]) = {y \in Item : t.parent[y] = q}
  BY ConsistentElim
<1>2. /\ x \in S /\ S \in SUBSET Item
      /\ \A y \in Item : t.parent[y] \in S => y \in S
      /\ \A y \in S : y # x => t.parent[y] \in S
  BY <1>1, SubtreeClosed
<1>3. RemoveChildrenFromTree(t, x) = u
  BY DEF RemoveChildrenFromTree, Dismantled
<1> HIDE DEF S
<1>4. Injective(<< >>) /\ ToSet(<< >>) = {} /\ << >> \in Seq(Item)
  BY DEF Injective, ToSet
<1>5. /\ kept \in [Item -> Seq(Item)]
      /\ \A q \in Item : /\ Injective(kept[q])
                        /\ ToSet(kept[q]) = IF q \in S THEN {}
                                            ELSE {y \in Item : t.parent[y] = q}
  BY <1>1, <1>4
<1> HIDE DEF kept
<1>6. up \in [Item -> ItemOrNone] /\ dp \in [Item -> Nat]
  BY <1>1 DEF ItemOrNone
<1>8. t.parent[x] \notin S
  BY <1>2 DEF AcyclicIn
<1>7. ASSUME NEW q \in Item
      PROVE  ToSet(kept[q]) = {y \in Item : up[y] = q}
  <2>1. CASE q \in S
    <3>1. \A y \in Item : up[y] # q
      BY <2>1, <1>2, <1>8, NoItemAssumption
    <3> QED BY <2>1, <3>1, <1>5
  <2>2. CASE q \notin S
    BY <2>2, <1>2, <1>5, NoItemAssumption
  <2> QED BY <2>1, <2>2
<1> HIDE DEF up, dp
<1>9. /\ u.parent = up /\ u.children = kept /\ u.depth = dp
      /\ u = [parent |-> u.parent, children |-> u.children, depth |-> u.depth]
  OBVIOUS
<1> HIDE DEF u
<1> QED BY <1>3, <1>5, <1>6, <1>7, <1>9, ConsistentIntro

LEMMA RemoveConsistent ==
  ASSUME NEW t, Consistent(t), AcyclicIn(t), NEW x \in Item
  PROVE  Consistent(RemoveFromTree(t, x))
<1> DEFINE p == t.parent[x]
           below == Subtree(t, x) \ {x}
           under(q) == {y \in Item : t.parent[y] = q}
           tail == Reverse(t.children[x])
           handed == IF p = NoItem THEN t.children
                     ELSE [t.children EXCEPT ![p] = t.children[p] \o tail]
           kept == RemoveChild(handed, p, x)
           new == [kept EXCEPT ![x] = << >>]
           up == [y \in Item |-> IF y = x THEN NoItem
                                ELSE IF t.parent[y] = x THEN p ELSE t.parent[y]]
           dp == [y \in Item |-> IF y = x THEN 0
                                ELSE IF y \in below /\ t.depth[y] > 0
                                     THEN t.depth[y] - 1 ELSE t.depth[y]]
           u == [parent |-> up, children |-> new, depth |-> dp]
<1>1. /\ t.parent \in [Item -> ItemOrNone]
      /\ t.children \in [Item -> Seq(Item)]
      /\ t.depth \in [Item -> Nat]
      /\ \A q \in Item : /\ Injective(t.children[q])
                        /\ ToSet(t.children[q]) = under(q)
  BY ConsistentElim
<1>2. \A q \in Item : q # t.parent[q]
  <2> TAKE q \in Item
  <2>1. {q} \in SUBSET Item /\ {q} # {}
    OBVIOUS
  <2>2. \E y \in {q} : t.parent[y] \notin {q}
    BY <2>1 DEF AcyclicIn
  <2> QED BY <2>2
<1>3. RemoveFromTree(t, x) = u
  BY DEF RemoveFromTree
<1>4. Injective(<< >>) /\ ToSet(<< >>) = {} /\ << >> \in Seq(Item)
  BY DEF Injective, ToSet
<1>5. p \in ItemOrNone
  BY <1>1
<1>6. /\ handed \in [Item -> Seq(Item)]
      /\ \A q \in Item :
           /\ Injective(handed[q])
           /\ ToSet(handed[q]) = IF q = p THEN under(p) \cup under(x) ELSE under(q)
  <2>1. CASE p = NoItem
    BY <2>1, <1>1, NoItemAssumption
  <2>2. CASE p # NoItem
    <3>1. /\ p \in Item /\ t.children[p] \in Seq(Item) /\ t.children[x] \in Seq(Item)
          /\ Injective(t.children[p]) /\ Injective(t.children[x])
      BY <2>2, <1>1, <1>5 DEF ItemOrNone
    <3>2. ToSet(t.children[p]) \cap ToSet(t.children[x]) = {}
      BY <3>1, <1>1, <1>2
    <3>3. /\ t.children[p] \o tail \in Seq(Item)
          /\ Injective(t.children[p] \o tail)
          /\ ToSet(t.children[p] \o tail) = ToSet(t.children[p]) \cup ToSet(t.children[x])
      BY <3>1, <3>2, ConcatReverseInjective
    <3> DEFINE longer == t.children[p] \o tail
    <3>4. /\ longer \in Seq(Item) /\ Injective(longer)
          /\ ToSet(longer) = under(p) \cup under(x)
      BY <3>1, <3>3, <1>1
    <3>5. handed = [t.children EXCEPT ![p] = longer]
      BY <2>2
    <3> HIDE DEF longer, handed, under, tail
    <3>6. handed \in [Item -> Seq(Item)]
      BY <1>1, <3>4, <3>5
    <3>7. ASSUME NEW q \in Item
          PROVE  /\ Injective(handed[q])
                 /\ ToSet(handed[q]) = IF q = p THEN under(p) \cup under(x) ELSE under(q)
      <4>1. CASE q = p
        <5>1. handed[q] = longer
          BY <4>1, <3>1, <3>5, <1>1
        <5> QED BY <4>1, <5>1, <3>4
      <4>2. CASE q # p
        <5>1. handed[q] = t.children[q]
          BY <4>2, <3>5, <1>1
        <5> QED BY <4>2, <5>1, <1>1
      <4> QED BY <4>1, <4>2
    <3> QED BY <3>6, <3>7
  <2> QED BY <2>1, <2>2
<1> HIDE DEF handed
<1>7. /\ kept \in [Item -> Seq(Item)]
      /\ \A q \in Item : /\ Injective(kept[q])
                        /\ ToSet(kept[q]) = IF q = p THEN ToSet(handed[q]) \ {x}
                                            ELSE ToSet(handed[q])
  <2>0. handed \in [Item -> Seq(Item)]
    BY <1>6
  <2>1. \A q \in Item : Injective(handed[q])
    BY <1>6
  <2> HIDE DEF p
  <2>2. Erased(RemoveChild(handed, p, x), handed, p, x)
    BY <2>0, <2>1, <1>5, RemoveChildFacts
  <2> QED BY <2>2 DEF Erased
<1> HIDE DEF kept
<1>8. /\ new \in [Item -> Seq(Item)]
      /\ \A q \in Item :
           /\ Injective(new[q])
           /\ ToSet(new[q]) = IF q = x THEN {}
                              ELSE IF q = p THEN (under(p) \cup under(x)) \ {x}
                              ELSE under(q)
  <2> HIDE DEF under
  <2> QED BY <1>4, <1>6, <1>7
<1> HIDE DEF new
<1>9. ASSUME NEW q \in Item
      PROVE  ToSet(new[q]) = {y \in Item : up[y] = q}
  <2>1. CASE q = x
    BY <2>1, <1>2, <1>8, NoItemAssumption
  <2>2. CASE q # x /\ q = p
    BY <2>2, <1>2, <1>8, NoItemAssumption
  <2>3. CASE q # x /\ q # p
    BY <2>3, <1>8, NoItemAssumption
  <2> QED BY <2>1, <2>2, <2>3
<1>10. up \in [Item -> ItemOrNone] /\ dp \in [Item -> Nat]
  BY <1>1 DEF ItemOrNone
<1> HIDE DEF up, dp
<1>11. /\ u.parent = up /\ u.children = new /\ u.depth = dp
       /\ u = [parent |-> u.parent, children |-> u.children, depth |-> u.depth]
  OBVIOUS
<1> HIDE DEF u
<1> QED BY <1>3, <1>8, <1>9, <1>10, <1>11, ConsistentIntro

-----------------------------------------------------------------------------
(* Depths *)

(* What set_depth_recursive(d) on x reaches, level by level. *)
Reaches(wave, t, x, d) ==
  /\ wave[0] = {y \in {x} : t.depth[y] # d}
  /\ \A k \in Nat : wave[k + 1] = {y \in UNION {ToSet(t.children[z]) : z \in wave[k]} :
                                      t.depth[y] # d + (k + 1)}

(* The recursion of the model ends: DepthWave is the function it is written as. *)
LEMMA DepthWaveSteps ==
  ASSUME NEW t, t \in Tree, NEW x \in Item, NEW d \in Nat
  PROVE  Reaches(DepthWave(t, x, d), t, x, d)
<1> DEFINE Body(w, k) == {y \in IF k = 0 THEN {x}
                                ELSE UNION {ToSet(t.children[z]) : z \in w[k - 1]} :
                            t.depth[y] # d + k}
           Below(W, k) == {y \in UNION {ToSet(t.children[z]) : z \in W} :
                                             t.depth[y] # d + (k + 1)}
           step == [a \in Nat \X SUBSET Item |-> Below(a[2], a[1])]
           first == {y \in {x} : t.depth[y] # d}
<1>1. first \in SUBSET Item
  OBVIOUS
<1>2. \A z \in Item : ToSet(t.children[z]) \in SUBSET Item
  BY ElementOfSeq DEF Tree, ToSet
<1>3. step \in [Nat \X SUBSET Item -> SUBSET Item]
  BY <1>2
<1> HIDE DEF Below
<1>4. \A k \in Nat, W \in SUBSET Item : step[<<k, W>>] = Below(W, k)
  OBVIOUS
<1> HIDE DEF step
<1>5. PICK f \in [Nat -> SUBSET Item] : f[0] = first /\ \A n \in Nat : f[n + 1] = step[<<n, f[n]>>]
  <2> DEFINE D == SUBSET Item
  <2> HIDE DEF D, first
  <2>1. first \in D /\ step \in [Nat \X D -> D]
    BY <1>1, <1>3 DEF D
  <2>2. \E f : Iterates(f, D, first, step)
    BY <2>1, NatRecursion
  <2> QED BY <2>2 DEF D, Iterates
<1>6. f = [k \in Nat |-> Body(f, k)]
  <2>1. ASSUME NEW k \in Nat PROVE f[k] = Body(f, k)
    <3>1. CASE k = 0
      BY <3>1, <1>5
    <3>2. CASE k # 0
      <4>1. k - 1 \in Nat /\ (k - 1) + 1 = k
        BY <3>2
      <4>2. f[k] = Below(f[k - 1], k - 1)
        BY <4>1, <1>4, <1>5
      <4> QED BY <3>2, <4>1, <4>2 DEF Below
    <3> QED BY <3>1, <3>2
  <2> HIDE DEF Body
  <2> QED BY <2>1
<1>7. DepthWave(t, x, d) = CHOOSE g : g = [k \in Nat |-> Body(g, k)]
  BY DEF DepthWave
<1> DEFINE wave == DepthWave(t, x, d)
<1>8. wave = [k \in Nat |-> Body(wave, k)]
  BY <1>6, <1>7
<1> HIDE DEF wave, Body
<1>9. \A k \in Nat : wave[k] = Body(wave, k)
  BY <1>8
<1>10. wave[0] = first
  BY <1>9 DEF Body
<1>11. ASSUME NEW k \in Nat
       PROVE  wave[k + 1] = {y \in UNION {ToSet(t.children[z]) : z \in wave[k]} :
                                             t.depth[y] # d + (k + 1)}
  <2>1. k + 1 \in Nat /\ k + 1 # 0 /\ (k + 1) - 1 = k
    OBVIOUS
  <2> QED BY <1>9, <2>1 DEF Body
<1> QED BY <1>10, <1>11 DEF wave, Reaches

(* The depth of y is one more than that of its parent. *)
DepthFits(t, y) == t.depth[y] = IF t.parent[y] = NoItem THEN 0
                                 ELSE t.depth[t.parent[y]] + 1

(* In a tree without cycles no item is above itself. *)
LEMMA ParentOutside ==
  ASSUME NEW t, t.parent \in [Item -> ItemOrNone], AcyclicIn(t), NEW x \in Item
  PROVE  t.parent[x] \notin Subtree(t, x)
<1>1. /\ x \in Subtree(t, x) /\ Subtree(t, x) \in SUBSET Item
      /\ \A y \in Subtree(t, x) : y # x => t.parent[y] \in Subtree(t, x)
  BY SubtreeClosed
<1>2. \E y \in Subtree(t, x) : t.parent[y] \notin Subtree(t, x)
  BY <1>1 DEF AcyclicIn
<1> QED BY <1>1, <1>2

(* Where the depths below x fit, they are larger than that of x. *)
LEMMA DeeperBelow ==
  ASSUME NEW t, t \in Tree, AcyclicIn(t), NEW x \in Item,
         \A y \in Item \ {x} : DepthFits(t, y)
  PROVE  \A y \in Subtree(t, x) : y # x => t.depth[y] > t.depth[x]
<1> DEFINE S == Subtree(t, x)
           B == {y \in S : y # x /\ ~(t.depth[y] > t.depth[x])}
<1>1. /\ t.parent \in [Item -> ItemOrNone] /\ t.depth \in [Item -> Nat]
  BY DEF Tree
<1>2. /\ S \in SUBSET Item /\ \A y \in S : y # x => t.parent[y] \in S
  BY <1>1, SubtreeClosed
<1> HIDE DEF S
<1>3. SUFFICES ASSUME B # {} PROVE FALSE
  BY DEF S
<1>4. PICK y \in B : t.parent[y] \notin B
  BY <1>2, <1>3 DEF AcyclicIn
<1> DEFINE q == t.parent[y]
<1>5. q \in S /\ q \in Item /\ q # NoItem /\ y \in Item
  BY <1>2, <1>4, NoItemAssumption
<1>6. t.depth[y] = t.depth[q] + 1
  BY <1>4, <1>5 DEF DepthFits
<1>7. t.depth[q] \in Nat /\ t.depth[x] \in Nat
  BY <1>1, <1>5
<1>8. q = x \/ t.depth[q] > t.depth[x]
  BY <1>4, <1>5
<1> QED BY <1>4, <1>6, <1>7, <1>8

(* There are as many items as an item has ancestors, at least.             *)
LEMMA DepthBound ==
  ASSUME NEW t, t \in Tree, DepthIsDistanceIn(t), NEW y \in Item
  PROVE  t.depth[y] <= Cardinality(Item)
<1>1. /\ t.parent \in [Item -> ItemOrNone] /\ t.depth \in [Item -> Nat]
  BY DEF Tree
<1> DEFINE D == {t.depth[z] : z \in Item}
           P == {k \in Nat : k <= t.depth[y] => t.depth[y] - k \in D}
<1>2. 0 \in P
  BY <1>1
<1>3. ASSUME NEW k \in P PROVE k + 1 \in P
  <2>1. SUFFICES ASSUME k + 1 <= t.depth[y] PROVE t.depth[y] - (k + 1) \in D
    OBVIOUS
  <2>2. PICK z \in Item : t.depth[z] = t.depth[y] - k
    BY <2>1, <1>1
  <2>3. t.depth[z] # 0
    BY <2>1, <2>2, <1>1
  <2>4. t.parent[z] \in Item /\ t.depth[z] = t.depth[t.parent[z]] + 1
    BY <2>3, <1>1 DEF DepthIsDistanceIn, ItemOrNone
  <2>5. t.depth[t.parent[z]] = t.depth[y] - (k + 1)
    BY <2>2, <2>4, <1>1
  <2> QED BY <2>4, <2>5
<1>4. P \in SUBSET Nat
  OBVIOUS
<1> HIDE DEF P
<1>5. P = Nat
  BY <1>2, <1>3, <1>4, NatSetInduction
<1>6. IsFiniteSet(D) /\ Cardinality(D) <= Cardinality(Item)
  <2> DEFINE f == [z \in Item |-> t.depth[z]]
  <2>1. f \in Surjection(Item, D)
    BY DEF Surjection
  <2> HIDE DEF D, f
  <2> QED BY <2>1, FS_Surjection, ItemsAssumption
<1>7. 0 .. t.depth[y] \in SUBSET D
  <2>1. ASSUME NEW n \in 0 .. t.depth[y] PROVE n \in D
    <3>1. t.depth[y] \in Nat
      BY <1>1
    <3>2. t.depth[y] - n \in Nat /\ t.depth[y] - n <= t.depth[y]
          /\ t.depth[y] - (t.depth[y] - n) = n
      BY <3>1
    <3>3. t.depth[y] - n \in P
      BY <3>2, <1>5
    <3> HIDE DEF D
    <3> QED BY <3>2, <3>3 DEF P
  <2> QED BY <2>1
<1>8. IsFiniteSet(0 .. t.depth[y]) /\ Cardinality(0 .. t.depth[y]) = t.depth[y] + 1
  BY <1>1, FS_Interval
<1>9. Cardinality(0 .. t.depth[y]) <= Cardinality(D)
  BY <1>6, <1>7, FS_Subset
<1>10. Cardinality(D) \in Nat /\ Cardinality(Item) \in Nat
  BY <1>6, ItemsAssumption, FS_CardinalityType
<1> HIDE DEF D
<1> QED BY <1>1, <1>6, <1>8, <1>9, <1>10

(* set_depth_recursive() on an item that was moved: below it the depths are  *)
(* all wrong by the same difference, so that the recursion stops nowhere    *)
(* before a leaf, or none is wrong.                                         *)
LEMMA SetDepthRecursiveFits ==
  ASSUME NEW t, Consistent(t), AcyclicIn(t), NEW x \in Item,
         \A y \in Item \ {x} : DepthFits(t, y),
         \A y \in Item : t.depth[y] <= Cardinality(Item),
         NEW d \in Nat, d = IF t.parent[x] = NoItem THEN 0 ELSE t.depth[t.parent[x]] + 1
  PROVE  DepthIsDistanceIn(SetDepthRecursive(t, x, d))
<1> DEFINE S == Subtree(t, x)
           e == t.depth[x]
           wave == DepthWave(t, x, d)
           Level(y) == {k \in 0 .. Cardinality(Item) : y \in wave[k]}
           depth == [y \in Item |-> IF Level(y) = {} THEN t.depth[y]
                                   ELSE d + CHOOSE k \in Level(y) : TRUE]
<1>1. /\ t \in Tree /\ t.parent \in [Item -> ItemOrNone] /\ t.depth \in [Item -> Nat]
      /\ \A p \in Item : ToSet(t.children[p]) = {y \in Item : t.parent[y] = p}
  BY ConsistentElim DEF Consistent
<1>2. /\ x \in S /\ S \in SUBSET Item
      /\ \A y \in Item : t.parent[y] \in S => y \in S
      /\ \A y \in S : y # x => t.parent[y] \in S
      /\ t.parent[x] \notin S
  BY <1>1, SubtreeClosed, ParentOutside
<1>3. \A y \in S : y # x => t.depth[y] > e
  BY <1>1, DeeperBelow
<1>4. SetDepthRecursive(t, x, d) = [t EXCEPT !.depth = depth]
  BY DEF SetDepthRecursive
<1>5. /\ wave[0] = {y \in {x} : t.depth[y] # d}
      /\ \A k \in Nat : wave[k + 1] = {y \in UNION {ToSet(t.children[z]) : z \in wave[k]} :
                                          t.depth[y] # d + (k + 1)}
  <2>1. Reaches(wave, t, x, d)
    BY <1>1, DepthWaveSteps
  <2> HIDE DEF wave
  <2> QED BY <2>1 DEF Reaches
<1> HIDE DEF S, wave
<1>6. Cardinality(Item) \in Nat /\ e \in Nat
  BY <1>1, ItemsAssumption, FS_CardinalityType
<1>7. CASE d = e
  <2> DEFINE P == {k \in Nat : wave[k] = {}}
  <2>1. 0 \in P
    BY <1>5, <1>7
  <2>2. ASSUME NEW k \in P PROVE k + 1 \in P
    BY <1>5
  <2>3. P \in SUBSET Nat
    OBVIOUS
  <2> HIDE DEF P
  <2>4. P = Nat
    BY <2>1, <2>2, <2>3, NatSetInduction
  <2>5. \A k \in 0 .. Cardinality(Item) : wave[k] = {}
    BY <2>4, <1>6 DEF P
  <2>6. depth = t.depth
    BY <2>5, <1>1
  <2> HIDE DEF depth
  <2>7. ASSUME NEW y \in Item PROVE DepthFits(t, y)
    BY <1>7 DEF DepthFits
  <2> QED BY <1>1, <1>4, <2>6, <2>7 DEF DepthIsDistanceIn, DepthFits, Tree
<1>8. CASE d # e
  <2> DEFINE P == {k \in Nat : wave[k] = {y \in S : t.depth[y] = e + k}}
  <2>1. 0 \in P
    BY <1>2, <1>3, <1>5, <1>6, <1>8
  <2>2. ASSUME NEW k \in P PROVE k + 1 \in P
    <3>1. k \in Nat /\ wave[k] = {y \in S : t.depth[y] = e + k}
      OBVIOUS
    <3>2. ASSUME NEW y \in wave[k + 1] PROVE y \in S /\ t.depth[y] = e + (k + 1)
      <4>1. PICK z \in S : t.depth[z] = e + k /\ y \in ToSet(t.children[z])
        BY <3>1, <1>5
      <4>2. y \in Item /\ t.parent[y] = z /\ z \in Item
        BY <4>1, <1>1, <1>2
      <4>3. y \in S /\ y # x
        BY <4>1, <4>2, <1>2
      <4>4. t.depth[y] = t.depth[z] + 1
        BY <4>2, <4>3, NoItemAssumption DEF DepthFits
      <4> QED BY <4>1, <4>3, <4>4, <3>1, <1>6
    <3>3. ASSUME NEW y \in S, t.depth[y] = e + (k + 1) PROVE y \in wave[k + 1]
      <4>1. y # x /\ y \in Item
        BY <3>1, <3>3, <1>2, <1>6
      <4>2. t.parent[y] \in S /\ t.parent[y] \in Item /\ t.parent[y] # NoItem
        BY <4>1, <1>2, NoItemAssumption
      <4>3. t.depth[y] = t.depth[t.parent[y]] + 1 /\ t.depth[t.parent[y]] \in Nat
        BY <4>1, <4>2, <1>1 DEF DepthFits
      <4>4. t.parent[y] \in wave[k]
        BY <4>2, <4>3, <3>1, <3>3, <1>6
      <4>5. y \in ToSet(t.children[t.parent[y]])
        BY <4>1, <4>2, <1>1
      <4>6. t.depth[y] # d + (k + 1)
        BY <3>1, <3>3, <1>6, <1>8
      <4> QED BY <4>4, <4>5, <4>6, <3>1, <1>5
    <3> QED BY <3>1, <3>2, <3>3
  <2>3. P \in SUBSET Nat
    OBVIOUS
  <2> HIDE DEF P
  <2>4. P = Nat
    BY <2>1, <2>2, <2>3, NatSetInduction
  <2>5. \A k \in Nat : wave[k] = {y \in S : t.depth[y] = e + k}
    BY <2>4 DEF P
  <2>6. ASSUME NEW y \in Item
        PROVE  depth[y] = IF y \in S THEN d + (t.depth[y] - e) ELSE t.depth[y]
    <3>1. CASE y \in S
      <4>1. t.depth[y] - e \in 0 .. Cardinality(Item)
        BY <3>1, <1>1, <1>3, <1>6
      <4>2. Level(y) = {t.depth[y] - e}
        BY <4>1, <3>1, <2>5, <1>1, <1>6
      <4> HIDE DEF Level
      <4>3. (CHOOSE k \in Level(y) : TRUE) = t.depth[y] - e
        BY <4>2
      <4> QED BY <3>1, <4>2, <4>3
    <3>2. CASE y \notin S
      <4>1. Level(y) = {}
        BY <3>2, <2>5, <1>6
      <4> HIDE DEF Level
      <4> QED BY <3>2, <4>1
    <3> QED BY <3>1, <3>2
  <2> DEFINE u == SetDepthRecursive(t, x, d)
  <2>7. u.depth = depth /\ u.parent = t.parent
    BY <1>4, <1>1 DEF Tree
  <2> HIDE DEF depth, u
  <2>8. ASSUME NEW y \in Item PROVE DepthFits(u, y)
    <3> DEFINE q == t.parent[y]
    <3>1. q \in ItemOrNone /\ t.depth[y] \in Nat /\ (q # NoItem => q \in Item /\ t.depth[q] \in Nat)
      BY <1>1 DEF ItemOrNone
    <3>2. CASE y = x
      BY <3>1, <3>2, <2>6, <2>7, <1>2, <1>6 DEF DepthFits
    <3>3. CASE y # x /\ y \in S
      <4>1. q \in S /\ q # NoItem /\ t.depth[y] = t.depth[q] + 1
        BY <3>3, <1>2, NoItemAssumption DEF DepthFits
      <4> QED BY <3>1, <3>3, <4>1, <2>6, <2>7, <1>6 DEF DepthFits
    <3>4. CASE y \notin S
      <4>1. q \notin S /\ y # x
        BY <3>4, <1>2
      <4>2. DepthFits(t, y)
        BY <4>1
      <4> QED BY <3>1, <3>4, <4>1, <4>2, <2>6, <2>7 DEF DepthFits
    <3> QED BY <3>2, <3>3, <3>4
  <2> QED BY <2>8 DEF DepthIsDistanceIn, DepthFits, u
<1> QED BY <1>7, <1>8

(* Moving x below p sets the depths below it right. *)
LEMMA SetParentFits ==
  ASSUME NEW t, Consistent(t), AcyclicIn(t), DepthIsDistanceIn(t), NEW x \in Item,
         NEW p \in ItemOrNone, NEW position \in Nat, MayAdopt(t, p, x)
  PROVE  DepthIsDistanceIn(SetParent(t, x, p, position))
<1>1. CASE t.parent[x] = p
  BY <1>1 DEF SetParent
<1>2. CASE t.parent[x] # p
  <2> DEFINE u == Relinked(t, x, p, position)
             d == IF p = NoItem THEN 0 ELSE t.depth[p] + 1
  <2>1. /\ t \in Tree /\ t.parent \in [Item -> ItemOrNone] /\ t.depth \in [Item -> Nat]
    BY ConsistentElim DEF Consistent
  <2>2. Consistent(u)
    BY <1>2, RelinkedConsistent
  <2>3. u.parent = [t.parent EXCEPT ![x] = p] /\ u.depth = t.depth
    BY DEF Relinked
  <2>4. SetParent(t, x, p, position) = SetDepthRecursive(u, x, d)
    BY <1>2 DEF SetParent
  <2> HIDE DEF u
  <2>5. AcyclicIn(u)
    BY <2>1, <2>3, AdoptionAcyclic
  <2>6. \A y \in Item \ {x} : DepthFits(u, y)
    BY <2>1, <2>3 DEF DepthFits, DepthIsDistanceIn
  <2>7. \A y \in Item : u.depth[y] <= Cardinality(Item)
    BY <2>1, <2>3, DepthBound
  <2>8. u.parent[x] = p
    BY <2>1, <2>3
  <2>9. d \in Nat /\ d = IF u.parent[x] = NoItem THEN 0 ELSE u.depth[u.parent[x]] + 1
    BY <2>1, <2>3, <2>8 DEF ItemOrNone
  <2> HIDE DEF d
  <2> QED BY <2>2, <2>4, <2>5, <2>6, <2>7, <2>9, SetDepthRecursiveFits
<1> QED BY <1>1, <1>2

(* What remove() takes off the depths is what the items below x lose above  *)
(* them.                                                                    *)
LEMMA RemoveFits ==
  ASSUME NEW t, Consistent(t), AcyclicIn(t), DepthIsDistanceIn(t), NEW x \in Item
  PROVE  DepthIsDistanceIn(RemoveFromTree(t, x))
<1> DEFINE S == Subtree(t, x)
           p == t.parent[x]
           u == RemoveFromTree(t, x)
<1>1. /\ t \in Tree /\ t.parent \in [Item -> ItemOrNone] /\ t.depth \in [Item -> Nat]
  BY ConsistentElim DEF Consistent
<1>2. /\ x \in S /\ S \in SUBSET Item
      /\ \A y \in Item : t.parent[y] \in S => y \in S
      /\ \A y \in S : y # x => t.parent[y] \in S
      /\ p \notin S
  BY <1>1, SubtreeClosed, ParentOutside
<1>3. \A y \in Item : DepthFits(t, y)
  BY DEF DepthIsDistanceIn, DepthFits
<1>4. \A y \in S : y # x => t.depth[y] > t.depth[x]
  BY <1>1, <1>3, DeeperBelow
<1>5. /\ \A y \in Item : u.parent[y] = IF y = x THEN NoItem
                                       ELSE IF t.parent[y] = x THEN p ELSE t.parent[y]
      /\ \A y \in Item : u.depth[y] = IF y = x THEN 0
                                      ELSE IF y \in S \ {x} /\ t.depth[y] > 0
                                           THEN t.depth[y] - 1 ELSE t.depth[y]
  BY DEF RemoveFromTree
<1> HIDE DEF S, u
<1>6. ASSUME NEW y \in Item PROVE DepthFits(u, y)
  <2> DEFINE q == t.parent[y]
  <2>1. /\ q \in ItemOrNone /\ t.depth[y] \in Nat /\ t.depth[x] \in Nat
        /\ (q # NoItem => q \in Item /\ t.depth[q] \in Nat)
        /\ (p # NoItem => p \in Item /\ t.depth[p] \in Nat)
        /\ x # NoItem
    BY <1>1, NoItemAssumption DEF ItemOrNone
  <2>2. CASE y = x
    BY <2>2, <1>5 DEF DepthFits
  <2>3. CASE y # x /\ q = x
    <3>1. y \in S /\ t.depth[y] = t.depth[x] + 1
      BY <2>1, <2>3, <1>2, <1>3 DEF DepthFits
    <3>2. u.depth[y] = t.depth[x] /\ u.parent[y] = p
      BY <2>1, <2>3, <3>1, <1>5
    <3>3. p # NoItem => u.depth[p] = t.depth[p]
      BY <2>1, <1>2, <1>5
    <3>4. DepthFits(t, x)
      BY <1>3
    <3> QED BY <3>2, <3>3, <3>4 DEF DepthFits
  <2>4. CASE y # x /\ q # x /\ y \in S
    <3>1. q \in S /\ q \in Item /\ q # NoItem
      BY <2>1, <2>4, <1>2, NoItemAssumption
    <3>2. t.depth[y] = t.depth[q] + 1
      BY <3>1, <1>3 DEF DepthFits
    <3>3. t.depth[q] > 0
      BY <2>1, <2>4, <3>1, <1>4
    <3>4. u.depth[y] = t.depth[y] - 1 /\ u.depth[q] = t.depth[q] - 1 /\ u.parent[y] = q
      BY <2>1, <2>4, <3>1, <3>2, <3>3, <1>5
    <3> QED BY <2>1, <3>1, <3>2, <3>4 DEF DepthFits
  <2>5. CASE y \notin S
    <3>1. y # x /\ q \notin S /\ q # x
      BY <2>5, <1>2
    <3>2. u.depth[y] = t.depth[y] /\ u.parent[y] = q /\ (q # NoItem => u.depth[q] = t.depth[q])
      BY <2>1, <2>5, <3>1, <1>5
    <3>3. DepthFits(t, y)
      BY <1>3
    <3> QED BY <3>2, <3>3 DEF DepthFits
  <2> QED BY <2>2, <2>3, <2>4, <2>5
<1> QED BY <1>6 DEF DepthIsDistanceIn, DepthFits, u

(* The other two removals make orphans of depth 0 of all items of a set that *)
(* no item outside of it hangs below.                                       *)
LEMMA DropFits ==
  ASSUME NEW t, t.parent \in [Item -> ItemOrNone], DepthIsDistanceIn(t), NEW u,
         NEW S \in SUBSET Item, \A y \in Item : t.parent[y] \in S => y \in S,
         \A y \in Item : /\ u.parent[y] = IF y \in S THEN NoItem ELSE t.parent[y]
                        /\ u.depth[y] = IF y \in S THEN 0 ELSE t.depth[y]
  PROVE  DepthIsDistanceIn(u)
<1>1. ASSUME NEW y \in Item PROVE DepthFits(u, y)
  <2>1. CASE y \in S
    BY <2>1 DEF DepthFits
  <2>2. CASE y \notin S
    <3>1. t.parent[y] \notin S /\ t.parent[y] \in ItemOrNone
      BY <2>2
    <3> QED BY <2>2, <3>1 DEF DepthFits, DepthIsDistanceIn, ItemOrNone
  <2> QED BY <2>1, <2>2
<1> QED BY <1>1 DEF DepthIsDistanceIn, DepthFits

-----------------------------------------------------------------------------
(* set_parent() and its way back *)

(* A tree as hierarchy_sanity_check() wants it, with depths that fit. *)
Sane(t) == Consistent(t) /\ AcyclicIn(t) /\ DepthIsDistanceIn(t)

(* Depths follow from the parents. *)
LEMMA DepthsFollow ==
  ASSUME NEW t, NEW u, Sane(t), Sane(u), t.parent = u.parent
  PROVE  t.depth = u.depth
<1>1. /\ t.depth \in [Item -> Nat] /\ u.depth \in [Item -> Nat]
      /\ t.parent \in [Item -> ItemOrNone]
  BY ConsistentElim DEF Sane
<1> DEFINE S == {x \in Item : t.depth[x] # u.depth[x]}
<1>2. SUFFICES ASSUME S # {} PROVE FALSE
  BY <1>1
<1>3. PICK x \in S : t.parent[x] \notin S
  BY <1>2 DEF Sane, AcyclicIn
<1>4. t.depth[x] = u.depth[x]
  <2>1. CASE t.parent[x] = NoItem
    BY <2>1 DEF Sane, DepthIsDistanceIn
  <2>2. CASE t.parent[x] # NoItem
    <3>1. t.depth[t.parent[x]] = u.depth[t.parent[x]]
      BY <1>1, <1>3, <2>2 DEF ItemOrNone
    <3> QED BY <3>1, <2>2 DEF Sane, DepthIsDistanceIn
  <2> QED BY <2>1, <2>2
<1> QED BY <1>4

(* set_parent() keeps a tree sound unless it makes a cycle. *)
LEMMA SetParentSane ==
  ASSUME NEW t, Sane(t), NEW x \in Item, NEW p \in ItemOrNone, NEW position \in Nat,
         MayAdopt(t, p, x)
  PROVE  /\ Sane(SetParent(t, x, p, position))
         /\ SetParent(t, x, p, position).parent = [t.parent EXCEPT ![x] = p]
<1>1. Consistent(t) /\ AcyclicIn(t) /\ DepthIsDistanceIn(t)
  BY DEF Sane
<1>2. t.parent \in [Item -> ItemOrNone]
  BY <1>1, ConsistentElim
<1>3. /\ Consistent(SetParent(t, x, p, position))
      /\ SetParent(t, x, p, position).parent = [t.parent EXCEPT ![x] = p]
  BY <1>1, SetParentConsistent
<1>4. AcyclicIn(SetParent(t, x, p, position))
  BY <1>1, <1>2, <1>3, AdoptionAcyclic
<1>5. DepthIsDistanceIn(SetParent(t, x, p, position))
  BY <1>1, SetParentFits
<1> QED BY <1>3, <1>4, <1>5 DEF Sane

(* What hangs below x does not depend on where x hangs. *)
LEMMA BelowStays ==
  ASSUME NEW t, NEW u, NEW x \in Item, t.parent \in [Item -> ItemOrNone],
         \A y \in Item \ {x} : u.parent[y] = t.parent[y],
         NEW y \in Item \ {x}, IsAncestor(u, x, y)
  PROVE  IsAncestor(t, x, y)
<1>1. t.parent[y] # NoItem
  BY DEF IsAncestor
<1>2. ASSUME NEW V \in SUBSET Item, UpwardClosed(t, V), t.parent[y] \in V, x \notin V
      PROVE  FALSE
  <2>1. UpwardClosed(u, V) /\ u.parent[y] \in V
    BY <1>2 DEF UpwardClosed
  <2> QED BY <1>2, <2>1 DEF IsAncestor
<1> QED BY <1>1, <1>2 DEF IsAncestor

(* An item may always go back to where it was. *)
LEMMA MayReturn ==
  ASSUME NEW t, t.parent \in [Item -> ItemOrNone], AcyclicIn(t), NEW x \in Item, NEW u,
         \A y \in Item \ {x} : u.parent[y] = t.parent[y]
  PROVE  MayAdopt(u, t.parent[x], x)
<1> DEFINE p == t.parent[x]
<1> SUFFICES ASSUME p # NoItem PROVE p # x /\ ~IsAncestor(u, x, p)
  BY DEF MayAdopt
<1>1. p \in Item /\ p \notin Subtree(t, x)
  BY ParentOutside DEF ItemOrNone
<1>2. p # x /\ ~IsAncestor(t, x, p)
  BY <1>1, SubtreeClosed DEF Subtree
<1> QED BY <1>1, <1>2, BelowStays

(* get_index_in_parent() of an item that its parent lists. *)
LEMMA IndexIsPlace ==
  ASSUME NEW t, Consistent(t), NEW x \in Item, NEW k, t.parent[x] # NoItem,
         k \in 1 .. Len(t.children[t.parent[x]]), t.children[t.parent[x]][k] = x
  PROVE  IndexInParent(t, x) = k - 1
<1> DEFINE s == t.children[t.parent[x]]
<1>1. t.parent[x] \in Item
  BY ConsistentElim DEF ItemOrNone
<1>2. s \in Seq(Item) /\ Injective(s)
  BY <1>1, ConsistentElim
<1>3. Contains(s, x)
  BY DEF Contains
<1>4. {i \in 1 .. Len(s) : s[i] = x} = {k}
  BY <1>2 DEF Injective
<1>5. k \in Nat
  BY <1>2, LenProperties
<1>6. Min({k}) = k
  BY <1>5 DEF Min
<1>7. SelectInSeq(s, LAMBDA c : c = x) = k
  BY <1>4, <1>6 DEF SelectInSeq
<1> QED BY <1>3, <1>7 DEF IndexInParent

(* get_index_in_parent() is the place of the item among the children of its *)
(* parent.                                                                  *)
LEMMA IndexFacts ==
  ASSUME NEW t, Consistent(t), NEW x \in Item
  PROVE  /\ IndexInParent(t, x) \in Nat
         /\ t.parent[x] # NoItem =>
              /\ IndexInParent(t, x) + 1 \in 1 .. Len(t.children[t.parent[x]])
              /\ t.children[t.parent[x]][IndexInParent(t, x) + 1] = x
<1>1. CASE t.parent[x] = NoItem
  BY <1>1 DEF IndexInParent
<1>2. CASE t.parent[x] # NoItem
  <2> DEFINE s == t.children[t.parent[x]]
  <2>1. t.parent[x] \in Item
    BY <1>2, ConsistentElim DEF ItemOrNone
  <2>2. s \in Seq(Item) /\ x \in ToSet(s)
    BY <2>1, ConsistentElim
  <2>3. PICK k \in 1 .. Len(s) : s[k] = x
    BY <2>2, ToSetDef
  <2>4. IndexInParent(t, x) = k - 1
    BY <1>2, <2>3, IndexIsPlace
  <2>5. Len(s) \in Nat
    BY <2>2, LenProperties
  <2> HIDE DEF s
  <2>6. k - 1 \in Nat /\ (k - 1) + 1 = k
    BY <2>5
  <2> QED BY <2>3, <2>4, <2>6 DEF s
<1> QED BY <1>1, <1>2

(* What set_parent() does to the child vectors: one erases, one inserts. *)
LEMMA SetParentChildren ==
  ASSUME NEW t, Consistent(t), NEW x \in Item, NEW p \in ItemOrNone,
         NEW position \in Nat, t.parent[x] # p
  PROVE  SetParent(t, x, p, position).children
           = AddChild(RemoveChild(t.children, t.parent[x], x), p, x, position)
<1> DEFINE u == Relinked(t, x, p, position)
           d == IF p = NoItem THEN 0 ELSE t.depth[p] + 1
           v == SetDepthRecursive(u, x, d)
<1>1. SetParent(t, x, p, position) = v
  BY DEF SetParent
<1>5. Consistent(u)
  BY RelinkedConsistent
<1>6. t.depth \in [Item -> Nat]
  BY ConsistentElim
<1>2. u \in Tree /\ d \in Nat
  BY <1>5, <1>6 DEF Consistent, ItemOrNone
<1>3. u.children = AddChild(RemoveChild(t.children, t.parent[x], x), p, x, position)
  BY DEF Relinked
<1> HIDE DEF u, d
<1>4. v.children = u.children
  BY <1>2, SetDepthRecursiveLinks
<1> QED BY <1>1, <1>3, <1>4

(* x is the child of q at index i, or there is no q. *)
ListedAt(c, q, x, i) ==
  q # NoItem => /\ Injective(c[q])
                /\ i + 1 \in 1 .. Len(c[q]) /\ c[q][i + 1] = x

(* Erasing a child and inserting it again where it was. *)
LEMMA EraseThenAdd ==
  ASSUME NEW c, c \in [Item -> Seq(Item)], NEW q \in ItemOrNone, NEW x \in Item,
         NEW i \in Nat, ListedAt(c, q, x, i)
  PROVE  AddChild(RemoveChild(c, q, x), q, x, i) = c
<1>1. CASE q = NoItem
  BY <1>1 DEF AddChild, RemoveChild
<1>2. CASE q # NoItem
  <2> DEFINE s == c[q]
             r == RemoveFirst(s, x)
             k == i + 1
  <2>1. q \in Item /\ s \in Seq(Item) /\ Injective(s) /\ k \in 1 .. Len(s) /\ s[k] = x
    BY <1>2 DEF ItemOrNone, ListedAt
  <2>2. RemoveChild(c, q, x) = [c EXCEPT ![q] = r]
    BY <1>2 DEF RemoveChild
  <2> HIDE DEF s, k
  <2>3. /\ InsertAt(RemoveFirst(s, x), k, x) = s
        /\ Len(RemoveFirst(s, x)) = Len(s) - 1
    BY <2>1, EraseThenInsert
  <2>4. Len(s) \in Nat
    BY <2>1, LenProperties
  <2> HIDE DEF r
  <2>5. 1 + (IF i < Len(r) THEN i ELSE Len(r)) = k
    BY <2>1, <2>3, <2>4 DEF r, k
  <2> DEFINE b == [c EXCEPT ![q] = r]
             j == 1 + (IF i < Len(b[q]) THEN i ELSE Len(b[q]))
  <2>6. b[q] = r /\ DOMAIN b = Item
    BY <2>1
  <2>7. AddChild(b, q, x, i) = [b EXCEPT ![q] = InsertAt(b[q], j, x)]
    BY <1>2 DEF AddChild
  <2>8. j = k
    BY <2>5, <2>6
  <2>9. InsertAt(b[q], j, x) = s
    BY <2>3, <2>6, <2>8 DEF r
  <2>10. [b EXCEPT ![q] = s] = c
    BY <2>1 DEF s
  <2> QED BY <2>2, <2>7, <2>9, <2>10
<1> QED BY <1>1, <1>2

(* Inserting a child and erasing it again. *)
LEMMA AddThenErase ==
  ASSUME NEW c, c \in [Item -> Seq(Item)], NEW p \in ItemOrNone, NEW x \in Item,
         NEW position \in Nat,
         p # NoItem => Injective(c[p]) /\ x \notin ToSet(c[p])
  PROVE  RemoveChild(AddChild(c, p, x, position), p, x) = c
<1>1. CASE p = NoItem
  BY <1>1 DEF AddChild, RemoveChild
<1>2. CASE p # NoItem
  <2> DEFINE s == c[p]
             k == 1 + (IF position < Len(s) THEN position ELSE Len(s))
             r == InsertAt(s, k, x)
             b == [c EXCEPT ![p] = r]
  <2>1. p \in Item /\ s \in Seq(Item) /\ Injective(s) /\ x \notin ToSet(s)
    BY <1>2 DEF ItemOrNone
  <2>2. AddChild(c, p, x, position) = b
    BY <1>2 DEF AddChild
  <2>3. k \in 1 .. Len(s) + 1
    BY <2>1, LenProperties
  <2>4. b[p] = r /\ DOMAIN b = Item
    BY <2>1
  <2>5. RemoveChild(b, p, x) = [b EXCEPT ![p] = RemoveFirst(b[p], x)]
    BY <1>2 DEF RemoveChild
  <2> HIDE DEF s, k
  <2>6. RemoveFirst(InsertAt(s, k, x), x) = s
    BY <2>1, <2>3, InsertThenErase
  <2>7. RemoveFirst(b[p], x) = s
    BY <2>4, <2>6
  <2>8. [b EXCEPT ![p] = s] = c
    BY <2>1 DEF s
  <2> QED BY <2>2, <2>5, <2>7, <2>8
<1> QED BY <1>1, <1>2

(* set_parent() back to the former parent, at the former index, takes a      *)
(* set_parent() back to the last detail.                                     *)
THEOREM SetParentUndone ==
  ASSUME NEW t, Sane(t), NEW x \in Item, NEW p \in ItemOrNone, NEW position \in Nat,
         MayAdopt(t, p, x), NEW i, i = IndexInParent(t, x)
  PROVE  SetParent(SetParent(t, x, p, position), x, t.parent[x], i) = t
<1>1. CASE t.parent[x] = p
  BY <1>1 DEF SetParent
<1>2. CASE t.parent[x] # p
  <2> DEFINE old == t.parent[x]
             u == SetParent(t, x, p, position)
             v == SetParent(u, x, old, i)
             c == RemoveChild(t.children, old, x)
  <2>1. /\ Consistent(t) /\ AcyclicIn(t) /\ t.parent \in [Item -> ItemOrNone]
        /\ t.children \in [Item -> Seq(Item)]
        /\ t = [parent |-> t.parent, children |-> t.children, depth |-> t.depth]
        /\ \A q \in Item : /\ Injective(t.children[q])
                           /\ ToSet(t.children[q]) = {y \in Item : t.parent[y] = q}
    BY ConsistentElim DEF Sane
  <2>2. Sane(u) /\ u.parent = [t.parent EXCEPT ![x] = p]
    BY SetParentSane
  <2>3. old \in ItemOrNone /\ u.parent[x] = p
    BY <2>1, <2>2
  <2>4. /\ i \in Nat
        /\ old # NoItem => i + 1 \in 1 .. Len(t.children[old])
                           /\ t.children[old][i + 1] = x
    BY <2>1, IndexFacts
  <2>5. u.children = AddChild(c, p, x, position)
    BY <1>2, <2>1, SetParentChildren
  <2> HIDE DEF u
  <2>6. Consistent(u)
    BY <2>2 DEF Sane
  <2>7. MayAdopt(u, old, x)
    BY <2>1, <2>2, MayReturn
  <2>8. v.children = AddChild(RemoveChild(u.children, p, x), old, x, i)
    BY <1>2, <2>3, <2>4, <2>6, SetParentChildren
  <2>9. Sane(v) /\ v.parent = [u.parent EXCEPT ![x] = old]
    BY <2>2, <2>3, <2>4, <2>7, SetParentSane
  <2> HIDE DEF v
  <2>10. v.parent = t.parent
    BY <2>1, <2>2, <2>9
  <2>11. v.depth = t.depth
    BY <2>9, <2>10, DepthsFollow
  <2>20. Erased(RemoveChild(t.children, old, x), t.children, old, x)
    BY <2>1, <2>3, RemoveChildFacts
  <2>12. c \in [Item -> Seq(Item)] /\ Erased(c, t.children, old, x)
    BY <2>20 DEF Erased
  <2>13. p # NoItem => Injective(c[p]) /\ x \notin ToSet(c[p])
    <3> SUFFICES ASSUME p # NoItem PROVE Injective(c[p]) /\ x \notin ToSet(c[p])
      OBVIOUS
    <3>1. p \in Item
      BY DEF ItemOrNone
    <3> QED BY <1>2, <2>1, <2>12, <3>1 DEF Erased
  <2> HIDE DEF c
  <2>21. RemoveChild(AddChild(c, p, x, position), p, x) = c
    BY <2>12, <2>13, AddThenErase
  <2>14. RemoveChild(u.children, p, x) = c
    BY <2>5, <2>21
  <2> HIDE DEF old
  <2>15. old # NoItem => Injective(t.children[old])
    BY <2>1, <2>3 DEF ItemOrNone
  <2>16. AddChild(RemoveChild(t.children, old, x), old, x, i) = t.children
    <3>1. ListedAt(t.children, old, x, i)
      BY <2>4, <2>15 DEF ListedAt
    <3>2. t.children \in [Item -> Seq(Item)] /\ old \in ItemOrNone /\ i \in Nat
      BY <2>1, <2>3, <2>4
    <3> HIDE <2>1
    <3>3. ASSUME NEW k \in [Item -> Seq(Item)], NEW q \in ItemOrNone, NEW j \in Nat, ListedAt(k, q, x, j)
          PROVE  AddChild(RemoveChild(k, q, x), q, x, j) = k
      BY <3>3, EraseThenAdd
    <3> QED BY <3>1, <3>2, <3>3, Zenon
  <2>17. v.children = t.children
    BY <2>8, <2>14, <2>16 DEF c
  <2>18. v = [parent |-> v.parent, children |-> v.children, depth |-> v.depth]
    BY <2>9, ConsistentElim DEF Sane
  <2>19. v = t
    BY <2>1, <2>10, <2>11, <2>17, <2>18
  <2> QED BY <2>19 DEF v, u, old
<1> QED BY <1>1, <1>2

(* get_index_in_parent() depends on the parent link and its children only. *)
LEMMA PlaceIndex ==
  ASSUME NEW t, NEW x, NEW s \in Seq(Item), Injective(s), t.parent[x] # NoItem,
         t.children[t.parent[x]] = s, NEW k \in 1 .. Len(s), s[k] = x
  PROVE  IndexInParent(t, x) = k - 1
<1>3. Contains(s, x)
  BY DEF Contains
<1>4. {i \in 1 .. Len(s) : s[i] = x} = {k}
  BY DEF Injective
<1>5. k \in Nat
  BY LenProperties
<1>6. Min({k}) = k
  BY <1>5 DEF Min
<1>7. SelectInSeq(s, LAMBDA c : c = x) = k
  BY <1>4, <1>6 DEF SelectInSeq
<1> QED BY <1>3, <1>7 DEF IndexInParent

(* Nothing is below an item that has no children. *)
LEMMA ChildlessIsNoAncestor ==
  ASSUME NEW t, t.parent \in [Item -> ItemOrNone], NEW x \in Item,
         \A y \in Item : t.parent[y] # x, NEW y \in Item
  PROVE  ~IsAncestor(t, x, y)
<1> DEFINE V == Item \ {x}
<1>1. SUFFICES ASSUME t.parent[y] # NoItem PROVE ~IsAncestor(t, x, y)
  BY DEF IsAncestor
<1>2. UpwardClosed(t, V) /\ t.parent[y] \in V /\ x \notin V
  BY <1>1 DEF UpwardClosed, ItemOrNone
<1>3. V \in SUBSET Item
  OBVIOUS
<1> QED BY <1>2, <1>3 DEF IsAncestor

(* An item with children is above them: nothing above it is below it. *)
LEMMA ParentNotBelow ==
  ASSUME NEW t, t.parent \in [Item -> ItemOrNone], AcyclicIn(t), NEW x \in Item,
         NEW c \in Item, t.parent[c] = x, t.parent[x] # NoItem
  PROVE  t.parent[x] \in Item /\ t.parent[x] # c /\ MayAdopt(t, t.parent[x], c)
<1> DEFINE p == t.parent[x]
<1>1. p \in Item
  BY DEF ItemOrNone
<1>2. MayAdopt(t, p, x)
  BY MayReturn
<1>3. p # x /\ ~IsAncestor(t, x, p)
  BY <1>2 DEF MayAdopt
<1>4. p # c
  <2> SUFFICES ASSUME p = c PROVE FALSE
    OBVIOUS
  <2>1. t.parent[p] = x /\ x # NoItem
    BY NoItemAssumption
  <2> QED BY <1>3, <2>1 DEF IsAncestor
<1>5. ~IsAncestor(t, c, p)
  <2> SUFFICES ASSUME IsAncestor(t, c, p) PROVE IsAncestor(t, x, p)
    BY <1>3
  <2>1. ASSUME NEW V \in SUBSET Item, UpwardClosed(t, V), t.parent[p] \in V
        PROVE  x \in V
    <3>1. c \in V
      BY <2>1 DEF IsAncestor
    <3> QED BY <2>1, <3>1, NoItemAssumption DEF UpwardClosed
  <2> QED BY <2>1 DEF IsAncestor
<1> QED BY <1>1, <1>4, <1>5 DEF MayAdopt

-----------------------------------------------------------------------------
(* The removals as loops *)

(* A tree is what its links say: depths follow. *)
LEMMA SameTree ==
  ASSUME NEW t, NEW u, Sane(t), Sane(u), t.parent = u.parent, t.children = u.children
  PROVE  t = u
<1>1. t = [parent |-> t.parent, children |-> t.children, depth |-> t.depth]
  BY ConsistentElim DEF Sane
<1>2. u = [parent |-> u.parent, children |-> u.children, depth |-> u.depth]
  BY ConsistentElim DEF Sane
<1>3. t.depth = u.depth
  BY DepthsFollow
<1> QED BY <1>1, <1>2, <1>3

LEMMA SaneElim ==
  ASSUME NEW t, Sane(t)
  PROVE  /\ t.parent \in [Item -> ItemOrNone] /\ t.children \in [Item -> Seq(Item)]
         /\ AcyclicIn(t) /\ t \in SoundTree
         /\ \A q \in Item : /\ Injective(t.children[q])
                            /\ ToSet(t.children[q]) = {y \in Item : t.parent[y] = q}
<1>1. /\ t.parent \in [Item -> ItemOrNone] /\ t.children \in [Item -> Seq(Item)]
      /\ \A q \in Item : /\ Injective(t.children[q])
                         /\ ToSet(t.children[q]) = {y \in Item : t.parent[y] = q}
  BY ConsistentElim DEF Sane
<1>2. AcyclicIn(t) /\ t \in SoundTree
  BY DEF Sane, Consistent, SoundTree
<1> QED BY <1>1, <1>2

(* The results of the removals are sound trees. *)
LEMMA RemovalsSane ==
  ASSUME NEW t, Sane(t), NEW x \in Item
  PROVE  /\ Sane(RemoveFromTree(t, x))
         /\ Sane(RecursiveRemoveFromTree(t, x))
         /\ Sane(RemoveChildrenFromTree(t, x))
<1>0. /\ Consistent(t) /\ AcyclicIn(t) /\ DepthIsDistanceIn(t)
      /\ t.parent \in [Item -> ItemOrNone]
  BY SaneElim DEF Sane
<1>1. Sane(RemoveFromTree(t, x))
  <2>1. Consistent(RemoveFromTree(t, x))
    BY <1>0, RemoveConsistent
  <2>2. AcyclicIn(RemoveFromTree(t, x))
    BY <1>0, BypassAcyclic DEF RemoveFromTree
  <2>3. DepthIsDistanceIn(RemoveFromTree(t, x))
    BY <1>0, RemoveFits
  <2> QED BY <2>1, <2>2, <2>3 DEF Sane
<1>2. Sane(RecursiveRemoveFromTree(t, x))
  <2> DEFINE u == RecursiveRemoveFromTree(t, x)
             S == Subtree(t, x)
  <2>1. Consistent(u)
    BY <1>0, RecursiveRemoveConsistent
  <2>2. \A y \in Item : /\ u.parent[y] = IF y \in S THEN NoItem ELSE t.parent[y]
                        /\ u.depth[y] = IF y \in S THEN 0 ELSE t.depth[y]
    BY DEF RecursiveRemoveFromTree, Dismantled
  <2>3. S \in SUBSET Item /\ \A y \in Item : t.parent[y] \in S => y \in S
    BY <1>0, SubtreeClosed
  <2> HIDE DEF u, S
  <2>4. AcyclicIn(u)
    BY <1>0, <2>2, DropAcyclic
  <2>5. DepthIsDistanceIn(u)
    BY <1>0, <2>2, <2>3, DropFits
  <2> QED BY <2>1, <2>4, <2>5 DEF Sane, u
<1>3. Sane(RemoveChildrenFromTree(t, x))
  <2> DEFINE u == RemoveChildrenFromTree(t, x)
             S == Subtree(t, x) \ {x}
  <2>1. Consistent(u)
    BY <1>0, RemoveChildrenConsistent
  <2>2. \A y \in Item : /\ u.parent[y] = IF y \in S THEN NoItem ELSE t.parent[y]
                        /\ u.depth[y] = IF y \in S THEN 0 ELSE t.depth[y]
    BY DEF RemoveChildrenFromTree, Dismantled
  <2>3. S \in SUBSET Item /\ \A y \in Item : t.parent[y] \in S => y \in S
    BY <1>0, SubtreeClosed, ParentOutside
  <2> HIDE DEF u, S
  <2>4. AcyclicIn(u)
    BY <1>0, <2>2, DropAcyclic
  <2>5. DepthIsDistanceIn(u)
    BY <1>0, <2>2, <2>3, DropFits
  <2> QED BY <2>1, <2>4, <2>5 DEF Sane, u
<1> QED BY <1>1, <1>2, <1>3

(* remove() on x at work: the first m children are still there. *)
Handed(u, t, x, m) ==
  LET s == t.children[x]
      p == t.parent[x]
  IN  /\ Sane(u)
      /\ \A y \in Item : u.parent[y] = IF \E i \in m + 1 .. Len(s) : s[i] = y
                                       THEN p ELSE t.parent[y]
      /\ u.children[x] = SubSeq(s, 1, m)
      /\ p # NoItem =>
           u.children[p] = t.children[p] \o Reverse(SubSeq(s, m + 1, Len(s)))
      /\ \A q \in Item \ {x, p} : u.children[q] = t.children[q]

LEMMA HandsStart ==
  ASSUME NEW t, Sane(t), NEW x \in Item
  PROVE  Handed(t, t, x, Len(t.children[x]))
<1> DEFINE s == t.children[x]
           p == t.parent[x]
<1>1. s \in Seq(Item) /\ p \in ItemOrNone /\ t.children \in [Item -> Seq(Item)]
  BY SaneElim
<1>2. Len(s) \in Nat
  BY <1>1, LenProperties
<1>3. SubSeq(s, 1, Len(s)) = s
  BY <1>1, PrefixFacts
<1>4. SubSeq(s, Len(s) + 1, Len(s)) = << >>
  BY <1>1, <1>2
<1>5. Reverse(<< >>) = << >>
  BY DEF Reverse
<1>6. ASSUME p # NoItem PROVE t.children[p] \o << >> = t.children[p]
  <2>1. t.children[p] \in Seq(Item)
    BY <1>1, <1>6 DEF ItemOrNone
  <2> QED BY <2>1, ConcatEmptySeq
<1>7. \A y \in Item : ~ \E i \in Len(s) + 1 .. Len(s) : s[i] = y
  BY <1>2
<1> QED BY <1>3, <1>4, <1>5, <1>6, <1>7 DEF Handed

(* A position that no vector of children reaches. *)
LEMMA NoneLonger ==
  ASSUME NEW s \in Seq(Item), Injective(s)
  PROVE  AtEnd \in Nat /\ Len(s) \in Nat /\ ~(AtEnd < Len(s))
<1>1. ToSet(s) \in SUBSET Item
  BY ElementOfSeq, LenProperties DEF ToSet
<1>2. Cardinality(ToSet(s)) = Len(s)
  BY InjectiveLen
<1>3. Cardinality(ToSet(s)) <= Cardinality(Item) /\ Cardinality(Item) \in Nat
  BY <1>1, ItemsAssumption, FS_Subset, FS_CardinalityType
<1> QED BY <1>2, <1>3, LenProperties DEF AtEnd

LEMMA HandsUp ==
  ASSUME NEW t, Sane(t), NEW x \in Item, NEW m \in 1 .. Len(t.children[x]),
         NEW u, Handed(u, t, x, m)
  PROVE  Handed(SetParent(u, Last(u.children[x]), t.parent[x], AtEnd), t, x, m - 1)
<1> DEFINE s == t.children[x]
           p == t.parent[x]
           c == s[m]
           v == SetParent(u, c, p, AtEnd)
<1>1. /\ t.parent \in [Item -> ItemOrNone] /\ t.children \in [Item -> Seq(Item)]
      /\ AcyclicIn(t)
      /\ \A q \in Item : /\ Injective(t.children[q])
                         /\ ToSet(t.children[q]) = {y \in Item : t.parent[y] = q}
  BY SaneElim
<1>2. Sane(u) /\ Consistent(u) /\ u.children[x] = SubSeq(s, 1, m)
  BY DEF Handed, Sane
<1>3. /\ u.parent \in [Item -> ItemOrNone] /\ u.children \in [Item -> Seq(Item)]
      /\ AcyclicIn(u)
      /\ \A q \in Item : Injective(u.children[q])
  BY <1>2, SaneElim
<1>4. s \in Seq(Item) /\ Injective(s) /\ Len(s) \in Nat /\ m \in Nat
  BY <1>1, LenProperties
<1>5. /\ SubSeq(s, 1, m) \in Seq(Item) /\ Last(SubSeq(s, 1, m)) = c /\ c \in Item
      /\ RemoveFirst(SubSeq(s, 1, m), c) = SubSeq(s, 1, m - 1)
  BY <1>4, EraseLast
<1>6. t.parent[c] = x
  <2>1. c \in ToSet(s)
    BY <1>4, ToSetDef
  <2> QED BY <1>1, <2>1
<1>7. u.parent[c] = x /\ u.parent[x] = p
  <2>1. ~ \E i \in m + 1 .. Len(s) : s[i] = c
    BY <1>4 DEF Injective
  <2> QED BY <1>5, <1>6, <2>1 DEF Handed
<1>8. p \in ItemOrNone /\ p # x
  <2>1. p \notin Subtree(t, x) /\ x \in Subtree(t, x)
    BY <1>1, ParentOutside, SubtreeClosed
  <2> QED BY <1>1, <2>1
<1>9. MayAdopt(u, p, c)
  <2>1. CASE p = NoItem
    BY <2>1 DEF MayAdopt
  <2>2. CASE p # NoItem
    <3> HIDE DEF p, c, s
    <3> QED BY <2>2, <1>3, <1>5, <1>7, ParentNotBelow
  <2> QED BY <2>1, <2>2
<1>10. AtEnd \in Nat
  BY <1>4, NoneLonger
<1>11. Sane(v) /\ v.parent = [u.parent EXCEPT ![c] = p]
  <2> HIDE DEF p, c, s
  <2> QED BY <1>2, <1>5, <1>8, <1>9, <1>10, SetParentSane
<1> DEFINE b == RemoveChild(u.children, x, c)
<1>12. v.children = AddChild(b, p, c, AtEnd)
  <2> HIDE DEF p, c, s
  <2>1. u.parent[c] # p
    BY <1>7, <1>8
  <2>2. v.children = AddChild(RemoveChild(u.children, u.parent[c], c), p, c, AtEnd)
    BY <2>1, <1>2, <1>5, <1>8, <1>10, SetParentChildren
  <2> QED BY <2>2, <1>7
<1>13. b = [u.children EXCEPT ![x] = SubSeq(s, 1, m - 1)]
  <2>1. x # NoItem
    BY NoItemAssumption
  <2> QED BY <2>1, <1>2, <1>5 DEF RemoveChild
<1> HIDE DEF b
<1>14. \A y \in Item : v.parent[y] = IF \E i \in m .. Len(s) : s[i] = y THEN p ELSE t.parent[y]
  <2> TAKE y \in Item
  <2>1. CASE y = c
    <3>1. m \in m .. Len(s) /\ s[m] = y
      BY <2>1, <1>4
    <3>2. v.parent[y] = p
      <4> HIDE DEF v, p, c
      <4> QED BY <2>1, <1>3, <1>5, <1>11
    <3> QED BY <3>1, <3>2
  <2>2. CASE y # c
    <3>1. v.parent[y] = u.parent[y]
      BY <2>2, <1>3, <1>11
    <3>2. (\E i \in m .. Len(s) : s[i] = y) <=> \E i \in m + 1 .. Len(s) : s[i] = y
      BY <2>2, <1>4
    <3> QED BY <3>1, <3>2 DEF Handed
  <2> QED BY <2>1, <2>2
<1>15. /\ v.children[x] = SubSeq(s, 1, m - 1)
       /\ p # NoItem => v.children[p] = t.children[p] \o Reverse(SubSeq(s, m, Len(s)))
       /\ \A q \in Item \ {x, p} : v.children[q] = t.children[q]
  <2>1. CASE p = NoItem
    <3>1. v.children = b
      BY <2>1, <1>12 DEF AddChild
    <3>2. v.children[x] = SubSeq(s, 1, m - 1)
      BY <3>1, <1>3, <1>13
    <3>3. ASSUME NEW q \in Item \ {x, p} PROVE v.children[q] = t.children[q]
      <4>1. v.children[q] = u.children[q]
        BY <3>1, <1>3, <1>13
      <4> QED BY <4>1 DEF Handed
    <3> QED BY <2>1, <3>2, <3>3
  <2>2. CASE p # NoItem
    <3> DEFINE w == u.children[p]
               k == 1 + IF AtEnd < Len(b[p]) THEN AtEnd ELSE Len(b[p])
    <3>1. p \in Item /\ w \in Seq(Item) /\ Injective(w)
      BY <2>2, <1>3, <1>8 DEF ItemOrNone
    <3>2. b[p] = w
      BY <3>1, <1>3, <1>8, <1>13
    <3>3. v.children = [b EXCEPT ![p] = InsertAt(b[p], k, c)]
      BY <2>2, <1>12 DEF AddChild
    <3>4. k = Len(w) + 1
      <4> HIDE DEF w
      <4>1. Len(w) \in Nat /\ ~(AtEnd < Len(w))
        BY <3>1, NoneLonger
      <4> QED BY <3>2, <4>1
    <3>5. InsertAt(b[p], k, c) = Append(w, c)
      <4> HIDE DEF k, w, c, p
      <4>1. InsertAt(w, Len(w) + 1, c) = Append(w, c)
        BY <3>1, <1>5, InsertAtEnd
      <4> QED BY <3>2, <3>4, <4>1
    <3>6. w = t.children[p] \o Reverse(SubSeq(s, m + 1, Len(s)))
      BY <2>2 DEF Handed
    <3>7. Append(w, c) = t.children[p] \o Reverse(SubSeq(s, m, Len(s)))
      <4> DEFINE r == t.children[p]
      <4>1. r \in Seq(Item)
        BY <3>1, <1>1
      <4> HIDE DEF r
      <4>2. Append(r \o Reverse(SubSeq(s, m + 1, Len(s))), s[m]) = r \o Reverse(SubSeq(s, m, Len(s)))
        BY <4>1, <1>4, AppendReversed
      <4> QED BY <3>6, <4>2 DEF r
    <3>8. v.children = [b EXCEPT ![p] = Append(w, c)]
      BY <3>3, <3>5
    <3>9. v.children[x] = SubSeq(s, 1, m - 1) /\ v.children[p] = Append(w, c)
      <4> HIDE DEF v, w, c, p
      <4> QED BY <3>1, <3>8, <1>3, <1>8, <1>13
    <3>10. ASSUME NEW q \in Item \ {x, p} PROVE v.children[q] = t.children[q]
      <4>1. v.children[q] = u.children[q]
        <5> HIDE DEF v, w, c, p
        <5> QED BY <3>8, <1>3, <1>13
      <4> QED BY <4>1 DEF Handed
    <3> QED BY <3>7, <3>9, <3>10
  <2> QED BY <2>1, <2>2
<1>16. (m - 1) + 1 = m
  BY <1>4
<1>17. Handed(v, t, x, m - 1)
  <2>1. PICK k : k = m - 1 /\ k + 1 = m
    BY <1>16
  <2> HIDE DEF v
  <2>2. \A y \in Item : v.parent[y] = IF \E i \in k + 1 .. Len(s) : s[i] = y THEN p ELSE t.parent[y]
    BY <2>1, <1>14
  <2>3. /\ v.children[x] = SubSeq(s, 1, k)
        /\ p # NoItem => v.children[p] = t.children[p] \o Reverse(SubSeq(s, k + 1, Len(s)))
    BY <2>1, <1>15
  <2>4. Handed(v, t, x, k)
    BY <2>2, <2>3, <1>11, <1>15 DEF Handed
  <2> QED BY <2>1, <2>4
<1>18. Last(u.children[x]) = c
  BY <1>2, <1>5
<1> QED BY <1>17, <1>18

(* remove() as it runs: the children go up one by one, the last one first,   *)
(* then x leaves its parent.                                                *)
LEMMA RemoveIsLoop ==
  ASSUME NEW t, Sane(t), NEW x \in Item
  PROVE  RemoveFromTree(t, x) = RemoveLoop(t, x)
<1> DEFINE s == t.children[x]
           n == Len(s)
           p == t.parent[x]
           Step(u) == SetParent(u, Last(u.children[x]), p, AtEnd)
           Body(g, k) == IF k = 0 THEN t ELSE Step(g[k - 1])
           after == CHOOSE g : g = [k \in 0 .. n |-> Body(g, k)]
           run == [k \in 0 .. n |-> CHOOSE u : Handed(u, t, x, n - k)]
<1>1. /\ t.parent \in [Item -> ItemOrNone] /\ t.children \in [Item -> Seq(Item)]
      /\ \A q \in Item : Injective(t.children[q])
      /\ n \in Nat
  BY SaneElim, LenProperties
<1>2. RemoveLoop(t, x) = SetParent(after[n], x, NoItem, AtEnd)
  BY DEF RemoveLoop
<1>3. Handed(t, t, x, n)
  BY HandsStart
<1>4. ASSUME NEW m \in 1 .. n, NEW u, Handed(u, t, x, m)
      PROVE  Handed(Step(u), t, x, m - 1)
  BY <1>4, HandsUp
<1>5. ASSUME NEW m \in 0 .. n, NEW u, NEW v, Handed(u, t, x, m), Handed(v, t, x, m)
      PROVE  u = v
  <2>1. Sane(u) /\ Sane(v)
    BY <1>5 DEF Handed
  <2>2. /\ u.parent \in [Item -> ItemOrNone] /\ v.parent \in [Item -> ItemOrNone]
        /\ u.children \in [Item -> Seq(Item)] /\ v.children \in [Item -> Seq(Item)]
    BY <2>1, SaneElim
  <2>3. \A y \in Item : u.parent[y] = v.parent[y]
    BY <1>5 DEF Handed
  <2>4. \A q \in Item : u.children[q] = v.children[q]
    <3> TAKE q \in Item
    <3>1. CASE q = x
      BY <3>1, <1>5 DEF Handed
    <3>2. CASE q = p
      BY <3>2, <1>5, NoItemAssumption DEF Handed
    <3>3. CASE q \in Item \ {x, p}
      BY <3>3, <1>5 DEF Handed
    <3> QED BY <3>1, <3>2, <3>3
  <2>5. u.parent = v.parent /\ u.children = v.children
    BY <2>2, <2>3, <2>4
  <2> QED BY <2>1, <2>5, SameTree
<1> HIDE DEF Step
<1>6. \A k \in 0 .. n : Handed(run[k], t, x, n - k)
  <2> DEFINE P == {k \in Nat : k <= n => \E u : Handed(u, t, x, n - k)}
  <2>1. 0 \in P
    BY <1>1, <1>3
  <2>2. ASSUME NEW k \in P PROVE k + 1 \in P
    <3>1. SUFFICES ASSUME k + 1 <= n PROVE \E u : Handed(u, t, x, n - (k + 1))
      OBVIOUS
    <3>2. n - k \in 1 .. n /\ (n - k) - 1 = n - (k + 1) /\ k <= n
      BY <3>1, <1>1
    <3>3. PICK u : Handed(u, t, x, n - k)
      BY <3>2
    <3>4. Handed(Step(u), t, x, (n - k) - 1)
      BY <3>2, <3>3, <1>4
    <3> QED BY <3>2, <3>4
  <2> HIDE DEF P
  <2>3. P = Nat
    BY <2>1, <2>2, NatSetInduction DEF P
  <2>4. ASSUME NEW k \in 0 .. n PROVE Handed(run[k], t, x, n - k)
    <3>1. \E u : Handed(u, t, x, n - k)
      <4>1. k \in P /\ k <= n
        BY <2>3, <1>1
      <4> HIDE DEF n
      <4> QED BY <4>1 DEF P
    <3>2. run[k] = CHOOSE u : Handed(u, t, x, n - k)
      OBVIOUS
    <3> QED BY <3>1, <3>2
  <2> QED BY <2>4
<1>7. \A k \in 0 .. n : run[k] = Body(run, k)
  <2> TAKE k \in 0 .. n
  <2> HIDE DEF run
  <2>1. CASE k = 0
    <3>1. n - k = n /\ n \in 0 .. n
      BY <2>1, <1>1
    <3> QED BY <2>1, <3>1, <1>3, <1>5, <1>6
  <2>2. CASE k # 0
    <3>1. /\ k - 1 \in 0 .. n /\ n - (k - 1) \in 1 .. n
          /\ (n - (k - 1)) - 1 = n - k /\ n - k \in 0 .. n
      <4> HIDE DEF n
      <4> QED BY <2>2, <1>1
    <3>2. Handed(run[k - 1], t, x, n - (k - 1))
      BY <3>1, <1>6
    <3>3. Handed(Step(run[k - 1]), t, x, (n - (k - 1)) - 1)
      BY <3>1, <3>2, <1>4
    <3>4. Handed(Step(run[k - 1]), t, x, n - k)
      BY <3>1, <3>3
    <3> QED BY <2>2, <3>1, <3>4, <1>5, <1>6
  <2> QED BY <2>1, <2>2
<1>8. run = [k \in 0 .. n |-> Body(run, k)]
  <2>1. run = [k \in 0 .. n |-> run[k]]
    OBVIOUS
  <2> HIDE DEF run, Body
  <2> QED BY <2>1, <1>7
<1>9. after = [k \in 0 .. n |-> Body(after, k)]
  BY <1>8
<1> HIDE DEF after, run
<1>10. Handed(after[n], t, x, 0)
  <2> DEFINE P == {k \in Nat : k <= n => Handed(after[k], t, x, n - k)}
  <2>0. \A k \in 0 .. n : after[k] = Body(after, k)
    <3> HIDE DEF Body
    <3> QED BY <1>9
  <2>1. 0 \in P
    <3>1. 0 \in 0 .. n /\ n - 0 = n
      BY <1>1
    <3>2. after[0] = t
      BY <3>1, <2>0
    <3> QED BY <3>1, <3>2, <1>3
  <2>2. ASSUME NEW k \in P PROVE k + 1 \in P
    <3>1. SUFFICES ASSUME k + 1 <= n PROVE Handed(after[k + 1], t, x, n - (k + 1))
      OBVIOUS
    <3>2. /\ n - k \in 1 .. n /\ (n - k) - 1 = n - (k + 1) /\ k <= n
          /\ k + 1 \in 0 .. n /\ k + 1 # 0 /\ (k + 1) - 1 = k
      BY <3>1, <1>1
    <3>3. after[k + 1] = Step(after[k])
      BY <3>2, <2>0
    <3>4. Handed(after[k], t, x, n - k)
      BY <3>2
    <3>5. Handed(Step(after[k]), t, x, (n - k) - 1)
      BY <3>2, <3>4, <1>4
    <3> QED BY <3>2, <3>3, <3>5
  <2> HIDE DEF P
  <2>3. P = Nat
    BY <2>1, <2>2, NatSetInduction DEF P
  <2>4. n - n = 0 /\ n <= n
    BY <1>1
  <2> QED BY <2>3, <2>4, <1>1 DEF P
<1> DEFINE u == after[n]
           v == SetParent(u, x, NoItem, AtEnd)
           r == RemoveFromTree(t, x)
<1>11. Handed(u, t, x, 0) /\ Sane(u)
  BY <1>10 DEF Handed
<1> HIDE DEF u
<1>12. /\ u.parent \in [Item -> ItemOrNone] /\ u.children \in [Item -> Seq(Item)]
       /\ Consistent(u)
  BY <1>11, SaneElim DEF Sane
<1>13. s \in Seq(Item) /\ p \in ItemOrNone /\ p # x /\ AtEnd \in Nat
  <2>1. p \notin Subtree(t, x) /\ x \in Subtree(t, x)
    BY <1>1, SaneElim, ParentOutside, SubtreeClosed
  <2>2. s \in Seq(Item) /\ Injective(s)
    BY <1>1
  <2> HIDE DEF s
  <2>3. AtEnd \in Nat
    BY <2>2, NoneLonger
  <2> QED BY <1>1, <2>1, <2>2, <2>3
<1>14. SubSeq(s, 1, 0) = << >> /\ SubSeq(s, 0 + 1, n) = s
  BY <1>13, PrefixFacts
<1>15. /\ \A y \in Item : u.parent[y] = IF t.parent[y] = x THEN p ELSE t.parent[y]
       /\ u.children[x] = << >>
       /\ p # NoItem => u.children[p] = t.children[p] \o Reverse(s)
       /\ \A q \in Item \ {x, p} : u.children[q] = t.children[q]
  <2>1. ASSUME NEW y \in Item
        PROVE  (\E i \in 0 + 1 .. n : s[i] = y) <=> t.parent[y] = x
    <3>1. t.parent[y] = x <=> y \in ToSet(s)
      BY SaneElim
    <3>2. 0 + 1 = 1
      OBVIOUS
    <3> QED BY <3>1, <3>2, <1>13, ToSetDef
  <2> QED BY <2>1, <1>11, <1>14 DEF Handed
<1>16. u.parent[x] = p
  BY <1>15
<1>17. Sane(v) /\ v.parent = [u.parent EXCEPT ![x] = NoItem]
  <2>1. MayAdopt(u, NoItem, x) /\ NoItem \in ItemOrNone
    BY DEF MayAdopt, ItemOrNone
  <2> QED BY <2>1, <1>11, <1>13, SetParentSane
<1>18. v.children = RemoveChild(u.children, p, x)
  <2>1. CASE p = NoItem
    BY <2>1, <1>16 DEF SetParent, RemoveChild
  <2>2. CASE p # NoItem
    <3>0. Consistent(u) /\ NoItem \in ItemOrNone /\ AtEnd \in Nat /\ u.parent[x] # NoItem
      BY <2>2, <1>12, <1>13, <1>16 DEF ItemOrNone
    <3>1. v.children = AddChild(RemoveChild(u.children, u.parent[x], x), NoItem, x, AtEnd)
      <4> HIDE DEF p, s
      <4> QED BY <3>0, SetParentChildren
    <3> QED BY <3>1, <1>16 DEF AddChild
  <2> QED BY <2>1, <2>2
<1>19. Sane(r)
  BY RemovalsSane
<1> HIDE DEF v
<1>20. r.parent = v.parent
  <2>1. r.parent = [y \in Item |-> IF y = x THEN NoItem
                                  ELSE IF t.parent[y] = x THEN p ELSE t.parent[y]]
    BY DEF RemoveFromTree
  <2>2. v.parent \in [Item -> ItemOrNone]
    BY <1>17, SaneElim
  <2> HIDE DEF r, p
  <2> QED BY <2>1, <2>2, <1>12, <1>15, <1>17
<1>21. r.children = v.children
  <2> DEFINE handed == IF p = NoItem THEN t.children
                       ELSE [t.children EXCEPT ![p] = t.children[p] \o Reverse(s)]
  <2>1. r.children = [RemoveChild(handed, p, x) EXCEPT ![x] = << >>]
    BY DEF RemoveFromTree
  <2>2. u.children = [handed EXCEPT ![x] = << >>]
    <3>1. CASE p = NoItem
      <4>1. \A q \in Item : u.children[q] = IF q = x THEN << >> ELSE t.children[q]
        BY <3>1, <1>15, NoItemAssumption
      <4> QED BY <3>1, <4>1, <1>1, <1>12
    <3>2. CASE p # NoItem
      <4> DEFINE w == t.children[p] \o Reverse(s)
      <4>1. handed = [t.children EXCEPT ![p] = w]
        BY <3>2
      <4>2. u.children[x] = << >> /\ u.children[p] = w /\ \A q \in Item \ {x, p} : u.children[q] = t.children[q]
        BY <3>2, <1>15
      <4> HIDE DEF w, handed, p
      <4> QED BY <4>1, <4>2, <1>1, <1>12, <1>13
    <3> QED BY <3>1, <3>2
  <2>3. DOMAIN handed = Item
    BY <1>1
  <2> HIDE DEF handed
  <2>4. CASE p = NoItem
    BY <2>1, <2>2, <2>4, <1>18 DEF RemoveChild
  <2>5. CASE p # NoItem
    <3>1. p \in Item
      BY <2>5, <1>13 DEF ItemOrNone
    <3>2. RemoveChild(handed, p, x) = [handed EXCEPT ![p] = RemoveFirst(handed[p], x)]
      BY <2>5 DEF RemoveChild
    <3>3. v.children = [u.children EXCEPT ![p] = RemoveFirst(u.children[p], x)]
      BY <2>5, <1>18 DEF RemoveChild
    <3>4. u.children[p] = handed[p]
      <4> HIDE DEF p
      <4> QED BY <3>1, <2>2, <2>3, <1>13
    <3> DEFINE w == RemoveFirst(handed[p], x)
    <3>5. /\ r.children = [[handed EXCEPT ![p] = w] EXCEPT ![x] = << >>]
          /\ v.children = [[handed EXCEPT ![x] = << >>] EXCEPT ![p] = w]
      BY <3>2, <3>3, <3>4, <2>1, <2>2
    <3> HIDE DEF w, r, v, p
    <3> QED BY <3>1, <3>5, <2>3, <1>13
  <2> QED BY <2>4, <2>5
<1>22. r = v
  BY <1>17, <1>19, <1>20, <1>21, SameTree
<1> QED BY <1>2, <1>22 DEF v, u

(* The subtree of x is the only set with x that is closed in both directions. *)
LEMMA SubtreeIs ==
  ASSUME NEW t, t.parent \in [Item -> ItemOrNone], AcyclicIn(t), NEW x \in Item,
         NEW S \in SUBSET Item, x \in S,
         \A y \in Item : t.parent[y] \in S => y \in S,
         \A y \in S : y # x => t.parent[y] \in S
  PROVE  S = Subtree(t, x)
<1> DEFINE U == Subtree(t, x)
<1>1. /\ x \in U /\ U \in SUBSET Item
      /\ \A y \in Item : t.parent[y] \in U => y \in U
      /\ \A y \in U : y # x => t.parent[y] \in U
  BY SubtreeClosed
<1> HIDE DEF U
<1>2. S \ U = {}
  <2> SUFFICES ASSUME S \ U # {} PROVE FALSE
    OBVIOUS
  <2>1. PICK y \in S \ U : t.parent[y] \notin S \ U
    BY DEF AcyclicIn
  <2> QED BY <2>1, <1>1
<1>3. U \ S = {}
  <2> SUFFICES ASSUME U \ S # {} PROVE FALSE
    OBVIOUS
  <2>1. PICK y \in U \ S : t.parent[y] \notin U \ S
    BY <1>1 DEF AcyclicIn
  <2> QED BY <2>1, <1>1
<1> QED BY <1>2, <1>3 DEF U

(* The subtrees of two children have nothing in common. *)
LEMMA SiblingsApart ==
  ASSUME NEW t, t.parent \in [Item -> ItemOrNone], AcyclicIn(t),
         NEW c \in Item, NEW d \in Item, c # d, t.parent[c] = t.parent[d]
  PROVE  Subtree(t, c) \cap Subtree(t, d) = {}
<1> DEFINE C == Subtree(t, c)
           D == Subtree(t, d)
<1>1. /\ c \in C /\ C \in SUBSET Item
      /\ \A y \in C : y # c => t.parent[y] \in C
      /\ t.parent[c] \notin C
  BY SubtreeClosed, ParentOutside
<1>2. /\ d \in D /\ D \in SUBSET Item
      /\ \A y \in D : y # d => t.parent[y] \in D
      /\ t.parent[d] \notin D
  BY SubtreeClosed, ParentOutside
<1> HIDE DEF C, D
<1> SUFFICES ASSUME C \cap D # {} PROVE FALSE
  BY DEF C, D
<1>3. PICK y \in C \cap D : t.parent[y] \notin C \cap D
  BY <1>1 DEF AcyclicIn
<1> QED BY <1>1, <1>2, <1>3

(* What leaves with the children of x behind the first m. *)
Leaving(t, x, m) ==
  UNION {Subtree(t, t.children[x][i]) : i \in m + 1 .. Len(t.children[x])}

LEMMA LeavingFacts ==
  ASSUME NEW t, Sane(t), NEW x \in Item
  PROVE  /\ Leaving(t, x, Len(t.children[x])) = {}
         /\ Leaving(t, x, 0) = Subtree(t, x) \ {x}
         /\ \A m \in 1 .. Len(t.children[x]) :
              LET C == Subtree(t, t.children[x][m]) IN
              /\ Leaving(t, x, m - 1) = Leaving(t, x, m) \cup C
              /\ Leaving(t, x, m) \cap C = {}
              /\ x \notin C /\ x \notin Leaving(t, x, m)
<1> DEFINE s == t.children[x]
           n == Len(s)
           C(i) == Subtree(t, s[i])
<1>1. /\ t.parent \in [Item -> ItemOrNone] /\ AcyclicIn(t)
      /\ s \in Seq(Item) /\ Injective(s)
      /\ ToSet(s) = {y \in Item : t.parent[y] = x}
  BY SaneElim
<1>2. n \in Nat /\ DOMAIN s = 1 .. n
  BY <1>1, LenProperties
<1>3. \A i \in 1 .. n : s[i] \in Item /\ t.parent[s[i]] = x
  BY <1>1, <1>2, ToSetDef, ElementOfSeq
<1>4. \A i \in 1 .. n :
        /\ s[i] \in C(i) /\ C(i) \in SUBSET Item
        /\ \A y \in Item : t.parent[y] \in C(i) => y \in C(i)
        /\ \A y \in C(i) : y # s[i] => t.parent[y] \in C(i)
        /\ x \notin C(i)
  <2> TAKE i \in 1 .. n
  <2> DEFINE c == s[i]
  <2>1. c \in Item /\ t.parent[c] = x
    BY <1>3
  <2> HIDE DEF c
  <2>2. /\ c \in Subtree(t, c) /\ Subtree(t, c) \in SUBSET Item
        /\ \A y \in Item : t.parent[y] \in Subtree(t, c) => y \in Subtree(t, c)
        /\ \A y \in Subtree(t, c) : y # c => t.parent[y] \in Subtree(t, c)
        /\ x \notin Subtree(t, c)
    BY <2>1, <1>1, SubtreeClosed, ParentOutside
  <2> QED BY <2>2 DEF c
<1>5. \A i, j \in 1 .. n : i # j => C(i) \cap C(j) = {}
  <2> SUFFICES ASSUME NEW i \in 1 .. n, NEW j \in 1 .. n, i # j PROVE C(i) \cap C(j) = {}
    OBVIOUS
  <2>1. s[i] # s[j] /\ s[i] \in Item /\ s[j] \in Item /\ t.parent[s[i]] = t.parent[s[j]]
    BY <1>1, <1>3 DEF Injective
  <2> HIDE DEF s
  <2> QED BY <2>1, <1>1, SiblingsApart
<1>6. ASSUME NEW m \in Nat, NEW y
      PROVE  y \in Leaving(t, x, m) <=> \E i \in m + 1 .. n : y \in C(i)
  BY DEF Leaving
<1> HIDE DEF C
<1>7. Leaving(t, x, n) = {}
  BY <1>2, <1>6
<1>8. Leaving(t, x, 0) = Subtree(t, x) \ {x}
  <2> DEFINE S == Leaving(t, x, 0) \cup {x}
  <2>1. \A y : y \in Leaving(t, x, 0) <=> \E i \in 1 .. n : y \in C(i)
    BY <1>6
  <2>2. S \in SUBSET Item /\ x \in S /\ x \notin Leaving(t, x, 0)
    BY <2>1, <1>4
  <2>3. ASSUME NEW y \in Item, t.parent[y] \in S PROVE y \in S
    <3>1. CASE t.parent[y] = x
      <4>1. PICK i \in 1 .. n : s[i] = y
        BY <3>1, <1>1, ToSetDef
      <4> QED BY <4>1, <2>1, <1>4
    <3>2. CASE t.parent[y] \in Leaving(t, x, 0)
      BY <3>2, <2>1, <1>4
    <3> QED BY <2>3, <3>1, <3>2
  <2>4. ASSUME NEW y \in S, y # x PROVE t.parent[y] \in S
    <3>1. PICK i \in 1 .. n : y \in C(i)
      BY <2>4, <2>1
    <3>2. CASE y = s[i]
      BY <3>2, <1>3
    <3>3. CASE y # s[i]
      BY <3>1, <3>3, <2>1, <1>4
    <3> QED BY <3>2, <3>3
  <2> HIDE DEF S
  <2>5. S = Subtree(t, x)
    BY <2>2, <2>3, <2>4, <1>1, SubtreeIs
  <2> QED BY <2>2, <2>5 DEF S
<1>9. ASSUME NEW m \in 1 .. n
      PROVE  /\ Leaving(t, x, m - 1) = Leaving(t, x, m) \cup C(m)
             /\ Leaving(t, x, m) \cap C(m) = {}
             /\ x \notin C(m) /\ x \notin Leaving(t, x, m)
  <2>1. m - 1 \in Nat /\ m \in Nat /\ (m - 1) + 1 = m
        /\ (\A i : i \in m .. n <=> i \in m + 1 .. n \/ i = m)
        /\ \A i \in m + 1 .. n : i \in 1 .. n /\ i # m
    BY <1>2
  <2>2. \A y : y \in Leaving(t, x, m - 1) <=> \E i \in m .. n : y \in C(i)
    BY <2>1, <1>6
  <2>3. \A y : y \in Leaving(t, x, m) <=> \E i \in m + 1 .. n : y \in C(i)
    BY <2>1, <1>6
  <2>4. Leaving(t, x, m - 1) = Leaving(t, x, m) \cup C(m)
    BY <2>1, <2>2, <2>3
  <2>5. Leaving(t, x, m) \cap C(m) = {}
    BY <2>1, <2>3, <1>5
  <2> QED BY <2>1, <2>3, <2>4, <2>5, <1>4
<1> QED BY <1>7, <1>8, <1>9 DEF C

(* remove_all_children_recursively() on x at work: the first m children are  *)
(* still there, with all that hangs below them.                             *)
Gone(u, t, x, m) ==
  /\ Sane(u)
  /\ \A y \in Item : u.parent[y] = IF y \in Leaving(t, x, m) THEN NoItem ELSE t.parent[y]
  /\ u.children[x] = SubSeq(t.children[x], 1, m)
  /\ \A q \in Item \ {x} : u.children[q] = IF q \in Leaving(t, x, m) THEN << >>
                                           ELSE t.children[q]

LEMMA GoneOnce ==
  ASSUME NEW t, NEW x \in Item, NEW m, NEW u, NEW v, Gone(u, t, x, m), Gone(v, t, x, m)
  PROVE  u = v
<1>1. Sane(u) /\ Sane(v)
  BY DEF Gone
<1>2. /\ u.parent \in [Item -> ItemOrNone] /\ v.parent \in [Item -> ItemOrNone]
      /\ u.children \in [Item -> Seq(Item)] /\ v.children \in [Item -> Seq(Item)]
  BY <1>1, SaneElim
<1>3. \A y \in Item : u.parent[y] = v.parent[y]
  BY DEF Gone
<1>4. \A q \in Item : u.children[q] = v.children[q]
  BY DEF Gone
<1>5. u.parent = v.parent /\ u.children = v.children
  BY <1>2, <1>3, <1>4
<1> QED BY <1>1, <1>5, SameTree

LEMMA GoneStart ==
  ASSUME NEW t, Sane(t), NEW x \in Item
  PROVE  Gone(t, t, x, Len(t.children[x]))
<1>1. Leaving(t, x, Len(t.children[x])) = {}
  BY LeavingFacts
<1>2. t.children[x] \in Seq(Item)
  BY SaneElim
<1>3. SubSeq(t.children[x], 1, Len(t.children[x])) = t.children[x]
  BY <1>2, PrefixFacts
<1> QED BY <1>1, <1>3 DEF Gone

(* When all have gone, x has no children and everything below it is alone. *)
LEMMA GoneAll ==
  ASSUME NEW t, Sane(t), NEW x \in Item
  PROVE  Gone(RemoveChildrenFromTree(t, x), t, x, 0)
<1> DEFINE u == RemoveChildrenFromTree(t, x)
<1>1. Sane(u)
  BY RemovalsSane
<1>2. Leaving(t, x, 0) = Subtree(t, x) \ {x}
  BY LeavingFacts
<1>3. t.children[x] \in Seq(Item) /\ x \in Subtree(t, x)
  BY SaneElim, SubtreeClosed
<1>4. SubSeq(t.children[x], 1, 0) = << >>
  BY <1>3, PrefixFacts
<1>5. /\ u.parent = [y \in Item |-> IF y \in Subtree(t, x) \ {x} THEN NoItem ELSE t.parent[y]]
      /\ u.children = [y \in Item |-> IF y \in Subtree(t, x) THEN << >> ELSE t.children[y]]
  BY DEF RemoveChildrenFromTree, Dismantled
<1> HIDE DEF u
<1>6. Gone(u, t, x, 0)
  BY <1>1, <1>2, <1>3, <1>4, <1>5 DEF Gone
<1> QED BY <1>6 DEF u

(* What is below a child stays the same until it goes itself. *)
LEMMA GoneStays ==
  ASSUME NEW t, Sane(t), NEW x \in Item, NEW m \in 1 .. Len(t.children[x]),
         NEW u, Gone(u, t, x, m)
  PROVE  LET c == t.children[x][m] IN
         /\ c \in Item /\ Last(u.children[x]) = c /\ u.parent[c] = x
         /\ Subtree(u, c) = Subtree(t, c)
<1> DEFINE s == t.children[x]
           D == Leaving(t, x, m)
           c == s[m]
           C == Subtree(t, c)
<1>1. /\ t.parent \in [Item -> ItemOrNone] /\ AcyclicIn(t)
      /\ s \in Seq(Item) /\ Injective(s)
      /\ ToSet(s) = {y \in Item : t.parent[y] = x}
  BY SaneElim
<1>2. /\ Last(SubSeq(s, 1, m)) = c /\ c \in Item
  BY <1>1, EraseLast
<1>3. D \cap C = {}
  BY LeavingFacts
<1>4. t.parent[c] = x
  BY <1>1, <1>2, ToSetDef
<1> HIDE DEF s, D, c
<1>5. /\ c \in C /\ C \in SUBSET Item
      /\ \A y \in Item : t.parent[y] \in C => y \in C
      /\ \A y \in C : y # c => t.parent[y] \in C
  BY <1>1, <1>2, SubtreeClosed
<1>6. /\ Sane(u) /\ u.children[x] = SubSeq(s, 1, m)
      /\ \A y \in Item : u.parent[y] = IF y \in D THEN NoItem ELSE t.parent[y]
  BY DEF Gone, D, s
<1>7. u.parent \in [Item -> ItemOrNone] /\ AcyclicIn(u)
  BY <1>6, SaneElim
<1> HIDE DEF C
<1>8. u.parent[c] = x
  BY <1>2, <1>3, <1>4, <1>5, <1>6
<1>9. /\ \A y \in Item : u.parent[y] \in C => y \in C
      /\ \A y \in C : y # c => u.parent[y] \in C
  BY <1>3, <1>5, <1>6, NoItemAssumption
<1>10. C = Subtree(u, c)
  BY <1>2, <1>5, <1>7, <1>9, SubtreeIs
<1> QED BY <1>2, <1>6, <1>8, <1>10 DEF C, c, s

LEMMA GoesOn ==
  ASSUME NEW t, Sane(t), NEW x \in Item, NEW m \in 1 .. Len(t.children[x]),
         NEW u, Gone(u, t, x, m)
  PROVE  Gone(RecursiveRemoveFromTree(u, Last(u.children[x])), t, x, m - 1)
<1> DEFINE s == t.children[x]
           D == Leaving(t, x, m)
           E == Leaving(t, x, m - 1)
           c == s[m]
           C == Subtree(t, c)
           v == RecursiveRemoveFromTree(u, c)
<1>1. /\ c \in Item /\ Last(u.children[x]) = c /\ u.parent[c] = x
      /\ Subtree(u, c) = C
  BY GoneStays
<1>2. E = D \cup C /\ x \notin C
  BY LeavingFacts
<1>3. /\ Sane(u) /\ u.children[x] = SubSeq(s, 1, m)
      /\ \A y \in Item : u.parent[y] = IF y \in D THEN NoItem ELSE t.parent[y]
      /\ \A q \in Item \ {x} : u.children[q] = IF q \in D THEN << >> ELSE t.children[q]
  BY DEF Gone
<1>4. s \in Seq(Item) /\ Injective(s)
  BY SaneElim
<1>5. RemoveFirst(SubSeq(s, 1, m), c) = SubSeq(s, 1, m - 1)
  BY <1>4, EraseLast
<1>6. Sane(v)
  <2> HIDE DEF c
  <2> QED BY <1>1, <1>3, RemovalsSane
<1> DEFINE left == [y \in Item |-> IF y \in C THEN << >> ELSE u.children[y]]
<1>7. /\ v.parent = [y \in Item |-> IF y \in C THEN NoItem ELSE u.parent[y]]
      /\ v.children = RemoveChild(left, x, c)
  <2> HIDE DEF c, C
  <2> QED BY <1>1 DEF RecursiveRemoveFromTree, Dismantled
<1> HIDE DEF v, c, C, D, E, s
<1>8. x # NoItem
  BY NoItemAssumption
<1>9. v.children = [left EXCEPT ![x] = SubSeq(s, 1, m - 1)]
  <2>1. left[x] = SubSeq(s, 1, m)
    BY <1>2, <1>3
  <2> HIDE DEF left
  <2>2. RemoveChild(left, x, c) = [left EXCEPT ![x] = RemoveFirst(left[x], c)]
    BY <1>8 DEF RemoveChild
  <2> QED BY <2>1, <2>2, <1>5, <1>7
<1>10. /\ v.children[x] = SubSeq(s, 1, m - 1)
       /\ \A q \in Item \ {x} : v.children[q] = IF q \in E THEN << >> ELSE t.children[q]
  BY <1>2, <1>3, <1>9
<1>11. \A y \in Item : v.parent[y] = IF y \in E THEN NoItem ELSE t.parent[y]
  BY <1>2, <1>3, <1>7
<1>12. Gone(v, t, x, m - 1)
  BY <1>6, <1>10, <1>11 DEF Gone, E, s
<1> QED BY <1>1, <1>12 DEF v

(* f removes recursively below x, in every tree. *)
RemovesBelow(f, t, x) ==
  \A u \in SoundTree, c \in Item :
    Sane(u) /\ Subtree(u, c) \in SUBSET (Subtree(t, x) \ {x})
      => f[<<u, c>>] = RecursiveRemoveFromTree(u, c)

LEMMA SaneTrees ==
  ASSUME NEW t
  PROVE  Sane(t) <=> t \in SoundTree
BY DEF Sane, Consistent, SoundTree

(* While there are children, the last one is removed: all of them go. *)
LEMMA EmptiedIsAll ==
  ASSUME NEW t, Sane(t), NEW x \in Item, NEW f, RemovesBelow(f, t, x)
  PROVE  Emptied(f, t, x) = RemoveChildrenFromTree(t, x)
<1> DEFINE s == t.children[x]
           n == Len(s)
           Step(u) == f[<<u, Last(u.children[x])>>]
           Body(g, k) == IF k = 0 THEN t ELSE Step(g[k - 1])
           after == CHOOSE g : g = [k \in 0 .. n |-> Body(g, k)]
           run == [k \in 0 .. n |-> CHOOSE u : Gone(u, t, x, n - k)]
<1>1. n \in Nat
  <2>1. s \in Seq(Item)
    BY SaneElim
  <2> QED BY <2>1, LenProperties
<1>2. Emptied(f, t, x) = after[n]
  BY DEF Emptied
<1>3. Gone(t, t, x, n)
  BY GoneStart
<1>4. ASSUME NEW m \in 1 .. n, NEW u, Gone(u, t, x, m)
      PROVE  Gone(Step(u), t, x, m - 1)
  <2> DEFINE c == s[m]
  <2>1. /\ c \in Item /\ Last(u.children[x]) = c
        /\ Subtree(u, c) = Subtree(t, c)
    BY <1>4, GoneStays
  <2>2. u \in SoundTree /\ Sane(u)
    BY <1>4, SaneTrees DEF Gone
  <2>3. Subtree(u, c) \in SUBSET (Subtree(t, x) \ {x})
    <3>1. /\ Leaving(t, x, 0) = Subtree(t, x) \ {x}
          /\ Leaving(t, x, 0) = UNION {Subtree(t, s[i]) : i \in 0 + 1 .. n}
      BY LeavingFacts DEF Leaving
    <3>2. m \in 0 + 1 .. n
      BY <1>1
    <3> HIDE DEF s
    <3> QED BY <3>1, <3>2, <2>1 DEF c
  <2> HIDE DEF c
  <2>4. f[<<u, c>>] = RecursiveRemoveFromTree(u, c)
    BY <2>1, <2>2, <2>3 DEF RemovesBelow
  <2>5. Gone(RecursiveRemoveFromTree(u, Last(u.children[x])), t, x, m - 1)
    BY <1>4, GoesOn
  <2> QED BY <2>1, <2>4, <2>5
<1>5. ASSUME NEW m, NEW u, NEW v, Gone(u, t, x, m), Gone(v, t, x, m)
      PROVE  u = v
  BY <1>5, GoneOnce
<1> HIDE DEF Step
<1>6. \A k \in 0 .. n : Gone(run[k], t, x, n - k)
  <2> DEFINE P == {k \in Nat : k <= n => \E u : Gone(u, t, x, n - k)}
  <2>1. 0 \in P
    BY <1>1, <1>3
  <2>2. ASSUME NEW k \in P PROVE k + 1 \in P
    <3>1. SUFFICES ASSUME k + 1 <= n PROVE \E u : Gone(u, t, x, n - (k + 1))
      OBVIOUS
    <3>2. n - k \in 1 .. n /\ (n - k) - 1 = n - (k + 1) /\ k <= n
      BY <3>1, <1>1
    <3>3. PICK u : Gone(u, t, x, n - k)
      BY <3>2
    <3>4. Gone(Step(u), t, x, (n - k) - 1)
      BY <3>2, <3>3, <1>4
    <3> QED BY <3>2, <3>4
  <2> HIDE DEF P
  <2>3. P = Nat
    BY <2>1, <2>2, NatSetInduction DEF P
  <2>4. ASSUME NEW k \in 0 .. n PROVE Gone(run[k], t, x, n - k)
    <3>1. \E u : Gone(u, t, x, n - k)
      <4>1. k \in P /\ k <= n
        BY <2>3, <1>1
      <4> HIDE DEF n
      <4> QED BY <4>1 DEF P
    <3>2. run[k] = CHOOSE u : Gone(u, t, x, n - k)
      OBVIOUS
    <3> QED BY <3>1, <3>2
  <2> QED BY <2>4
<1>7. \A k \in 0 .. n : run[k] = Body(run, k)
  <2> TAKE k \in 0 .. n
  <2> HIDE DEF run
  <2>1. CASE k = 0
    <3>1. n - k = n
      BY <2>1, <1>1
    <3> QED BY <2>1, <3>1, <1>3, <1>5, <1>6
  <2>2. CASE k # 0
    <3>1. /\ k - 1 \in 0 .. n /\ n - (k - 1) \in 1 .. n
          /\ (n - (k - 1)) - 1 = n - k
      <4> HIDE DEF n
      <4> QED BY <2>2, <1>1
    <3>2. Gone(run[k - 1], t, x, n - (k - 1))
      BY <3>1, <1>6
    <3>3. Gone(Step(run[k - 1]), t, x, (n - (k - 1)) - 1)
      BY <3>1, <3>2, <1>4
    <3>4. Gone(Step(run[k - 1]), t, x, n - k)
      BY <3>1, <3>3
    <3> QED BY <2>2, <3>4, <1>5, <1>6
  <2> QED BY <2>1, <2>2
<1>8. run = [k \in 0 .. n |-> Body(run, k)]
  <2>1. run = [k \in 0 .. n |-> run[k]]
    OBVIOUS
  <2> HIDE DEF run, Body
  <2> QED BY <2>1, <1>7
<1>9. after = [k \in 0 .. n |-> Body(after, k)]
  BY <1>8
<1> HIDE DEF after, run
<1>10. Gone(after[n], t, x, 0)
  <2> DEFINE P == {k \in Nat : k <= n => Gone(after[k], t, x, n - k)}
  <2>0. \A k \in 0 .. n : after[k] = Body(after, k)
    <3> HIDE DEF Body
    <3> QED BY <1>9
  <2>1. 0 \in P
    <3>1. 0 \in 0 .. n /\ n - 0 = n
      BY <1>1
    <3>2. after[0] = t
      BY <3>1, <2>0
    <3> QED BY <3>1, <3>2, <1>3
  <2>2. ASSUME NEW k \in P PROVE k + 1 \in P
    <3>1. SUFFICES ASSUME k + 1 <= n PROVE Gone(after[k + 1], t, x, n - (k + 1))
      OBVIOUS
    <3>2. /\ n - k \in 1 .. n /\ (n - k) - 1 = n - (k + 1) /\ k <= n
          /\ k + 1 \in 0 .. n /\ k + 1 # 0 /\ (k + 1) - 1 = k
      BY <3>1, <1>1
    <3>3. after[k + 1] = Step(after[k])
      BY <3>2, <2>0
    <3>4. Gone(after[k], t, x, n - k)
      BY <3>2
    <3>5. Gone(Step(after[k]), t, x, (n - k) - 1)
      BY <3>2, <3>4, <1>4
    <3> QED BY <3>2, <3>3, <3>5
  <2> HIDE DEF P
  <2>3. P = Nat
    BY <2>1, <2>2, NatSetInduction DEF P
  <2>4. n - n = 0 /\ n <= n
    BY <1>1
  <2> QED BY <2>3, <2>4, <1>1 DEF P
<1>11. Gone(RemoveChildrenFromTree(t, x), t, x, 0)
  BY GoneAll
<1> HIDE DEF n
<1> QED BY <1>2, <1>5, <1>10, <1>11

(* When x itself leaves as well, its whole subtree is taken apart. *)
LEMMA RemovedAfterChildren ==
  ASSUME NEW t, Sane(t), NEW x \in Item
  PROVE  SetParent(RemoveChildrenFromTree(t, x), x, NoItem, AtEnd)
           = RecursiveRemoveFromTree(t, x)
<1> DEFINE u == RemoveChildrenFromTree(t, x)
           v == SetParent(u, x, NoItem, AtEnd)
           r == RecursiveRemoveFromTree(t, x)
           S == Subtree(t, x)
           p == t.parent[x]
           left == [y \in Item |-> IF y \in S THEN << >> ELSE t.children[y]]
<1>1. Sane(u) /\ Sane(r)
  BY RemovalsSane
<1>2. /\ u.parent = [y \in Item |-> IF y \in S \ {x} THEN NoItem ELSE t.parent[y]]
      /\ u.children = left
  BY DEF RemoveChildrenFromTree, Dismantled
<1>3. /\ r.parent = [y \in Item |-> IF y \in S THEN NoItem ELSE t.parent[y]]
      /\ r.children = RemoveChild(left, p, x)
  BY DEF RecursiveRemoveFromTree, Dismantled
<1> HIDE DEF u, r
<1>4. t.parent \in [Item -> ItemOrNone] /\ x \in S /\ Consistent(u)
  BY <1>1, SaneElim, SubtreeClosed DEF Sane
<1> HIDE DEF S, left
<1>5. u.parent[x] = p
  BY <1>2
<1>6. AtEnd \in Nat /\ NoItem \in ItemOrNone /\ MayAdopt(u, NoItem, x)
  BY ItemsAssumption, FS_CardinalityType DEF AtEnd, ItemOrNone, MayAdopt
<1>7. Sane(v) /\ v.parent = [u.parent EXCEPT ![x] = NoItem]
  BY <1>1, <1>6, SetParentSane
<1>8. v.children = RemoveChild(left, p, x)
  <2>1. CASE p = NoItem
    BY <2>1, <1>2, <1>5 DEF SetParent, RemoveChild
  <2>2. CASE p # NoItem
    <3>1. v.children = AddChild(RemoveChild(u.children, u.parent[x], x), NoItem, x, AtEnd)
      BY <2>2, <1>4, <1>5, <1>6, SetParentChildren
    <3> QED BY <3>1, <1>2, <1>5 DEF AddChild
  <2> QED BY <2>1, <2>2
<1> HIDE DEF v, p
<1>9. v.parent = r.parent
  BY <1>2, <1>3, <1>4, <1>7
<1>10. v = r
  BY <1>1, <1>3, <1>7, <1>8, <1>9, SameTree
<1> QED BY <1>10 DEF v, u, r

(* The recursion of recursive_remove() ends, and with the stated result: by  *)
(* induction on the number of items in the subtree.                         *)
LEMMA RecursiveRemoveIsLoop ==
  /\ \A t \in SoundTree, x \in Item :
       RecursiveRemoveLoop[<<t, x>>] = RecursiveRemoveFromTree(t, x)
  /\ \A t \in SoundTree, x \in Item :
       RemoveChildrenLoop(t, x) = RemoveChildrenFromTree(t, x)
<1> DEFINE Body(g, t, x) == SetParent(Emptied(g, t, x), x, NoItem, AtEnd)
           loop == CHOOSE g : g = [call \in SoundTree \X Item |-> Body(g, call[1], call[2])]
           result == [call \in SoundTree \X Item |-> RecursiveRemoveFromTree(call[1], call[2])]
<1>1. ASSUME NEW g, NEW t \in SoundTree, NEW x \in Item, RemovesBelow(g, t, x)
      PROVE  Body(g, t, x) = RecursiveRemoveFromTree(t, x)
  <2>1. Sane(t)
    BY SaneTrees
  <2> QED BY <2>1, <1>1, EmptiedIsAll, RemovedAfterChildren
<1>2. \A t \in SoundTree, x \in Item : result[<<t, x>>] = RecursiveRemoveFromTree(t, x)
  OBVIOUS
<1>3. \A t \in SoundTree, x \in Item : result[<<t, x>>] = Body(result, t, x)
  <2> HIDE DEF result
  <2>1. \A t \in SoundTree, x \in Item : RemovesBelow(result, t, x)
    BY <1>2 DEF RemovesBelow
  <2> HIDE DEF Body
  <2> QED BY <2>1, <1>1, <1>2
<1>4. result = [call \in SoundTree \X Item |-> Body(result, call[1], call[2])]
  <2>1. result = [call \in SoundTree \X Item |-> result[call]]
    OBVIOUS
  <2>2. \A call \in SoundTree \X Item : call = <<call[1], call[2]>> /\ call[1] \in SoundTree /\ call[2] \in Item
    OBVIOUS
  <2> HIDE DEF result, Body
  <2>3. \A call \in SoundTree \X Item : result[call] = Body(result, call[1], call[2])
    BY <2>2, <1>3
  <2> QED BY <2>1, <2>3
<1>5. loop = [call \in SoundTree \X Item |-> Body(loop, call[1], call[2])]
  <2> HIDE DEF result, Body
  <2> QED BY <1>4
<1>6. RecursiveRemoveLoop = loop
  BY DEF RecursiveRemoveLoop
<1> HIDE DEF loop, result, Body
<1>7. \A t \in SoundTree, x \in Item : loop[<<t, x>>] = Body(loop, t, x)
  BY <1>5
<1> DEFINE Right(t, x) == loop[<<t, x>>] = RecursiveRemoveFromTree(t, x)
           P == {k \in Nat : \A t \in SoundTree, x \in Item :
                               Cardinality(Subtree(t, x)) <= k => Right(t, x)}
<1>8. \A t \in SoundTree, x \in Item :
         /\ x \in Subtree(t, x) /\ IsFiniteSet(Subtree(t, x))
         /\ Cardinality(Subtree(t, x)) \in Nat /\ Cardinality(Subtree(t, x)) # 0
  <2> TAKE t \in SoundTree, x \in Item
  <2>1. x \in Subtree(t, x) /\ Subtree(t, x) \in SUBSET Item
    BY SaneTrees, SaneElim, SubtreeClosed
  <2>2. IsFiniteSet(Subtree(t, x))
    BY <2>1, ItemsAssumption, FS_Subset
  <2> QED BY <2>1, <2>2, FS_CardinalityType, FS_EmptySet
<1>9. ASSUME NEW k \in Nat, NEW t \in SoundTree, NEW x \in Item,
             Cardinality(Subtree(t, x)) <= k + 1, k \in P
      PROVE  RemovesBelow(loop, t, x)
  <2>1. SUFFICES ASSUME NEW u \in SoundTree, NEW c \in Item,
                        Subtree(u, c) \in SUBSET (Subtree(t, x) \ {x})
                 PROVE  Right(u, c)
    BY DEF RemovesBelow
  <2>2. /\ x \in Subtree(t, x) /\ IsFiniteSet(Subtree(t, x))
        /\ Cardinality(Subtree(t, x)) \in Nat
        /\ Cardinality(Subtree(u, c)) \in Nat
    BY <1>8
  <2>3. Cardinality(Subtree(u, c)) < Cardinality(Subtree(t, x))
    <3> DEFINE C == Subtree(u, c)
               S == Subtree(t, x)
    <3> HIDE DEF C, S
    <3>1. C \in SUBSET S /\ C # S /\ IsFiniteSet(S)
      BY <2>1, <2>2 DEF C, S
    <3>2. Cardinality(C) <= Cardinality(S) /\ (Cardinality(S) = Cardinality(C) => S = C)
      BY <3>1, FS_Subset
    <3>3. Cardinality(C) \in Nat /\ Cardinality(S) \in Nat
      BY <2>2 DEF C, S
    <3> QED BY <3>1, <3>2, <3>3 DEF C, S
  <2>4. Cardinality(Subtree(u, c)) <= k
    BY <2>2, <2>3, <1>9
  <2> QED BY <2>4, <1>9
<1>10. 0 \in P
  <2> HIDE DEF Right
  <2> QED BY <1>8
<1>11. ASSUME NEW k \in P PROVE k + 1 \in P
  <2>1. k \in Nat /\ k + 1 \in Nat
    OBVIOUS
  <2>2. ASSUME NEW t \in SoundTree, NEW x \in Item, Cardinality(Subtree(t, x)) <= k + 1
        PROVE  Right(t, x)
    <3>1. RemovesBelow(loop, t, x)
      BY <2>1, <2>2, <1>9
    <3>2. Body(loop, t, x) = RecursiveRemoveFromTree(t, x)
      BY <3>1, <1>1
    <3> QED BY <3>2, <1>7
  <2> HIDE DEF Right
  <2> QED BY <2>1, <2>2
<1>12. P = Nat
  <2> HIDE DEF P
  <2>1. P \in SUBSET Nat
    BY DEF P
  <2> QED BY <2>1, <1>10, <1>11, NatSetInduction
<1>13. \A t \in SoundTree, x \in Item : Right(t, x)
  <2> TAKE t \in SoundTree, x \in Item
  <2>1. PICK k \in Nat : k = Cardinality(Subtree(t, x))
    BY <1>8
  <2>2. k \in P /\ k <= k
    BY <1>12
  <2> HIDE DEF Right
  <2> QED BY <2>1, <2>2
<1>14. ASSUME NEW t \in SoundTree, NEW x \in Item
       PROVE  RemoveChildrenLoop(t, x) = RemoveChildrenFromTree(t, x)
  <2>1. RemovesBelow(loop, t, x)
    BY <1>13 DEF RemovesBelow
  <2>2. Sane(t)
    BY SaneTrees
  <2>3. Emptied(loop, t, x) = RemoveChildrenFromTree(t, x)
    BY <2>1, <2>2, EmptiedIsAll
  <2> QED BY <2>3, <1>6 DEF RemoveChildrenLoop
<1> QED BY <1>6, <1>13, <1>14
=============================================================================
