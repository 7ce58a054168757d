--------------------------- MODULE SceneEditingProofs -------------------------
(***************************************************************************)
(* The operation stack, for every finite set of items, every scene and     *)
(* every length of the history: undo and redo are exact, no operation      *)
(* fails, the tree stays sound and only what is shown is selected, when a  *)
(* frame handles one command before update() runs what it queued. With two *)
(* commands per frame it is not so: see ParentsAsExpected in MCSceneEditing. *)
(*                                                                         *)
(* The way there: each kind of step has its way back on the tree it is     *)
(* executed on (ReparentUndone, RepositionUndone, RemoveUndone,            *)
(* InsertUndone); so have compounds of steps whose trees allow each step   *)
(* in turn (CompoundRuns), and what the commands build are such compounds  *)
(* (BuiltEdit, DeleteBuilds, MoveBuilds ...); then the trees that were     *)
(* there before each operation of the two lists are an invariant.          *)
(***************************************************************************)
EXTENDS SceneHistory, ItemTreeProofs

-----------------------------------------------------------------------------
(* Moves of one item *)

(* A document of a program that runs. *)
Doc(t, S) == [tree |-> t, selection |-> S, fault |-> "none"]

(* The parts of a document, and of one that differs in a part. *)
LEMMA DocFields ==
  ASSUME NEW t, NEW S
  PROVE  /\ Doc(t, S).tree = t /\ Doc(t, S).selection = S /\ Doc(t, S).fault = "none"
         /\ \A u : [Doc(t, S) EXCEPT !.tree = u] = Doc(u, S)
         /\ \A R : [Doc(t, S) EXCEPT !.selection = R] = Doc(t, R)
BY DEF Doc

(* A step that hangs an item below one that may adopt it does not fail. *)
LEMMA HangRuns ==
  ASSUME NEW t, NEW S, NEW x \in Item, NEW p \in ItemOrNone, NEW position, p # x,
         MayAdopt(t, p, x)
  PROVE  Hang(Doc(t, S), x, p, position) = Doc(SetParent(t, x, p, position), S)
<1>1. [Doc(t, S) EXCEPT !.tree = SetParent(t, x, p, position)]
        = Doc(SetParent(t, x, p, position), S)
  BY DocFields
<1>2. [Doc(t, S) EXCEPT !.tree = SetParent(Doc(t, S).tree, x, p, position)]
        = Doc(SetParent(t, x, p, position), S)
  BY <1>1, DocFields
<1>3. MayAdopt(Doc(t, S).tree, p, x)
  BY DocFields
<1> QED BY <1>2, <1>3 DEF Hang

(* Where execute() of a reparent step puts the item. *)
NewPlace(t, op) ==
  IF op.before # NoItem THEN IndexInParent(t, op.before)
  ELSE IF op.after # NoItem THEN IndexInParent(t, op.after) + 1
  ELSE Len(t.children[op.to])

(* What execute() of a move writes into the operation: the index to go back *)
(* to.                                                                      *)
Captured(t, op) == [op EXCEPT !.index = IndexInParent(t, op.item)]

(* The tree after a reparent step. *)
After(t, op) == SetParent(t, op.item, op.to, NewPlace(t, op))

(* Capturing the index changes no other field, and capturing it twice       *)
(* nothing.                                                                 *)
LEMMA CapturedFields ==
  ASSUME NEW t, Consistent(t), NEW op \in ReparentStep, NEW c, c = Captured(t, op)
  PROVE  /\ c \in ReparentStep
         /\ c.kind = op.kind /\ c.item = op.item /\ c.from = op.from /\ c.to = op.to
         /\ c.before = op.before /\ c.after = op.after
         /\ c.index = IndexInParent(t, op.item)
         /\ [c EXCEPT !.index = IndexInParent(t, c.item)] = c
<1>1. op.item \in Item
  BY DEF ReparentStep
<1>2. IndexInParent(t, op.item) \in Nat
  BY <1>1, IndexFacts
<1>3. /\ c.kind = op.kind /\ c.item = op.item /\ c.from = op.from /\ c.to = op.to
      /\ c.before = op.before /\ c.after = op.after
      /\ c.index = IndexInParent(t, op.item)
      /\ c \in ReparentStep
  BY <1>2 DEF Captured, ReparentStep
<1>4. [c EXCEPT !.index = IndexInParent(t, c.item)] = c
  BY <1>3 DEF ReparentStep
<1> QED BY <1>3, <1>4

(* A reparent step that the tree allows. *)
MayReparent(t, op) ==
  /\ op \in ReparentStep
  /\ t.parent[op.item] = op.from
  /\ op.to \in Item /\ op.to # op.item
  /\ MayAdopt(t, op.to, op.item)

(* A reparent step that the tree allows does what it should and does not    *)
(* fail.                                                                    *)
LEMMA ReparentRuns ==
  ASSUME NEW t, Sane(t), NEW op, MayReparent(t, op), NEW S
  PROVE  ExecuteReparent(Doc(t, S), op) = Done(Doc(After(t, op), S), Captured(t, op))
<1>1. /\ op.item \in Item /\ op.to \in ItemOrNone /\ op.to # NoItem
  BY NoItemAssumption DEF MayReparent, ReparentStep, ItemOrNone
<1>2. Doc(t, S).tree = t
  BY DocFields
<1>3. Hang(Doc(t, S), op.item, op.to, NewPlace(t, op)) = Doc(After(t, op), S)
  BY <1>1, HangRuns DEF MayReparent, After
<1> QED BY <1>1, <1>2, <1>3 DEF ExecuteReparent, MayReparent, Captured, NewPlace

(* The place of a moved item is an index. *)
LEMMA PlaceIsNat ==
  ASSUME NEW t, Consistent(t), NEW op \in ReparentStep, op.to \in Item
  PROVE  NewPlace(t, op) \in Nat
<1>1. CASE op.before # NoItem
  <2>1. op.before \in Item
    BY <1>1 DEF ReparentStep, ItemOrNone
  <2>2. IndexInParent(t, op.before) \in Nat
    BY <2>1, IndexFacts
  <2> QED BY <1>1, <2>2 DEF NewPlace
<1>2. CASE op.before = NoItem /\ op.after # NoItem
  <2>1. op.after \in Item
    BY <1>2 DEF ReparentStep, ItemOrNone
  <2>2. IndexInParent(t, op.after) \in Nat
    BY <2>1, IndexFacts
  <2> QED BY <1>2, <2>2 DEF NewPlace
<1>3. CASE op.before = NoItem /\ op.after = NoItem
  <2>1. t.children[op.to] \in Seq(Item)
    BY ConsistentElim
  <2> QED BY <1>3, <2>1, LenProperties DEF NewPlace
<1> QED BY <1>1, <1>2, <1>3

(* What a reparent step makes of the tree, captures and takes back. *)
Reparented(t, op, u, c) ==
  /\ Sane(u) /\ u.parent = [t.parent EXCEPT ![op.item] = op.to]
  /\ c \in ReparentStep
  /\ \A S : /\ ExecuteReparent(Doc(t, S), op) = Done(Doc(u, S), c)
            /\ ExecuteReparent(Doc(t, S), c) = Done(Doc(u, S), c)
            /\ UndoReparent(Doc(u, S), c) = Done(Doc(t, S), c)

(* Item_parent_change_operation::undo() is exact, to the order of the         *)
(* children: execute() captures the index, undo() inserts there.            *)
THEOREM ReparentUndone ==
  ASSUME NEW t, Sane(t), NEW op, MayReparent(t, op)
  PROVE  Reparented(t, op, After(t, op), Captured(t, op))
<1> DEFINE u == After(t, op)
           c == Captured(t, op)
<1>1. /\ op \in ReparentStep /\ op.item \in Item /\ op.to \in Item /\ op.to \in ItemOrNone
      /\ op.to # op.item /\ op.from = t.parent[op.item] /\ MayAdopt(t, op.to, op.item)
  BY DEF MayReparent, ReparentStep, ItemOrNone
<1>2. Consistent(t) /\ AcyclicIn(t)
  BY DEF Sane
<1>3. t.parent \in [Item -> ItemOrNone]
  BY <1>2, ConsistentElim
<1>4. NewPlace(t, op) \in Nat
  BY <1>1, <1>2, PlaceIsNat
<1>5. Sane(u) /\ u.parent = [t.parent EXCEPT ![op.item] = op.to]
  BY <1>1, <1>4, SetParentSane DEF After
<1>6. /\ c \in ReparentStep
      /\ c.kind = op.kind /\ c.item = op.item /\ c.from = op.from /\ c.to = op.to
      /\ c.before = op.before /\ c.after = op.after
      /\ c.index = IndexInParent(t, op.item)
      /\ [c EXCEPT !.index = IndexInParent(t, c.item)] = c
  BY <1>1, <1>2, CapturedFields
<1>7. MayReparent(t, c)
  BY <1>1, <1>6 DEF MayReparent
<1>8. After(t, c) = u /\ Captured(t, c) = c
  BY <1>6 DEF After, NewPlace, Captured
<1>9. ASSUME NEW S PROVE ExecuteReparent(Doc(t, S), op) = Done(Doc(u, S), c)
  BY ReparentRuns
<1>10. ASSUME NEW S PROVE ExecuteReparent(Doc(t, S), c) = Done(Doc(u, S), c)
  <2> HIDE DEF c, u
  <2>1. ExecuteReparent(Doc(t, S), c) = Done(Doc(After(t, c), S), Captured(t, c))
    BY <1>7, ReparentRuns
  <2> QED BY <1>8, <2>1
<1>11. ASSUME NEW S PROVE UndoReparent(Doc(u, S), c) = Done(Doc(t, S), c)
  <2> DEFINE i == IndexInParent(t, op.item)
             q == NewPlace(t, op)
  <2>1. u = SetParent(t, op.item, op.to, q)
    BY DEF After
  <2>2. SetParent(u, op.item, op.from, i) = t
    <3> HIDE DEF u, q
    <3>1. q \in Nat
      BY <1>4 DEF q
    <3>2. SetParent(SetParent(t, op.item, op.to, q), op.item, t.parent[op.item], i) = t
      BY <1>1, <3>1, SetParentUndone
    <3> QED BY <1>1, <2>1, <3>2
  <2> HIDE DEF u, c
  <2>3. MayAdopt(u, op.from, op.item)
    BY <1>1, <1>2, <1>3, <1>5, MayReturn
  <2>4. op.from # op.item /\ op.from \in ItemOrNone
    <3>1. op.from \in ItemOrNone
      BY <1>1, <1>3
    <3>2. op.from # NoItem => op.from # op.item
      BY <2>3 DEF MayAdopt
    <3> QED BY <1>1, <3>1, <3>2, NoItemAssumption
  <2>5. Hang(Doc(u, S), op.item, op.from, i) = Doc(SetParent(u, op.item, op.from, i), S)
    BY <1>1, <2>3, <2>4, HangRuns
  <2>6. Hang(Doc(u, S), c.item, c.from, c.index) = Doc(t, S)
    BY <1>6, <2>2, <2>5
  <2>7. Doc(u, S).tree.parent[c.item] = c.to
    <3>1. Doc(u, S).tree = u
      BY DocFields
    <3> QED BY <1>1, <1>3, <1>5, <1>6, <3>1
  <2> QED BY <2>6, <2>7 DEF UndoReparent
<1> HIDE DEF u, c
<1>12. Reparented(t, op, u, c)
  BY <1>5, <1>6, <1>9, <1>10, <1>11 DEF Reparented
<1> QED BY <1>12 DEF u, c

-----------------------------------------------------------------------------
(* Repositions among the children of one parent *)

(* Erase and insert elsewhere, and back. *)
MovedInSeq(s, k, e, w, j, r) ==
  /\ w \in Seq(Item) /\ Len(w) = Len(s) - 1
  /\ r \in Seq(Item) /\ Injective(r) /\ ToSet(r) = ToSet(s)
  /\ j + 1 \in 1 .. Len(r) /\ r[j + 1] = e
  /\ RemoveAt(r, j + 1) = w
  /\ InsertAt(w, k, e) = s

(* An element is erased and inserted elsewhere: the way back. *)
LEMMA MoveInSeq ==
  ASSUME NEW s \in Seq(Item), Injective(s), NEW k \in 1 .. Len(s), NEW e, s[k] = e,
         NEW j \in Nat, j <= Len(s) - 1, NEW w, w = RemoveAt(s, k),
         NEW r, r = InsertAt(w, j + 1, e)
  PROVE  MovedInSeq(s, k, e, w, j, r)
<1>1. w \in Seq(Item) /\ Len(w) = Len(s) - 1
  BY RemoveAtFacts
<1>2. Len(s) \in Nat /\ e \in Item /\ e \in ToSet(s)
  BY LenProperties, ElementOfSeq, ToSetDef
<1>3. w = RemoveFirst(s, e)
  BY SelectsPlace
<1>4. Injective(w) /\ ToSet(w) = ToSet(s) \ {e}
  BY <1>3, RemoveFirstInjective
<1> DEFINE m == j + 1
<1>5. m \in 1 .. Len(w) + 1 /\ m \in Nat
  BY <1>1, <1>2
<1> HIDE DEF m
<1>6. r = InsertAt(w, m, e)
  BY DEF m
<1>7. /\ InsertAt(w, m, e) \in Seq(Item) /\ Injective(InsertAt(w, m, e))
      /\ ToSet(InsertAt(w, m, e)) = ToSet(w) \cup {e}
  BY <1>1, <1>2, <1>4, <1>5, InsertAtInjective
<1>8. Len(r) = Len(w) + 1 /\ r[m] = e
  <2>1. \A a \in Seq(Item), b \in Item : \A n \in 1 .. Len(a) + 1 :
          Len(InsertAt(a, n, b)) = Len(a) + 1 /\ InsertAt(a, n, b)[n] = b
    <3> TAKE a \in Seq(Item), b \in Item
    <3> TAKE n \in 1 .. Len(a) + 1
    <3>1. /\ Len(InsertAt(a, n, b)) = Len(a) + 1
          /\ \A i \in 1 .. Len(a) + 1 :
               InsertAt(a, n, b)[i] = IF i < n THEN a[i] ELSE IF i = n THEN b ELSE a[i - 1]
      BY InsertAtFacts
    <3>2. n \in Int
      BY LenProperties
    <3> QED BY <3>1, <3>2
  <2> QED BY <1>1, <1>2, <1>5, <1>6, <2>1
<1>9. m \in 1 .. Len(r) /\ r[m] = e
  BY <1>5, <1>6, <1>8
<1>10. RemoveAt(InsertAt(w, m, e), m) = w
  BY <1>1, <1>2, <1>4, <1>5, InsertThenErase
<1>11. InsertAt(RemoveAt(s, k), k, e) = s
  BY EraseThenInsert
<1>12. ToSet(r) = ToSet(s)
  BY <1>2, <1>4, <1>6, <1>7
<1> QED BY <1>1, <1>6, <1>7, <1>9, <1>10, <1>11, <1>12 DEF MovedInSeq, m

(* The sibling that a reposition step names. *)
Anchor(op) == IF op.before # NoItem THEN op.before ELSE op.after

(* A reposition step that the tree allows. *)
MayReposition(t, op) ==
  /\ op \in RepositionStep
  /\ t.parent[op.item] # NoItem
  /\ Anchor(op) \in Item /\ Anchor(op) # op.item
  /\ t.parent[Anchor(op)] = t.parent[op.item]

(* Writing one child vector leaves the parents alone. *)
LEMMA RelistedFields ==
  ASSUME NEW t, Consistent(t), NEW p \in Item, NEW s \in Seq(Item)
  PROVE  /\ Relisted(t, p, s).parent = t.parent
         /\ Relisted(t, p, s).children[p] = s
         /\ s = t.children[p] => Relisted(t, p, s) = t
<1>1. /\ t.children \in [Item -> Seq(Item)]
      /\ t = [parent |-> t.parent, children |-> t.children, depth |-> t.depth]
  BY ConsistentElim
<1>2. s = t.children[p] => [t.children EXCEPT ![p] = s] = t.children
  BY <1>1
<1>3. [t.children EXCEPT ![p] = s][p] = s
  BY <1>1
<1> QED BY <1>1, <1>2, <1>3 DEF Relisted

(* The child vector written last is the one that stays. *)
LEMMA RelistedTwice ==
  ASSUME NEW t, Consistent(t), NEW p \in Item, NEW s, NEW r
  PROVE  Relisted(Relisted(t, p, s), p, r) = Relisted(t, p, r)
<1>1. t.children \in [Item -> Seq(Item)]
  BY ConsistentElim
<1>2. [[t.children EXCEPT ![p] = s] EXCEPT ![p] = r] = [t.children EXCEPT ![p] = r]
  BY <1>1
<1> QED BY <1>2 DEF Relisted

(* The document with a child vector written. *)
LEMMA WithChildrenDoc ==
  ASSUME NEW t, NEW p, NEW s, NEW S
  PROVE  WithChildren(Doc(t, S), p, s) = Doc(Relisted(t, p, s), S)
<1>1. [Doc(t, S) EXCEPT !.tree = Relisted(t, p, s)] = Doc(Relisted(t, p, s), S)
  BY DocFields
<1> QED BY <1>1, DocFields DEF WithChildren

(* A tree stays sound when a child vector is only permuted. *)
LEMMA RelistedSane ==
  ASSUME NEW t, Sane(t), NEW p \in Item, NEW s \in Seq(Item), Injective(s),
         ToSet(s) = ToSet(t.children[p])
  PROVE  Sane(Relisted(t, p, s))
<1> DEFINE u == Relisted(t, p, s)
<1>1. /\ Consistent(t) /\ t.parent \in [Item -> ItemOrNone] /\ t.depth \in [Item -> Nat]
      /\ t.children \in [Item -> Seq(Item)]
      /\ \A q \in Item : Injective(t.children[q]) /\ ToSet(t.children[q]) = {x \in Item : t.parent[x] = q}
  BY ConsistentElim DEF Sane
<1>2. /\ u.parent = t.parent /\ u.depth = t.depth /\ u.children = [t.children EXCEPT ![p] = s]
      /\ u = [parent |-> t.parent, children |-> [t.children EXCEPT ![p] = s], depth |-> t.depth]
  BY <1>1 DEF Relisted
<1> HIDE DEF u
<1>3. u.children \in [Item -> Seq(Item)]
  BY <1>1, <1>2
<1>4. \A q \in Item : Injective(u.children[q]) /\ ToSet(u.children[q]) = {x \in Item : u.parent[x] = q}
  <2> TAKE q \in Item
  <2>1. CASE q = p
    BY <1>1, <1>2, <2>1
  <2>2. CASE q # p
    BY <1>1, <1>2, <2>2
  <2> QED BY <2>1, <2>2
<1>5. Consistent(u)
  BY <1>1, <1>2, <1>3, <1>4, ConsistentIntro
<1>6. AcyclicIn(u) /\ DepthIsDistanceIn(u)
  BY <1>2 DEF Sane, AcyclicIn, DepthIsDistanceIn
<1> QED BY <1>5, <1>6 DEF Sane, u

(* What a reposition step makes of the tree, captures and takes back. *)
Repositioned(t, op, u, c) ==
  /\ Sane(u) /\ u.parent = t.parent
  /\ c \in RepositionStep
  /\ \A S : /\ ExecuteReposition(Doc(t, S), op) = Done(Doc(u, S), c)
            /\ ExecuteReposition(Doc(t, S), c) = Done(Doc(u, S), c)
            /\ UndoReposition(Doc(u, S), c) = Done(Doc(t, S), c)

(* Where execute() of a reposition step puts the item, after erasing it. *)
Slot(t, op) ==
  LET p == t.parent[op.item]
      u == Relisted(t, p, RemoveAt(t.children[p], IndexInParent(t, op.item) + 1))
  IN  IF op.before # NoItem THEN IndexInParent(u, op.before)
      ELSE IndexInParent(u, op.after) + 1

(* Once the item is erased, its new place is still within the vector. *)
LEMMA SlotFits ==
  ASSUME NEW t, Consistent(t), NEW op, MayReposition(t, op)
  PROVE  Slot(t, op) \in Nat /\ Slot(t, op) <= Len(t.children[t.parent[op.item]]) - 1
<1> DEFINE x == op.item
           p == t.parent[x]
           i == IndexInParent(t, x)
           s == t.children[p]
           k == i + 1
           w == RemoveAt(s, k)
           u == Relisted(t, p, w)
           y == Anchor(op)
<1>1. x \in Item /\ y \in Item /\ y # x /\ t.parent[y] = p /\ p # NoItem
  BY DEF MayReposition, RepositionStep
<1>2. /\ t.parent \in [Item -> ItemOrNone]
      /\ t.children \in [Item -> Seq(Item)]
      /\ \A q \in Item : /\ Injective(t.children[q])
                         /\ ToSet(t.children[q]) = {z \in Item : t.parent[z] = q}
  BY ConsistentElim
<1>3. p \in Item
  BY <1>1, <1>2 DEF ItemOrNone
<1>4. s \in Seq(Item) /\ Injective(s) /\ y \in ToSet(s)
  BY <1>1, <1>2, <1>3
<1>5. k \in 1 .. Len(s) /\ s[k] = x
  BY <1>1, IndexFacts
<1> HIDE DEF s, k, x, y
<1>6. w \in Seq(Item) /\ Len(w) = Len(s) - 1
  BY <1>4, <1>5, RemoveAtFacts
<1>7. w = RemoveFirst(s, x)
  BY <1>4, <1>5, SelectsPlace
<1>8. Injective(w) /\ y \in ToSet(w)
  BY <1>1, <1>4, <1>7, RemoveFirstInjective
<1> HIDE DEF w
<1>9. PICK m \in 1 .. Len(w) : w[m] = y
  BY <1>6, <1>8, ToSetDef
<1>10. u.parent[y] = p /\ u.children[p] = w
  <2>1. u.parent = t.parent /\ u.children[p] = w
    <3>1. \A q \in Item, v \in Seq(Item) :
            Relisted(t, q, v).parent = t.parent /\ Relisted(t, q, v).children[q] = v
      <4> TAKE q \in Item, v \in Seq(Item)
      <4> QED BY RelistedFields
    <3> QED BY <1>3, <1>6, <3>1
  <2> QED BY <1>1, <2>1
<1> HIDE DEF u, p
<1>11. IndexInParent(u, y) = m - 1
  <2>1. u.parent[y] # NoItem /\ u.children[u.parent[y]] = w
    BY <1>1, <1>10
  <2> QED BY <1>6, <1>8, <1>9, <2>1, PlaceIndex
<1>12. Slot(t, op) \in {m - 1, m}
  <2>1. Slot(t, op) = IF op.before # NoItem THEN IndexInParent(u, op.before)
                      ELSE IndexInParent(u, op.after) + 1
    BY DEF Slot, u, w, s, k, p, x
  <2>2. CASE op.before # NoItem
    <3>1. op.before = y
      BY <2>2 DEF y, Anchor
    <3> QED BY <1>11, <2>1, <2>2, <3>1
  <2>3. CASE op.before = NoItem
    <3>1. op.after = y
      BY <2>3 DEF y, Anchor
    <3>2. m \in Nat
      BY <1>6, LenProperties
    <3> QED BY <1>11, <2>1, <2>3, <3>1, <3>2
  <2> QED BY <2>2, <2>3
<1>13. Len(w) \in Nat
  BY <1>6, LenProperties
<1>14. Slot(t, op) \in Nat /\ Slot(t, op) <= Len(s) - 1
  BY <1>6, <1>9, <1>12, <1>13
<1> QED BY <1>14 DEF s, p, x

(* The item and the place execute() and undo() of a reposition step work on. *)
LEMMA RepositionRuns ==
  ASSUME NEW t, NEW op, NEW S, t.parent[op.item] # NoItem,
         NEW p, p = t.parent[op.item],
         NEW w, w = RemoveAt(t.children[p], IndexInParent(t, op.item) + 1),
         NEW j, j = Slot(t, op), j <= Len(w), Len(w) \in Nat, j \in Nat
  PROVE  ExecuteReposition(Doc(t, S), op)
           = Done(Doc(Relisted(t, p, InsertAt(w, j + 1, op.item)), S), Captured(t, op))
<1>1. Doc(t, S).tree = t
  BY DocFields
<1>2. WithChildren(Doc(t, S), p, InsertAt(w, j + 1, op.item))
        = Doc(Relisted(t, p, InsertAt(w, j + 1, op.item)), S)
  BY WithChildrenDoc
<1>3. ~(j > Len(w))
  OBVIOUS
<1>4. j = IF op.before # NoItem THEN IndexInParent(Relisted(t, p, w), op.before)
          ELSE IndexInParent(Relisted(t, p, w), op.after) + 1
  BY DEF Slot
<1> QED BY <1>1, <1>2, <1>3, <1>4 DEF ExecuteReposition, Captured

(* The same for undo(), which finds its place in the operation. *)
LEMMA RepositionUnruns ==
  ASSUME NEW u, NEW op, NEW S, u.parent[op.item] # NoItem,
         NEW p, p = u.parent[op.item],
         NEW w, w = RemoveAt(u.children[p], IndexInParent(u, op.item) + 1),
         op.index <= Len(w), Len(w) \in Nat, op.index \in Nat
  PROVE  UndoReposition(Doc(u, S), op)
           = Done(Doc(Relisted(u, p, InsertAt(w, op.index + 1, op.item)), S), op)
<1>1. Doc(u, S).tree = u
  BY DocFields
<1>2. WithChildren(Doc(u, S), p, InsertAt(w, op.index + 1, op.item))
        = Doc(Relisted(u, p, InsertAt(w, op.index + 1, op.item)), S)
  BY WithChildrenDoc
<1>3. ~(op.index > Len(w))
  OBVIOUS
<1> QED BY <1>1, <1>2, <1>3 DEF UndoReposition

(* Capturing the index of a reposition step changes no other field. *)
LEMMA CapturedPlace ==
  ASSUME NEW t, Consistent(t), NEW op \in RepositionStep, NEW c, c = Captured(t, op)
  PROVE  /\ c \in RepositionStep
         /\ c.kind = op.kind /\ c.item = op.item
         /\ c.before = op.before /\ c.after = op.after
         /\ c.index = IndexInParent(t, op.item)
         /\ [c EXCEPT !.index = IndexInParent(t, c.item)] = c
<1>1. op.item \in Item
  BY DEF RepositionStep
<1>2. IndexInParent(t, op.item) \in Nat
  BY <1>1, IndexFacts
<1>3. /\ c.kind = op.kind /\ c.item = op.item
      /\ c.before = op.before /\ c.after = op.after
      /\ c.index = IndexInParent(t, op.item)
      /\ c \in RepositionStep
  BY <1>2 DEF Captured, RepositionStep
<1>4. [c EXCEPT !.index = IndexInParent(t, c.item)] = c
  BY <1>3 DEF RepositionStep
<1> QED BY <1>3, <1>4

(* Item_reposition_in_parent_operation::undo() is exact, although both        *)
(* directions edit the child vector directly.                               *)
THEOREM RepositionUndone ==
  ASSUME NEW t, Sane(t), NEW op, MayReposition(t, op)
  PROVE  \E u, c : Repositioned(t, op, u, c)
<1> DEFINE x == op.item
           p == t.parent[x]
           i == IndexInParent(t, x)
           s == t.children[p]
           k == i + 1
           w == RemoveAt(s, k)
           j == Slot(t, op)
           r == InsertAt(w, j + 1, x)
           u == Relisted(t, p, r)
           c == Captured(t, op)
<1>1. Consistent(t) /\ op \in RepositionStep /\ x \in Item /\ p # NoItem
  BY DEF MayReposition, RepositionStep, Sane
<1>2. /\ t.parent \in [Item -> ItemOrNone]
      /\ t.children \in [Item -> Seq(Item)]
      /\ \A q \in Item : Injective(t.children[q])
  BY <1>1, ConsistentElim
<1>3. p \in Item
  BY <1>1, <1>2 DEF ItemOrNone
<1>4. s \in Seq(Item) /\ Injective(s)
  BY <1>2, <1>3
<1>5. i \in Nat /\ k \in 1 .. Len(s) /\ s[k] = x
  BY <1>1, IndexFacts
<1>6. j \in Nat /\ j <= Len(s) - 1
  BY <1>1, SlotFits
<1> HIDE DEF x, s, j, k
<1>7. MovedInSeq(s, k, x, w, j, r)
  BY <1>4, <1>5, <1>6, MoveInSeq
<1> HIDE DEF w, r
<1>8. /\ w \in Seq(Item) /\ Len(w) = Len(s) - 1
      /\ r \in Seq(Item) /\ Injective(r) /\ ToSet(r) = ToSet(s)
      /\ j + 1 \in 1 .. Len(r) /\ r[j + 1] = x
      /\ RemoveAt(r, j + 1) = w
      /\ InsertAt(w, k, x) = s
  BY <1>7 DEF MovedInSeq
<1>9. Len(w) \in Nat
  BY <1>8, LenProperties
<1> HIDE DEF p
<1>10. Sane(u)
  BY <1>3, <1>8, RelistedSane DEF s
<1>11. u.parent = t.parent /\ u.children[p] = r
  BY <1>1, <1>3, <1>8, RelistedFields
<1>12. /\ c \in RepositionStep
       /\ c.kind = op.kind /\ c.item = op.item
       /\ c.before = op.before /\ c.after = op.after
       /\ c.index = IndexInParent(t, op.item)
       /\ [c EXCEPT !.index = IndexInParent(t, c.item)] = c
  BY <1>1, CapturedPlace
<1>13. p = t.parent[op.item] /\ t.parent[op.item] # NoItem
  BY <1>1 DEF p, x
<1>14. w = RemoveAt(t.children[p], IndexInParent(t, op.item) + 1)
  BY DEF w, s, k, x
<1>15. ASSUME NEW S PROVE ExecuteReposition(Doc(t, S), op) = Done(Doc(u, S), c)
  <2>1. j = Slot(t, op) /\ j <= Len(w)
    BY <1>6, <1>8 DEF j
  <2>2. ExecuteReposition(Doc(t, S), op)
           = Done(Doc(Relisted(t, p, InsertAt(w, j + 1, op.item)), S), Captured(t, op))
    BY <1>6, <1>9, <1>13, <1>14, <2>1, RepositionRuns
  <2> QED BY <2>2 DEF r, x
<1>16. ASSUME NEW S PROVE ExecuteReposition(Doc(t, S), c) = Done(Doc(u, S), c)
  <2>1. Slot(t, c) = j /\ j <= Len(w)
    BY <1>6, <1>8, <1>12 DEF j, Slot
  <2>2. Captured(t, c) = c
    BY <1>12 DEF Captured
  <2>3. p = t.parent[c.item] /\ t.parent[c.item] # NoItem
        /\ w = RemoveAt(t.children[p], IndexInParent(t, c.item) + 1)
    BY <1>12, <1>13, <1>14
  <2>4. ExecuteReposition(Doc(t, S), c)
           = Done(Doc(Relisted(t, p, InsertAt(w, j + 1, c.item)), S), Captured(t, c))
    <3> HIDE DEF c
    <3> QED BY <1>6, <1>9, <2>1, <2>3, RepositionRuns
  <2> QED BY <1>12, <2>2, <2>4 DEF r, x
<1>17. ASSUME NEW S PROVE UndoReposition(Doc(u, S), c) = Done(Doc(t, S), c)
  <2>1. u.parent[x] = p
    BY <1>11, <1>13 DEF x
  <2> HIDE DEF u, c
  <2>2. IndexInParent(u, x) = (j + 1) - 1
    <3>1. u.parent[x] # NoItem /\ u.children[u.parent[x]] = r
      BY <1>1, <1>11, <2>1
    <3>2. PICK m \in 1 .. Len(r) : m = j + 1
      BY <1>8
    <3>3. r[m] = x
      BY <1>8, <3>2
    <3>4. IndexInParent(u, x) = m - 1
      <4>1. PICK v : v = r
        OBVIOUS
      <4>2. /\ v \in Seq(Item) /\ Injective(v) /\ u.children[u.parent[x]] = v
            /\ m \in 1 .. Len(v) /\ v[m] = x
        BY <1>8, <3>1, <3>3, <4>1
      <4> QED BY <3>1, <4>2, PlaceIndex
    <3> QED BY <3>2, <3>4
  <2>3. IndexInParent(u, c.item) + 1 = j + 1 /\ c.item = x
    BY <1>6, <1>12, <2>2 DEF x
  <2>4. w = RemoveAt(u.children[p], IndexInParent(u, c.item) + 1)
    BY <1>8, <1>11, <2>3
  <2>5. c.index = i
    BY <1>12 DEF x
  <2>6. c.index \in Nat /\ c.index <= Len(w) /\ c.index + 1 = k
    <3>1. Len(s) \in Nat
      BY <1>4, LenProperties
    <3> QED BY <1>5, <1>8, <2>5, <3>1 DEF k
  <2>7. p = u.parent[c.item] /\ u.parent[c.item] # NoItem
    BY <1>1, <2>1, <2>3
  <2> HIDE DEF i
  <2>8. UndoReposition(Doc(u, S), c)
           = Done(Doc(Relisted(u, p, InsertAt(w, c.index + 1, c.item)), S), c)
    BY <1>9, <2>4, <2>6, <2>7, RepositionUnruns
  <2>9. InsertAt(w, c.index + 1, c.item) = s
    BY <1>8, <2>3, <2>6
  <2>10. Relisted(u, p, s) = t
    <3>1. Relisted(u, p, s) = Relisted(t, p, s)
      BY <1>1, <1>3, RelistedTwice DEF u
    <3>2. Relisted(t, p, s) = t
      BY <1>1, <1>3, <1>4, RelistedFields DEF s
    <3> QED BY <3>1, <3>2
  <2> QED BY <2>8, <2>9, <2>10
<1> HIDE DEF u, c
<1>18. Repositioned(t, op, u, c)
  BY <1>10, <1>11, <1>12, <1>15, <1>16, <1>17 DEF Repositioned
<1> QED BY <1>18

-----------------------------------------------------------------------------
(* Steps one after another *)

(* Documents along a run of reparent steps, none of which fails. *)
RunOfReparents(n, D, ops, outs) ==
  \A k \in 1 .. n : /\ D[k - 1].fault = "none"
                    /\ ExecuteReparent(D[k - 1], ops[k]) = Done(D[k], outs[k])

(* A run is what execute() of the sequence does. *)
LEMMA ReparentsInOrder ==
  ASSUME NEW ops, NEW n \in Nat, Len(ops) = n, NEW D, NEW X, NEW outs \in Seq(X), Len(outs) = n,
         RunOfReparents(n, D, ops, outs)
  PROVE  ExecuteReparents(D[0], ops) = Done(D[n], outs)
<1> DEFINE RunIn(acc, op) ==
             LET r == IF acc.doc.fault = "none" THEN ExecuteReparent(acc.doc, op)
                      ELSE Done(acc.doc, op)
             IN  Done(r.doc, Append(acc.op, r.op))
           Body(g, k) == IF k = 0 THEN Done(D[0], << >>) ELSE RunIn(g[k - 1], ops[k])
           after == CHOOSE g : g = [k \in 0 .. n |-> Body(g, k)]
           V == [k \in 0 .. n |-> Done(D[k], SubSeq(outs, 1, k))]
<1>1. ExecuteReparents(D[0], ops) = after[n]
  BY DEF InOrder, ExecuteReparents
<1>2. /\ SubSeq(outs, 1, 0) = << >> /\ SubSeq(outs, 1, n) = outs
      /\ \A k \in 1 .. n : Append(SubSeq(outs, 1, k - 1), outs[k]) = SubSeq(outs, 1, k)
  BY PrefixFacts
<1>0. ASSUME NEW acc, NEW op, acc.doc.fault = "none"
      PROVE  RunIn(acc, op) = Done(ExecuteReparent(acc.doc, op).doc,
                                   Append(acc.op, ExecuteReparent(acc.doc, op).op))
  BY <1>0
<1> HIDE DEF RunIn
<1>3. ASSUME NEW g, NEW k \in 1 .. n, g[k - 1] = Done(D[k - 1], SubSeq(outs, 1, k - 1))
      PROVE  Body(g, k) = Done(D[k], SubSeq(outs, 1, k))
  <2>1. g[k - 1].doc = D[k - 1] /\ g[k - 1].op = SubSeq(outs, 1, k - 1)
    BY <1>3 DEF Done
  <2>6. D[k - 1].fault = "none" /\ ExecuteReparent(D[k - 1], ops[k]) = Done(D[k], outs[k])
    BY DEF RunOfReparents
  <2>2. /\ ExecuteReparent(D[k - 1], ops[k]).doc = D[k]
        /\ ExecuteReparent(D[k - 1], ops[k]).op = outs[k]
    BY <2>6 DEF Done
  <2>7. RunIn(g[k - 1], ops[k]) = Done(ExecuteReparent(g[k - 1].doc, ops[k]).doc,
                                   Append(g[k - 1].op, ExecuteReparent(g[k - 1].doc, ops[k]).op))
    BY <1>0, <2>1, <2>6, Zenon
  <2>3. RunIn(g[k - 1], ops[k]) = Done(D[k], Append(SubSeq(outs, 1, k - 1), outs[k]))
    BY <2>1, <2>2, <2>7, Zenon
  <2>4. Append(SubSeq(outs, 1, k - 1), outs[k]) = SubSeq(outs, 1, k)
    BY <1>2
  <2>5. k # 0
    OBVIOUS
  <2> QED BY <2>3, <2>4, <2>5
<1>4. V = [k \in 0 .. n |-> Body(V, k)]
  <2> SUFFICES ASSUME NEW k \in 0 .. n PROVE V[k] = Body(V, k)
    BY Zenon
  <2>1. CASE k = 0
    BY <1>2, <2>1
  <2>2. CASE k # 0
    <3>1. k \in 1 .. n /\ k - 1 \in 0 .. n
      BY <2>2
    <3>2. V[k - 1] = Done(D[k - 1], SubSeq(outs, 1, k - 1))
      BY <3>1
    <3> HIDE DEF Body
    <3>3. Body(V, k) = Done(D[k], SubSeq(outs, 1, k))
      BY <1>3, <3>1, <3>2
    <3> QED BY <3>3
  <2> QED BY <2>1, <2>2
<1>5. after = [k \in 0 .. n |-> Body(after, k)]
  <2> HIDE DEF V, Body
  <2> QED BY <1>4, Zenon
<1> HIDE DEF after, Body
<1>6. ASSUME NEW k \in 0 .. n PROVE after[k] = Body(after, k)
  BY <1>5, Zenon
<1> DEFINE P == {k \in Nat : k \in 0 .. n => after[k] = Done(D[k], SubSeq(outs, 1, k))}
<1>7. 0 \in P
  BY <1>2, <1>6 DEF Body
<1>8. ASSUME NEW k \in P PROVE k + 1 \in P
  <2> DEFINE j == k + 1
  <2>1. k \in Nat /\ j \in Nat /\ (k \in 0 .. n => after[k] = Done(D[k], SubSeq(outs, 1, k)))
    OBVIOUS
  <2>2. ASSUME j \in 0 .. n PROVE after[j] = Done(D[j], SubSeq(outs, 1, j))
    <3>1. k \in 0 .. n /\ j \in 1 .. n /\ j - 1 = k
      BY <2>1, <2>2
    <3>2. after[j - 1] = Done(D[j - 1], SubSeq(outs, 1, j - 1))
      BY <2>1, <3>1
    <3> HIDE DEF j, P
    <3> QED BY <1>3, <1>6, <2>2, <3>1, <3>2
  <2> HIDE DEF j
  <2>3. j \in P
    BY <2>1, <2>2
  <2> QED BY <2>3 DEF j
<1>11. P \in SUBSET Nat
  OBVIOUS
<1> HIDE DEF P
<1>9. P = Nat
  BY <1>7, <1>8, <1>11, NatSetInduction
<1>10. after[n] = Done(D[n], SubSeq(outs, 1, n))
  BY <1>9 DEF P
<1> QED BY <1>1, <1>2, <1>10

(* And what undo() of the sequence does, from the last step to the first. *)
LEMMA ReparentsInReverse ==
  ASSUME NEW n \in Nat, NEW D, NEW X, NEW steps \in Seq(X), Len(steps) = n,
         \A k \in 1 .. n : /\ D[k].fault = "none"
                           /\ UndoReparent(D[k], steps[k]) = Done(D[k - 1], steps[k])
  PROVE  UndoReparents(D[n], steps) = Done(D[0], steps)
<1> DEFINE outs == Reverse(steps)
           F == [k \in 0 .. n |-> D[n - k]]
<1>11. /\ outs \in Seq(X) /\ Len(outs) = n /\ Reverse(outs) = steps
       /\ \A k \in 1 .. n : outs[k] = steps[n - k + 1]
  BY ReverseFacts
<1>12. F[0] = D[n] /\ F[n] = D[0] /\ \A k \in 0 .. n : F[k] = D[n - k]
  OBVIOUS
<1>13. ASSUME NEW k \in 1 .. n
       PROVE  /\ F[k - 1].fault = "none"
              /\ UndoReparent(F[k - 1], outs[k]) = Done(F[k], outs[k])
  <2>1. n - k + 1 \in 1 .. n /\ k - 1 \in 0 .. n /\ k \in 0 .. n /\ n - (k - 1) = n - k + 1
    OBVIOUS
  <2>2. PICK j \in 1 .. n : j = n - k + 1
    BY <2>1
  <2>3. n - k = j - 1
    BY <2>2
  <2>4. F[k - 1] = D[j] /\ F[k] = D[j - 1] /\ outs[k] = steps[j]
    BY <1>11, <1>12, <2>1, <2>2, <2>3
  <2>5. D[j].fault = "none" /\ UndoReparent(D[j], steps[j]) = Done(D[j - 1], steps[j])
    OBVIOUS
  <2> QED BY <2>4, <2>5
<1> HIDE DEF outs, F
<1> DEFINE RunIn(acc, op) ==
             LET r == IF acc.doc.fault = "none" THEN UndoReparent(acc.doc, op)
                      ELSE Done(acc.doc, op)
             IN  Done(r.doc, Append(acc.op, r.op))
           Body(g, k) == IF k = 0 THEN Done(F[0], << >>) ELSE RunIn(g[k - 1], outs[k])
           after == CHOOSE g : g = [k \in 0 .. n |-> Body(g, k)]
           V == [k \in 0 .. n |-> Done(F[k], SubSeq(outs, 1, k))]
<1>1. InOrder(UndoReparent, F[0], outs) = after[n]
  BY <1>11 DEF InOrder
<1>2. /\ SubSeq(outs, 1, 0) = << >> /\ SubSeq(outs, 1, n) = outs
      /\ \A k \in 1 .. n : Append(SubSeq(outs, 1, k - 1), outs[k]) = SubSeq(outs, 1, k)
  BY <1>11, PrefixFacts
<1>0. ASSUME NEW acc, NEW op, acc.doc.fault = "none"
      PROVE  RunIn(acc, op) = Done(UndoReparent(acc.doc, op).doc,
                                   Append(acc.op, UndoReparent(acc.doc, op).op))
  BY <1>0
<1> HIDE DEF RunIn
<1>3. ASSUME NEW g, NEW k \in 1 .. n, g[k - 1] = Done(F[k - 1], SubSeq(outs, 1, k - 1))
      PROVE  Body(g, k) = Done(F[k], SubSeq(outs, 1, k))
  <2>1. g[k - 1].doc = F[k - 1] /\ g[k - 1].op = SubSeq(outs, 1, k - 1)
    BY <1>3 DEF Done
  <2>6. F[k - 1].fault = "none" /\ UndoReparent(F[k - 1], outs[k]) = Done(F[k], outs[k])
    BY <1>13
  <2>2. /\ UndoReparent(F[k - 1], outs[k]).doc = F[k]
        /\ UndoReparent(F[k - 1], outs[k]).op = outs[k]
    BY <2>6 DEF Done
  <2>7. RunIn(g[k - 1], outs[k]) = Done(UndoReparent(g[k - 1].doc, outs[k]).doc,
                                   Append(g[k - 1].op, UndoReparent(g[k - 1].doc, outs[k]).op))
    BY <1>0, <2>1, <2>6, Zenon
  <2>3. RunIn(g[k - 1], outs[k]) = Done(F[k], Append(SubSeq(outs, 1, k - 1), outs[k]))
    BY <2>1, <2>2, <2>7, Zenon
  <2>4. Append(SubSeq(outs, 1, k - 1), outs[k]) = SubSeq(outs, 1, k)
    BY <1>2
  <2>5. k # 0
    OBVIOUS
  <2> QED BY <2>3, <2>4, <2>5
<1>4. V = [k \in 0 .. n |-> Body(V, k)]
  <2> SUFFICES ASSUME NEW k \in 0 .. n PROVE V[k] = Body(V, k)
    BY Zenon
  <2>1. CASE k = 0
    BY <1>2, <2>1
  <2>2. CASE k # 0
    <3>1. k \in 1 .. n /\ k - 1 \in 0 .. n
      BY <2>2
    <3>2. V[k - 1] = Done(F[k - 1], SubSeq(outs, 1, k - 1))
      BY <3>1
    <3> HIDE DEF Body
    <3>3. Body(V, k) = Done(F[k], SubSeq(outs, 1, k))
      BY <1>3, <3>1, <3>2
    <3> QED BY <3>3
  <2> QED BY <2>1, <2>2
<1>5. after = [k \in 0 .. n |-> Body(after, k)]
  <2> HIDE DEF V, Body
  <2> QED BY <1>4, Zenon
<1> HIDE DEF after, Body
<1>6. ASSUME NEW k \in 0 .. n PROVE after[k] = Body(after, k)
  BY <1>5, Zenon
<1> DEFINE P == {k \in Nat : k \in 0 .. n => after[k] = Done(F[k], SubSeq(outs, 1, k))}
<1>7. 0 \in P
  BY <1>2, <1>6 DEF Body
<1>8. ASSUME NEW k \in P PROVE k + 1 \in P
  <2> DEFINE j == k + 1
  <2>1. k \in Nat /\ j \in Nat /\ (k \in 0 .. n => after[k] = Done(F[k], SubSeq(outs, 1, k)))
    OBVIOUS
  <2>2. ASSUME j \in 0 .. n PROVE after[j] = Done(F[j], SubSeq(outs, 1, j))
    <3>1. k \in 0 .. n /\ j \in 1 .. n /\ j - 1 = k
      BY <2>1, <2>2
    <3>2. after[j - 1] = Done(F[j - 1], SubSeq(outs, 1, j - 1))
      BY <2>1, <3>1
    <3> HIDE DEF j, P
    <3> QED BY <1>3, <1>6, <2>2, <3>1, <3>2
  <2> HIDE DEF j
  <2>3. j \in P
    BY <2>1, <2>2
  <2> QED BY <2>3 DEF j
<1>16. P \in SUBSET Nat
  OBVIOUS
<1> HIDE DEF P
<1>9. P = Nat
  BY <1>7, <1>8, <1>16, NatSetInduction
<1>10. after[n] = Done(F[n], SubSeq(outs, 1, n))
  BY <1>9 DEF P
<1>14. InOrder(UndoReparent, F[0], outs) = Done(F[n], outs)
  BY <1>1, <1>2, <1>10
<1>15. InOrder(UndoReparent, D[n], Reverse(steps)) = Done(D[0], outs)
  BY <1>12, <1>14 DEF outs
<1> QED BY <1>11, <1>15 DEF UndoReparents, InReverse, Done

(* Documents along a run of any steps, none of which fails. *)
RunOfSteps(n, D, ops, outs) ==
  \A k \in 1 .. n : /\ D[k - 1].fault = "none"
                    /\ ExecuteStep(D[k - 1], ops[k]) = Done(D[k], outs[k])

(* A run is what execute() of a compound does. *)
LEMMA StepsInOrder ==
  ASSUME NEW ops, NEW n \in Nat, Len(ops) = n, NEW D, NEW X, NEW outs \in Seq(X), Len(outs) = n,
         RunOfSteps(n, D, ops, outs)
  PROVE  Execute(D[0], ops) = Done(D[n], outs)
<1> DEFINE RunIn(acc, op) ==
             LET r == IF acc.doc.fault = "none" THEN ExecuteStep(acc.doc, op)
                      ELSE Done(acc.doc, op)
             IN  Done(r.doc, Append(acc.op, r.op))
           Body(g, k) == IF k = 0 THEN Done(D[0], << >>) ELSE RunIn(g[k - 1], ops[k])
           after == CHOOSE g : g = [k \in 0 .. n |-> Body(g, k)]
           V == [k \in 0 .. n |-> Done(D[k], SubSeq(outs, 1, k))]
<1>1. Execute(D[0], ops) = after[n]
  BY DEF InOrder, Execute
<1>2. /\ SubSeq(outs, 1, 0) = << >> /\ SubSeq(outs, 1, n) = outs
      /\ \A k \in 1 .. n : Append(SubSeq(outs, 1, k - 1), outs[k]) = SubSeq(outs, 1, k)
  BY PrefixFacts
<1>0. ASSUME NEW acc, NEW op, acc.doc.fault = "none"
      PROVE  RunIn(acc, op) = Done(ExecuteStep(acc.doc, op).doc,
                                   Append(acc.op, ExecuteStep(acc.doc, op).op))
  BY <1>0
<1> HIDE DEF RunIn
<1>3. ASSUME NEW g, NEW k \in 1 .. n, g[k - 1] = Done(D[k - 1], SubSeq(outs, 1, k - 1))
      PROVE  Body(g, k) = Done(D[k], SubSeq(outs, 1, k))
  <2>1. g[k - 1].doc = D[k - 1] /\ g[k - 1].op = SubSeq(outs, 1, k - 1)
    BY <1>3 DEF Done
  <2>6. D[k - 1].fault = "none" /\ ExecuteStep(D[k - 1], ops[k]) = Done(D[k], outs[k])
    BY DEF RunOfSteps
  <2>2. /\ ExecuteStep(D[k - 1], ops[k]).doc = D[k]
        /\ ExecuteStep(D[k - 1], ops[k]).op = outs[k]
    BY <2>6 DEF Done
  <2>7. RunIn(g[k - 1], ops[k]) = Done(ExecuteStep(g[k - 1].doc, ops[k]).doc,
                                   Append(g[k - 1].op, ExecuteStep(g[k - 1].doc, ops[k]).op))
    BY <1>0, <2>1, <2>6, Zenon
  <2>3. RunIn(g[k - 1], ops[k]) = Done(D[k], Append(SubSeq(outs, 1, k - 1), outs[k]))
    BY <2>1, <2>2, <2>7, Zenon
  <2>4. Append(SubSeq(outs, 1, k - 1), outs[k]) = SubSeq(outs, 1, k)
    BY <1>2
  <2>5. k # 0
    OBVIOUS
  <2> QED BY <2>3, <2>4, <2>5
<1>4. V = [k \in 0 .. n |-> Body(V, k)]
  <2> SUFFICES ASSUME NEW k \in 0 .. n PROVE V[k] = Body(V, k)
    BY Zenon
  <2>1. CASE k = 0
    BY <1>2, <2>1
  <2>2. CASE k # 0
    <3>1. k \in 1 .. n /\ k - 1 \in 0 .. n
      BY <2>2
    <3>2. V[k - 1] = Done(D[k - 1], SubSeq(outs, 1, k - 1))
      BY <3>1
    <3> HIDE DEF Body
    <3>3. Body(V, k) = Done(D[k], SubSeq(outs, 1, k))
      BY <1>3, <3>1, <3>2
    <3> QED BY <3>3
  <2> QED BY <2>1, <2>2
<1>5. after = [k \in 0 .. n |-> Body(after, k)]
  <2> HIDE DEF V, Body
  <2> QED BY <1>4, Zenon
<1> HIDE DEF after, Body
<1>6. ASSUME NEW k \in 0 .. n PROVE after[k] = Body(after, k)
  BY <1>5, Zenon
<1> DEFINE P == {k \in Nat : k \in 0 .. n => after[k] = Done(D[k], SubSeq(outs, 1, k))}
<1>7. 0 \in P
  BY <1>2, <1>6 DEF Body
<1>8. ASSUME NEW k \in P PROVE k + 1 \in P
  <2> DEFINE j == k + 1
  <2>1. k \in Nat /\ j \in Nat /\ (k \in 0 .. n => after[k] = Done(D[k], SubSeq(outs, 1, k)))
    OBVIOUS
  <2>2. ASSUME j \in 0 .. n PROVE after[j] = Done(D[j], SubSeq(outs, 1, j))
    <3>1. k \in 0 .. n /\ j \in 1 .. n /\ j - 1 = k
      BY <2>1, <2>2
    <3>2. after[j - 1] = Done(D[j - 1], SubSeq(outs, 1, j - 1))
      BY <2>1, <3>1
    <3> HIDE DEF j, P
    <3> QED BY <1>3, <1>6, <2>2, <3>1, <3>2
  <2> HIDE DEF j
  <2>3. j \in P
    BY <2>1, <2>2
  <2> QED BY <2>3 DEF j
<1>11. P \in SUBSET Nat
  OBVIOUS
<1> HIDE DEF P
<1>9. P = Nat
  BY <1>7, <1>8, <1>11, NatSetInduction
<1>10. after[n] = Done(D[n], SubSeq(outs, 1, n))
  BY <1>9 DEF P
<1> QED BY <1>1, <1>2, <1>10

(* And what undo() of a compound does, from the last step to the first. *)
LEMMA StepsInReverse ==
  ASSUME NEW n \in Nat, NEW D, NEW X, NEW steps \in Seq(X), Len(steps) = n,
         \A k \in 1 .. n : /\ D[k].fault = "none"
                           /\ UndoStep(D[k], steps[k]) = Done(D[k - 1], steps[k])
  PROVE  Undo(D[n], steps) = Done(D[0], steps)
<1> DEFINE outs == Reverse(steps)
           F == [k \in 0 .. n |-> D[n - k]]
<1>11. /\ outs \in Seq(X) /\ Len(outs) = n /\ Reverse(outs) = steps
       /\ \A k \in 1 .. n : outs[k] = steps[n - k + 1]
  BY ReverseFacts
<1>12. F[0] = D[n] /\ F[n] = D[0] /\ \A k \in 0 .. n : F[k] = D[n - k]
  OBVIOUS
<1>13. ASSUME NEW k \in 1 .. n
       PROVE  /\ F[k - 1].fault = "none"
              /\ UndoStep(F[k - 1], outs[k]) = Done(F[k], outs[k])
  <2>1. n - k + 1 \in 1 .. n /\ k - 1 \in 0 .. n /\ k \in 0 .. n /\ n - (k - 1) = n - k + 1
    OBVIOUS
  <2>2. PICK j \in 1 .. n : j = n - k + 1
    BY <2>1
  <2>3. n - k = j - 1
    BY <2>2
  <2>4. F[k - 1] = D[j] /\ F[k] = D[j - 1] /\ outs[k] = steps[j]
    BY <1>11, <1>12, <2>1, <2>2, <2>3
  <2>5. D[j].fault = "none" /\ UndoStep(D[j], steps[j]) = Done(D[j - 1], steps[j])
    OBVIOUS
  <2> QED BY <2>4, <2>5
<1> HIDE DEF outs, F
<1> DEFINE RunIn(acc, op) ==
             LET r == IF acc.doc.fault = "none" THEN UndoStep(acc.doc, op)
                      ELSE Done(acc.doc, op)
             IN  Done(r.doc, Append(acc.op, r.op))
           Body(g, k) == IF k = 0 THEN Done(F[0], << >>) ELSE RunIn(g[k - 1], outs[k])
           after == CHOOSE g : g = [k \in 0 .. n |-> Body(g, k)]
           V == [k \in 0 .. n |-> Done(F[k], SubSeq(outs, 1, k))]
<1>1. InOrder(UndoStep, F[0], outs) = after[n]
  BY <1>11 DEF InOrder
<1>2. /\ SubSeq(outs, 1, 0) = << >> /\ SubSeq(outs, 1, n) = outs
      /\ \A k \in 1 .. n : Append(SubSeq(outs, 1, k - 1), outs[k]) = SubSeq(outs, 1, k)
  BY <1>11, PrefixFacts
<1>0. ASSUME NEW acc, NEW op, acc.doc.fault = "none"
      PROVE  RunIn(acc, op) = Done(UndoStep(acc.doc, op).doc,
                                   Append(acc.op, UndoStep(acc.doc, op).op))
  BY <1>0
<1> HIDE DEF RunIn
<1>3. ASSUME NEW g, NEW k \in 1 .. n, g[k - 1] = Done(F[k - 1], SubSeq(outs, 1, k - 1))
      PROVE  Body(g, k) = Done(F[k], SubSeq(outs, 1, k))
  <2>1. g[k - 1].doc = F[k - 1] /\ g[k - 1].op = SubSeq(outs, 1, k - 1)
    BY <1>3 DEF Done
  <2>6. F[k - 1].fault = "none" /\ UndoStep(F[k - 1], outs[k]) = Done(F[k], outs[k])
    BY <1>13
  <2>2. /\ UndoStep(F[k - 1], outs[k]).doc = F[k]
        /\ UndoStep(F[k - 1], outs[k]).op = outs[k]
    BY <2>6 DEF Done
  <2>7. RunIn(g[k - 1], outs[k]) = Done(UndoStep(g[k - 1].doc, outs[k]).doc,
                                   Append(g[k - 1].op, UndoStep(g[k - 1].doc, outs[k]).op))
    BY <1>0, <2>1, <2>6, Zenon
  <2>3. RunIn(g[k - 1], outs[k]) = Done(F[k], Append(SubSeq(outs, 1, k - 1), outs[k]))
    BY <2>1, <2>2, <2>7, Zenon
  <2>4. Append(SubSeq(outs, 1, k - 1), outs[k]) = SubSeq(outs, 1, k)
    BY <1>2
  <2>5. k # 0
    OBVIOUS
  <2> QED BY <2>3, <2>4, <2>5
<1>4. V = [k \in 0 .. n |-> Body(V, k)]
  <2> SUFFICES ASSUME NEW k \in 0 .. n PROVE V[k] = Body(V, k)
    BY Zenon
  <2>1. CASE k = 0
    BY <1>2, <2>1
  <2>2. CASE k # 0
    <3>1. k \in 1 .. n /\ k - 1 \in 0 .. n
      BY <2>2
    <3>2. V[k - 1] = Done(F[k - 1], SubSeq(outs, 1, k - 1))
      BY <3>1
    <3> HIDE DEF Body
    <3>3. Body(V, k) = Done(F[k], SubSeq(outs, 1, k))
      BY <1>3, <3>1, <3>2
    <3> QED BY <3>3
  <2> QED BY <2>1, <2>2
<1>5. after = [k \in 0 .. n |-> Body(after, k)]
  <2> HIDE DEF V, Body
  <2> QED BY <1>4, Zenon
<1> HIDE DEF after, Body
<1>6. ASSUME NEW k \in 0 .. n PROVE after[k] = Body(after, k)
  BY <1>5, Zenon
<1> DEFINE P == {k \in Nat : k \in 0 .. n => after[k] = Done(F[k], SubSeq(outs, 1, k))}
<1>7. 0 \in P
  BY <1>2, <1>6 DEF Body
<1>8. ASSUME NEW k \in P PROVE k + 1 \in P
  <2> DEFINE j == k + 1
  <2>1. k \in Nat /\ j \in Nat /\ (k \in 0 .. n => after[k] = Done(F[k], SubSeq(outs, 1, k)))
    OBVIOUS
  <2>2. ASSUME j \in 0 .. n PROVE after[j] = Done(F[j], SubSeq(outs, 1, j))
    <3>1. k \in 0 .. n /\ j \in 1 .. n /\ j - 1 = k
      BY <2>1, <2>2
    <3>2. after[j - 1] = Done(F[j - 1], SubSeq(outs, 1, j - 1))
      BY <2>1, <3>1
    <3> HIDE DEF j, P
    <3> QED BY <1>3, <1>6, <2>2, <3>1, <3>2
  <2> HIDE DEF j
  <2>3. j \in P
    BY <2>1, <2>2
  <2> QED BY <2>3 DEF j
<1>16. P \in SUBSET Nat
  OBVIOUS
<1> HIDE DEF P
<1>9. P = Nat
  BY <1>7, <1>8, <1>16, NatSetInduction
<1>10. after[n] = Done(F[n], SubSeq(outs, 1, n))
  BY <1>9 DEF P
<1>14. InOrder(UndoStep, F[0], outs) = Done(F[n], outs)
  BY <1>1, <1>2, <1>10
<1>15. InOrder(UndoStep, D[n], Reverse(steps)) = Done(D[0], outs)
  BY <1>12, <1>14 DEF outs
<1> QED BY <1>11, <1>15 DEF Undo, InReverse, Done

-----------------------------------------------------------------------------
(* Removals: the children of the item go to its parent *)

(* remove hands the children of x to the parent of x, one by one. *)
HandOver(t, x, k) == Reparent(t, t.children[x][k], t.parent[x], NoItem, NoItem)

(* The tree when k children have gone: x is still where it was. *)
Standing(t, x, v, k) ==
  /\ Sane(v)
  /\ \A y \in Item : v.parent[y] = IF \E j \in 1 .. k : y = t.children[x][j]
                                   THEN t.parent[x] ELSE t.parent[y]
  /\ ListedAt(v.children, t.parent[x], x, IndexInParent(t, x))

(* No child has gone yet. *)
LEMMA StandingAtFirst ==
  ASSUME NEW t, Sane(t), NEW x \in Item
  PROVE  Standing(t, x, t, 0)
<1>1. /\ Consistent(t) /\ t.parent \in [Item -> ItemOrNone]
      /\ \A q \in Item : Injective(t.children[q])
  BY ConsistentElim DEF Sane
<1>2. ListedAt(t.children, t.parent[x], x, IndexInParent(t, x))
  <2> SUFFICES ASSUME t.parent[x] # NoItem
               PROVE  /\ Injective(t.children[t.parent[x]])
                      /\ IndexInParent(t, x) + 1 \in 1 .. Len(t.children[t.parent[x]])
                      /\ t.children[t.parent[x]][IndexInParent(t, x) + 1] = x
    BY DEF ListedAt
  <2>1. t.parent[x] \in Item
    BY <1>1 DEF ItemOrNone
  <2> QED BY <1>1, <2>1, IndexFacts
<1> QED BY <1>2 DEF Standing

(* The next child may go, and x is still where it was. *)
LEMMA HandOverStands ==
  ASSUME NEW t, Sane(t), NEW x \in Item, t.parent[x] # NoItem,
         NEW k \in 1 .. Len(t.children[x]), NEW v, Standing(t, x, v, k - 1)
  PROVE  /\ MayReparent(v, HandOver(t, x, k))
         /\ Standing(t, x, After(v, HandOver(t, x, k)), k)
<1> DEFINE p == t.parent[x]
           c == t.children[x][k]
           op == HandOver(t, x, k)
           u == After(v, op)
           i == IndexInParent(t, x)
           n == Len(t.children[x])
           m == i + 1
<1>1. /\ Consistent(t) /\ t.parent \in [Item -> ItemOrNone]
      /\ t.children[x] \in Seq(Item) /\ Injective(t.children[x])
      /\ ToSet(t.children[x]) = {y \in Item : t.parent[y] = x}
      /\ AcyclicIn(t)
  BY ConsistentElim DEF Sane
<1>2. /\ Consistent(v) /\ AcyclicIn(v) /\ v.parent \in [Item -> ItemOrNone]
      /\ v.children \in [Item -> Seq(Item)]
      /\ \A q \in Item : Injective(v.children[q]) /\ ToSet(v.children[q]) = {y \in Item : v.parent[y] = q}
  BY ConsistentElim DEF Standing, Sane
<1>3. n \in Nat /\ k \in Nat
  BY <1>1, LenProperties
<1>4. c \in Item /\ \A j \in 1 .. n : t.children[x][j] \in Item /\ t.parent[t.children[x][j]] = x
  <2>1. \A j \in 1 .. n : t.children[x][j] \in ToSet(t.children[x])
    BY <1>1, ToSetDef
  <2> QED BY <1>1, <2>1
<1>5. v.parent[c] = x
  <2>1. ~ \E j \in 1 .. k - 1 : c = t.children[x][j]
    BY <1>1, <1>3 DEF Injective
  <2> QED BY <1>4, <2>1 DEF Standing
<1>6. v.parent[x] = p
  <2>1. ~ \E j \in 1 .. k - 1 : x = t.children[x][j]
    <3> SUFFICES ASSUME t.parent[x] = x PROVE FALSE
      BY <1>3, <1>4
    <3> QED BY <1>1 DEF AcyclicIn
  <2> QED BY <2>1 DEF Standing
<1>7. p \in Item /\ p # c /\ MayAdopt(v, p, c)
  <2> HIDE DEF c, p
  <2>1. v.parent[x] # NoItem
    BY <1>6 DEF p
  <2> QED BY <1>2, <1>4, <1>5, <1>6, <2>1, ParentNotBelow
<1>8. /\ op \in ReparentStep /\ op.item = c /\ op.to = p /\ op.from = x
      /\ op.before = NoItem /\ op.after = NoItem
  <2>1. t.parent[c] = x
    BY <1>4
  <2> HIDE DEF c, p
  <2>2. op = [kind |-> "reparent", item |-> c, from |-> x, to |-> p,
              before |-> NoItem, after |-> NoItem, index |-> 0]
    BY <2>1 DEF HandOver, Reparent, c, p
  <2> QED BY <1>4, <1>7, <2>2 DEF ReparentStep, ItemOrNone
<1>9. MayReparent(v, op)
  BY <1>5, <1>7, <1>8 DEF MayReparent
<1>10. Sane(u) /\ u.parent = [v.parent EXCEPT ![c] = p]
  <2> HIDE DEF op
  <2>1. Reparented(v, op, After(v, op), Captured(v, op))
    BY <1>9, ReparentUndone DEF Standing
  <2> QED BY <1>8, <2>1 DEF Reparented
<1> HIDE DEF op
<1>11. u = SetParent(v, c, p, Len(v.children[p]))
  BY <1>8 DEF After, NewPlace
<1> HIDE DEF c, u
<1>12. \A y \in Item : u.parent[y] = IF \E j \in 1 .. k : y = t.children[x][j]
                                    THEN p ELSE t.parent[y]
  <2> TAKE y \in Item
  <2>1. CASE y = c
    <3>1. \E j \in 1 .. k : y = t.children[x][j]
      BY <1>3, <2>1 DEF c
    <3>2. u.parent[y] = p
      BY <1>2, <1>4, <1>10, <2>1
    <3> QED BY <3>1, <3>2
  <2>2. CASE y # c
    <3>1. u.parent[y] = v.parent[y]
      BY <1>2, <1>10, <2>2
    <3>2. (\E j \in 1 .. k : y = t.children[x][j]) <=> (\E j \in 1 .. k - 1 : y = t.children[x][j])
      BY <1>3, <2>2 DEF c
    <3> QED BY <3>1, <3>2 DEF Standing
  <2> QED BY <2>1, <2>2
<1>13. ListedAt(u.children, p, x, i)
  <2> DEFINE s == v.children[p]
             e == Len(s) + 1
  <2>1. /\ s \in Seq(Item) /\ Injective(s) /\ ToSet(s) = {y \in Item : v.parent[y] = p}
        /\ Len(s) \in Nat
    BY <1>2, <1>7, LenProperties
  <2>2. m \in 1 .. Len(s) /\ s[m] = x
    BY <1>7, NoItemAssumption DEF Standing, ListedAt
  <2>3. x # p
    <3>1. v.parent[x] = p
      BY <1>6
    <3> QED BY <1>2, <3>1 DEF AcyclicIn
  <2>4. u.children = AddChild(RemoveChild(v.children, x, c), p, c, Len(s))
    <3>1. v.parent[c] # p /\ p \in ItemOrNone
      BY <1>5, <1>7, <2>3 DEF ItemOrNone
    <3>2. SetParent(v, c, p, Len(s)).children
            = AddChild(RemoveChild(v.children, v.parent[c], c), p, c, Len(s))
      <4> HIDE DEF p, s
      <4> QED BY <1>2, <1>4, <2>1, <3>1, SetParentChildren
    <3> QED BY <1>5, <1>11, <3>2
  <2>5. u.children[p] = InsertAt(s, e, c)
    <3>1. x # NoItem /\ p # NoItem
      BY <1>7, NoItemAssumption
    <3>2. RemoveChild(v.children, x, c) = [v.children EXCEPT ![x] = RemoveFirst(v.children[x], c)]
      BY <3>1 DEF RemoveChild
    <3> DEFINE b == [v.children EXCEPT ![x] = RemoveFirst(v.children[x], c)]
    <3>3. b[p] = s /\ DOMAIN b = Item
      BY <1>2, <1>7, <2>3
    <3> HIDE DEF b
    <3>4. AddChild(b, p, c, Len(s))
            = [b EXCEPT ![p] = InsertAt(b[p], 1 + (IF Len(s) < Len(b[p]) THEN Len(s) ELSE Len(b[p])), c)]
      BY <3>1 DEF AddChild
    <3>5. 1 + (IF Len(s) < Len(b[p]) THEN Len(s) ELSE Len(b[p])) = e
      BY <2>1, <3>3
    <3>6. u.children = AddChild(b, p, c, Len(s))
      BY <2>4, <3>2 DEF b
    <3> HIDE DEF s, e
    <3> QED BY <1>7, <3>3, <3>4, <3>5, <3>6
  <2>6. e \in 1 .. Len(s) + 1
    BY <2>1
  <2>7. c \in Item /\ c \notin ToSet(s)
    BY <1>4, <1>5, <2>1, <2>3
  <2> HIDE DEF s, e
  <2>8. /\ InsertAt(s, e, c) \in Seq(Item) /\ Injective(InsertAt(s, e, c))
    BY <2>1, <2>6, <2>7, InsertAtInjective
  <2>9. /\ Len(InsertAt(s, e, c)) = Len(s) + 1
        /\ \A j \in 1 .. Len(s) + 1 :
             InsertAt(s, e, c)[j] = IF j < e THEN s[j] ELSE IF j = e THEN c ELSE s[j - 1]
    BY <2>1, <2>6, <2>7, InsertAtFacts
  <2>10. m \in 1 .. Len(s) + 1 /\ m < e
    BY <2>1, <2>2 DEF e
  <2>11. m \in 1 .. Len(u.children[p]) /\ u.children[p][m] = x
    BY <2>2, <2>5, <2>9, <2>10
  <2> QED BY <2>5, <2>8, <2>11 DEF ListedAt
<1>14. Standing(t, x, u, k)
  BY <1>10, <1>12, <1>13 DEF Standing
<1> QED BY <1>9, <1>14 DEF u, op

(* The trees from t on while x hands its children over. *)
HandsOver(t, x, n, T) ==
  /\ T[0] = t
  /\ \A k \in 0 .. n : Standing(t, x, T[k], k)
  /\ \A k \in 1 .. n : /\ MayReparent(T[k - 1], HandOver(t, x, k))
                       /\ T[k] = After(T[k - 1], HandOver(t, x, k))

(* All the children of an item that has a parent may go, one by one. *)
LEMMA HandOverChain ==
  ASSUME NEW t, Sane(t), NEW x \in Item,
         t.parent[x] # NoItem \/ t.children[x] = << >>
  PROVE  \E T : HandsOver(t, x, Len(t.children[x]), T)
<1> DEFINE n == Len(t.children[x])
           P == {k \in Nat : k <= n => \E T : HandsOver(t, x, k, T)}
<1>1. n \in Nat
  <2>1. t.children[x] \in Seq(Item)
    BY ConsistentElim DEF Sane
  <2> QED BY <2>1, LenProperties
<1>2. 0 \in P
  <2> DEFINE T == [k \in 0 .. 0 |-> t]
  <2>1. T[0] = t /\ \A k \in 0 .. 0 : T[k] = t /\ k = 0
    OBVIOUS
  <2> HIDE DEF T
  <2>2. Standing(t, x, t, 0)
    BY StandingAtFirst
  <2>3. HandsOver(t, x, 0, T)
    BY <2>1, <2>2 DEF HandsOver
  <2> QED BY <2>3
<1>3. \A k \in P : k + 1 \in P
  <2> SUFFICES ASSUME NEW k \in P, k + 1 <= n
               PROVE  \E T : HandsOver(t, x, k + 1, T)
    OBVIOUS
  <2>1. k \in Nat /\ k <= n /\ \E T : HandsOver(t, x, k, T)
    BY <1>1
  <2>2. PICK T : HandsOver(t, x, k, T)
    BY <2>1
  <2>3. PICK j \in 1 .. n : j = k + 1
    BY <1>1, <2>1
  <2> DEFINE v == T[j - 1]
             w == After(v, HandOver(t, x, j))
             R == [l \in 0 .. j |-> IF l = j THEN w ELSE T[l]]
  <2>4. j - 1 = k /\ k \in 0 .. k
    BY <2>1, <2>3
  <2>5. Standing(t, x, v, j - 1)
    BY <2>2, <2>4 DEF HandsOver
  <2>6. t.parent[x] # NoItem
    <3>1. n # 0
      BY <2>3
    <3>2. Len(<< >>) = 0
      OBVIOUS
    <3> QED BY <3>1, <3>2
  <2> HIDE DEF v
  <2>7. MayReparent(v, HandOver(t, x, j)) /\ Standing(t, x, w, j)
    BY <2>3, <2>5, <2>6, HandOverStands
  <2> HIDE DEF w
  <2>8. R[j] = w /\ \A l \in 0 .. k : R[l] = T[l]
    BY <2>1, <2>3
  <2> HIDE DEF R
  <2>9. R[0] = t
    BY <2>1, <2>2, <2>8 DEF HandsOver
  <2>10. ASSUME NEW l \in 0 .. k + 1 PROVE Standing(t, x, R[l], l)
    <3>1. CASE l = j
      BY <2>7, <2>8, <3>1
    <3>2. CASE l \in 0 .. k
      BY <2>2, <2>8, <3>2 DEF HandsOver
    <3>3. l = j \/ l \in 0 .. k
      BY <2>1, <2>3
    <3> QED BY <3>1, <3>2, <3>3
  <2>11. ASSUME NEW l \in 1 .. k + 1
         PROVE  /\ MayReparent(R[l - 1], HandOver(t, x, l))
                /\ R[l] = After(R[l - 1], HandOver(t, x, l))
    <3>1. CASE l = j
      <4>1. R[l - 1] = v
        BY <2>4, <2>8, <3>1 DEF v
      <4> QED BY <2>7, <2>8, <3>1, <4>1 DEF w
    <3>2. CASE l \in 1 .. k
      <4>1. l - 1 \in 0 .. k /\ l \in 0 .. k
        BY <2>1, <3>2
      <4>2. R[l - 1] = T[l - 1] /\ R[l] = T[l]
        BY <2>8, <4>1
      <4>3. /\ MayReparent(T[l - 1], HandOver(t, x, l))
            /\ T[l] = After(T[l - 1], HandOver(t, x, l))
        BY <2>2, <3>2 DEF HandsOver
      <4> QED BY <4>2, <4>3
    <3>3. l = j \/ l \in 1 .. k
      BY <2>1, <2>3
    <3> QED BY <3>1, <3>2, <3>3
  <2>12. HandsOver(t, x, k + 1, R)
    BY <2>9, <2>10, <2>11 DEF HandsOver
  <2> QED BY <2>12
<1>4. P \in SUBSET Nat
  OBVIOUS
<1> HIDE DEF P
<1>5. P = Nat
  BY <1>2, <1>3, <1>4, NatSetInduction
<1> QED BY <1>1, <1>5 DEF P

(* The steps that execute() of a removal captures. *)
CapturedAlong(t, x, n, T) ==
  [k \in 1 .. n |-> Captured(T[k - 1], HandOver(t, x, k))]

(* Undoing the captured steps gives all the children back. *)
HandsBack(t, x, n, T, S) ==
  UndoReparents(Doc(T[n], S), CapturedAlong(t, x, n, T)).doc = Doc(t, S)

(* All children go to the parent, and come back in reverse order. *)
LEMMA HandOverRuns ==
  ASSUME NEW t, Sane(t), NEW x \in Item, NEW n \in Nat,
         NEW T, HandsOver(t, x, n, T), NEW S
  PROVE  /\ CapturedAlong(t, x, n, T) \in Seq(ReparentStep)
         /\ ExecuteReparents(Doc(t, S), [k \in 1 .. n |-> HandOver(t, x, k)])
              = Done(Doc(T[n], S), CapturedAlong(t, x, n, T))
         /\ HandsBack(t, x, n, T, S)
<1> DEFINE outs == CapturedAlong(t, x, n, T)
           ops == [k \in 1 .. n |-> HandOver(t, x, k)]
           D == [k \in 0 .. n |-> Doc(T[k], S)]
<1>1. ASSUME NEW k \in 1 .. n
      PROVE  Reparented(T[k - 1], HandOver(t, x, k), T[k], Captured(T[k - 1], HandOver(t, x, k)))
  <2>1. k - 1 \in 0 .. n
    OBVIOUS
  <2>2. /\ Sane(T[k - 1]) /\ MayReparent(T[k - 1], HandOver(t, x, k))
        /\ T[k] = After(T[k - 1], HandOver(t, x, k))
    BY <2>1 DEF HandsOver, Standing
  <2>3. PICK v : v = T[k - 1]
    OBVIOUS
  <2>4. Reparented(v, HandOver(t, x, k), After(v, HandOver(t, x, k)), Captured(v, HandOver(t, x, k)))
    BY <2>2, <2>3, ReparentUndone
  <2> QED BY <2>2, <2>3, <2>4
<1>2. ASSUME NEW k \in 1 .. n
      PROVE  /\ outs[k] \in ReparentStep
             /\ ExecuteReparent(Doc(T[k - 1], S), HandOver(t, x, k)) = Done(Doc(T[k], S), outs[k])
             /\ UndoReparent(Doc(T[k], S), outs[k]) = Done(Doc(T[k - 1], S), outs[k])
  <2>1. outs[k] = Captured(T[k - 1], HandOver(t, x, k))
    BY DEF CapturedAlong
  <2> HIDE DEF outs
  <2>2. Reparented(T[k - 1], HandOver(t, x, k), T[k], outs[k])
    BY <1>1, <2>1
  <2> QED BY <2>2 DEF Reparented
<1>3. outs \in Seq(ReparentStep) /\ Len(outs) = n
  <2>1. outs = [k \in 1 .. n |-> outs[k]]
    BY DEF CapturedAlong
  <2> HIDE DEF outs
  <2> QED BY <1>2, <2>1
<1> HIDE DEF outs
<1>4. Len(ops) = n /\ \A k \in 1 .. n : ops[k] = HandOver(t, x, k)
  OBVIOUS
<1>10. T[0] = t
  BY DEF HandsOver
<1>11. \A k \in 0 .. n : D[k] = Doc(T[k], S)
  OBVIOUS
<1>12. 0 \in 0 .. n /\ n \in 0 .. n
  OBVIOUS
<1> HIDE DEF D
<1>5. D[0] = Doc(t, S) /\ D[n] = Doc(T[n], S) /\ \A k \in 0 .. n : D[k] = Doc(T[k], S)
  BY <1>10, <1>11, <1>12, Zenon
<1> HIDE DEF ops
<1>6. ASSUME NEW k \in 1 .. n
      PROVE  /\ D[k - 1].fault = "none" /\ D[k].fault = "none"
             /\ ExecuteReparent(D[k - 1], ops[k]) = Done(D[k], outs[k])
             /\ UndoReparent(D[k], outs[k]) = Done(D[k - 1], outs[k])
  <2>1. D[k - 1] = Doc(T[k - 1], S) /\ D[k] = Doc(T[k], S)
    BY <1>5
  <2> QED BY <1>2, <1>4, <2>1, DocFields
<1>7. ExecuteReparents(D[0], ops) = Done(D[n], outs)
  <2>1. Len(ops) = n
    BY <1>4
  <2>2. \A k \in 1 .. n : /\ D[k - 1].fault = "none"
                          /\ ExecuteReparent(D[k - 1], ops[k]) = Done(D[k], outs[k])
    BY <1>6
  <2>3. RunOfReparents(n, D, ops, outs)
    BY <2>2 DEF RunOfReparents
  <2> QED BY <1>3, <2>1, <2>3, ReparentsInOrder
<1>8. UndoReparents(D[n], outs) = Done(D[0], outs)
  BY <1>3, <1>6, ReparentsInReverse
<1>9. UndoReparents(D[n], outs).doc = D[0]
  BY <1>8 DEF Done
<1>13. HandsBack(t, x, n, T, S)
  BY <1>5, <1>9 DEF HandsBack, outs
<1> QED BY <1>3, <1>5, <1>7, <1>13 DEF ops, outs

(* What a removal makes of the tree. *)
Without(t, x, T) == SetParent(T[Len(t.children[x])], x, NoItem, IndexInParent(t, x))

(* The removal with what execute() captures: former parent, index and the   *)
(* steps that handed the children over.                                     *)
Departed(t, op, T) ==
  [op EXCEPT !.from = t.parent[op.item], !.index = IndexInParent(t, op.item),
             !.changes = CapturedAlong(t, op.item, Len(t.children[op.item]), T)]

(* A removal that the tree allows: of an item that has a parent to hand its *)
(* children to, or has no children.                                         *)
MayRemove(t, op) ==
  /\ op \in InsertRemoveStep /\ op.kind = "remove" /\ op.to = NoItem
  /\ t.parent[op.item] # NoItem \/ t.children[op.item] = << >>

(* What a removal captures, and that capturing it again changes nothing. *)
LEMMA DepartedFields ==
  ASSUME NEW t, Sane(t), NEW op, MayRemove(t, op), NEW T,
         HandsOver(t, op.item, Len(t.children[op.item]), T), NEW c, c = Departed(t, op, T)
  PROVE  /\ MayRemove(t, c)
         /\ c.kind = op.kind /\ c.item = op.item /\ c.to = op.to
         /\ c.selectionBefore = op.selectionBefore /\ c.selectionAfter = op.selectionAfter
         /\ c.from = t.parent[op.item] /\ c.index = IndexInParent(t, op.item)
         /\ c.changes = CapturedAlong(t, op.item, Len(t.children[op.item]), T)
         /\ Departed(t, c, T) = c
         /\ [c EXCEPT !.to = NoItem] = c
<1>1. op \in InsertRemoveStep /\ op.item \in Item
  BY DEF MayRemove, InsertRemoveStep
<1>2. t.parent[op.item] \in ItemOrNone /\ IndexInParent(t, op.item) \in Nat
  BY <1>1, ConsistentElim, IndexFacts DEF Sane
<1>3. PICK q : q = CapturedAlong(t, op.item, Len(t.children[op.item]), T)
  OBVIOUS
<1>4. Len(t.children[op.item]) \in Nat
  <2>1. t.children[op.item] \in Seq(Item)
    BY <1>1, ConsistentElim DEF Sane
  <2> QED BY <2>1, LenProperties
<1>5. q \in Seq(ReparentStep)
  BY <1>1, <1>3, <1>4, HandOverRuns
<1>6. /\ c.kind = op.kind /\ c.item = op.item /\ c.to = op.to
      /\ c.selectionBefore = op.selectionBefore /\ c.selectionAfter = op.selectionAfter
      /\ c.from = t.parent[op.item] /\ c.index = IndexInParent(t, op.item)
      /\ c.changes = q
      /\ c \in InsertRemoveStep
  BY <1>1, <1>2, <1>3, <1>5 DEF Departed, InsertRemoveStep
<1>7. Departed(t, c, T) = c
  BY <1>3, <1>6 DEF Departed, InsertRemoveStep
<1>8. [c EXCEPT !.to = NoItem] = c
  <2>1. c.to = NoItem
    BY <1>6 DEF MayRemove
  <2> QED BY <1>6, <2>1 DEF InsertRemoveStep
<1>9. MayRemove(t, c)
  BY <1>6 DEF MayRemove
<1> QED BY <1>3, <1>6, <1>7, <1>8, <1>9

(* A removal that the tree allows does what it should and does not fail. *)
LEMMA RemoveRuns ==
  ASSUME NEW t, Sane(t), NEW op, MayRemove(t, op), NEW T,
         HandsOver(t, op.item, Len(t.children[op.item]), T), NEW S
  PROVE  ExecuteRemove(Doc(t, S), op)
           = Done(Doc(Without(t, op.item, T), op.selectionAfter), Departed(t, op, T))
<1> DEFINE x == op.item
           n == Len(t.children[x])
           i == IndexInParent(t, x)
           ops == [k \in 1 .. n |-> Reparent(t, t.children[x][k], t.parent[x], NoItem, NoItem)]
           outs == CapturedAlong(t, x, n, T)
           moved == ExecuteReparents(Doc(t, S), ops)
           gone == Hang(moved.doc, x, NoItem, i)
<1>1. x \in Item /\ op.to = NoItem
  BY DEF MayRemove, InsertRemoveStep
<1>2. n \in Nat
  <2>1. t.children[x] \in Seq(Item)
    BY <1>1, ConsistentElim DEF Sane
  <2> QED BY <2>1, LenProperties
<1>3. moved = Done(Doc(T[n], S), outs)
  <2>1. ops = [k \in 1 .. n |-> HandOver(t, x, k)]
    BY DEF HandOver
  <2>2. HandsOver(t, x, n, T)
    OBVIOUS
  <2> HIDE DEF n, x, ops, outs
  <2>3. ExecuteReparents(Doc(t, S), [k \in 1 .. n |-> HandOver(t, x, k)])
          = Done(Doc(T[n], S), CapturedAlong(t, x, n, T))
    BY <1>1, <1>2, <2>2, HandOverRuns
  <2> QED BY <2>1, <2>3 DEF outs
<1> HIDE DEF moved
<1>4. moved.doc = Doc(T[n], S) /\ moved.op = outs
  BY <1>3 DEF Done
<1>5. gone = Doc(SetParent(T[n], x, NoItem, i), S)
  <2> HIDE DEF n, x, i
  <2>1. NoItem # x /\ NoItem \in ItemOrNone /\ MayAdopt(T[n], NoItem, x)
    BY <1>1, NoItemAssumption DEF ItemOrNone, MayAdopt
  <2>2. PICK v : v = T[n]
    OBVIOUS
  <2>3. Hang(Doc(v, S), x, NoItem, i) = Doc(SetParent(v, x, NoItem, i), S)
    BY <1>1, <2>1, <2>2, HangRuns
  <2> QED BY <1>4, <2>2, <2>3
<1>6. [gone EXCEPT !.selection = op.selectionAfter] = Doc(Without(t, x, T), op.selectionAfter)
  <2> HIDE DEF gone
  <2> QED BY <1>5, DocFields DEF Without
<1>7. ~(t.parent[x] = NoItem /\ t.children[x] # << >>)
  BY DEF MayRemove
<1>8. ExecuteRemove(Doc(t, S), op)
        = IF t.parent[x] = NoItem /\ t.children[x] # << >>
          THEN Done(FailWith(Doc(t, S), "null"), op)
          ELSE Done([gone EXCEPT !.selection = op.selectionAfter],
                    [op EXCEPT !.from = t.parent[x], !.index = i, !.changes = moved.op])
  <2>1. Doc(t, S).tree = t
    BY DocFields
  <2> DEFINE d == Doc(t, S)
  <2>2. ExecuteRemove(d, op)
          = LET steps == [k \in 1 .. Len(d.tree.children[x]) |->
                            Reparent(d.tree, d.tree.children[x][k], d.tree.parent[x], NoItem, NoItem)]
                over == ExecuteReparents(d, steps)
                place == IndexInParent(d.tree, x)
            IN  IF d.tree.parent[x] = NoItem /\ d.tree.children[x] # << >>
                THEN Done(FailWith(d, "null"), op)
                ELSE Done([Hang(over.doc, x, op.to, place) EXCEPT !.selection = op.selectionAfter],
                          [op EXCEPT !.from = d.tree.parent[x], !.index = place, !.changes = over.op])
    BY Zenon DEF ExecuteRemove
  <2> QED BY <1>1, <2>1, <2>2, Zenon DEF gone, moved, ops
<1>9. [op EXCEPT !.from = t.parent[x], !.index = i, !.changes = moved.op] = Departed(t, op, T)
  BY <1>4 DEF Departed
<1> HIDE DEF gone
<1> QED BY <1>6, <1>7, <1>8, <1>9

(* What a removal makes of the tree, captures and takes back. *)
Removed(t, op, u, c) ==
  /\ Sane(u)
  /\ \A y \in Item : u.parent[y] = IF y = op.item THEN NoItem
                                   ELSE IF t.parent[y] = op.item THEN t.parent[op.item]
                                        ELSE t.parent[y]
  /\ c \in InsertRemoveStep /\ c.kind = "remove"
  /\ \A S : /\ ExecuteRemove(Doc(t, S), op) = Done(Doc(u, op.selectionAfter), c)
            /\ ExecuteRemove(Doc(t, S), c) = Done(Doc(u, op.selectionAfter), c)
            /\ UndoInsertRemove(Doc(u, S), c) = Done(Doc(t, op.selectionBefore), c)

(* Item_insert_remove_operation::undo() of a removal is exact: the item       *)
(* comes back where it was, and its children below it, in their old order.  *)
THEOREM RemoveUndone ==
  ASSUME NEW t, Sane(t), NEW op, MayRemove(t, op)
  PROVE  \E u, c : Removed(t, op, u, c)
<1> DEFINE x == op.item
           n == Len(t.children[x])
           i == IndexInParent(t, x)
           p == t.parent[x]
<1>1. x \in Item /\ op.to = NoItem /\ op.kind = "remove"
  BY DEF MayRemove, InsertRemoveStep
<1>2. /\ Consistent(t) /\ t.parent \in [Item -> ItemOrNone] /\ AcyclicIn(t)
      /\ t.children[x] \in Seq(Item) /\ ToSet(t.children[x]) = {y \in Item : t.parent[y] = x}
  BY <1>1, ConsistentElim DEF Sane
<1>3. n \in Nat /\ p \in ItemOrNone
  BY <1>1, <1>2, LenProperties
<1>4. PICK T : HandsOver(t, x, n, T)
  <2>1. t.parent[x] # NoItem \/ t.children[x] = << >>
    BY DEF MayRemove
  <2> HIDE DEF x
  <2> QED BY <1>1, <2>1, HandOverChain
<1> DEFINE v == T[n]
           u == Without(t, x, T)
           c == Departed(t, op, T)
<1>5. Standing(t, x, v, n)
  <2>1. n \in 0 .. n
    BY <1>3
  <2> QED BY <1>4, <2>1 DEF HandsOver
<1>6. Sane(v) /\ Consistent(v)
  BY <1>5 DEF Standing, Sane
<1>7. \A y \in Item : v.parent[y] = IF t.parent[y] = x THEN p ELSE t.parent[y]
  <2> TAKE y \in Item
  <2>1. (\E j \in 1 .. n : y = t.children[x][j]) <=> y \in ToSet(t.children[x])
    BY <1>2, ToSetDef
  <2>2. v.parent[y] = IF \E j \in 1 .. n : y = t.children[x][j] THEN p ELSE t.parent[y]
    BY <1>5 DEF Standing
  <2> HIDE DEF v, n, p
  <2> QED BY <1>2, <2>1, <2>2
<1>8. v.parent[x] = p
  <2>1. t.parent[x] # x
    BY <1>1, <1>2 DEF AcyclicIn
  <2> HIDE DEF v
  <2> QED BY <1>1, <1>7, <2>1
<1>9. IndexInParent(v, x) = i
  <2>1. CASE p = NoItem
    BY <1>8, <2>1 DEF IndexInParent
  <2>2. CASE p # NoItem
    <3>1. /\ i + 1 \in 1 .. Len(v.children[p]) /\ v.children[p][i + 1] = x
      BY <1>5, <2>2 DEF Standing, ListedAt
    <3> HIDE DEF v, p
    <3>2. PICK k \in 1 .. Len(v.children[p]) : k = i + 1
      BY <3>1
    <3>3. IndexInParent(v, x) = k - 1
      <4>1. v.parent[x] # NoItem /\ v.children[v.parent[x]][k] = x
        BY <1>8, <2>2, <3>1, <3>2
      <4>2. k \in 1 .. Len(v.children[v.parent[x]])
        BY <1>8, <3>2
      <4> HIDE DEF x
      <4> QED BY <1>1, <1>6, <4>1, <4>2, IndexIsPlace
    <3>4. i \in Nat
      BY <1>1, <1>2, IndexFacts
    <3> QED BY <3>2, <3>3, <3>4
  <2> QED BY <2>1, <2>2
<1>10. u = SetParent(v, x, NoItem, i)
  BY DEF Without
<1>11. i \in Nat /\ MayAdopt(v, NoItem, x) /\ NoItem \in ItemOrNone
  BY <1>1, <1>2, IndexFacts DEF MayAdopt, ItemOrNone
<1> HIDE DEF v, u
<1>12. Sane(u) /\ u.parent = [v.parent EXCEPT ![x] = NoItem]
  <2> HIDE DEF i, x
  <2> QED BY <1>1, <1>6, <1>10, <1>11, SetParentSane
<1>13. SetParent(u, x, p, i) = v
  <2>1. SetParent(SetParent(v, x, NoItem, i), x, v.parent[x], i) = v
    <3> HIDE DEF i, x
    <3> QED BY <1>1, <1>6, <1>9, <1>11, SetParentUndone
  <2> QED BY <1>8, <1>10, <2>1
<1>14. \A y \in Item : u.parent[y] = IF y = x THEN NoItem
                                     ELSE IF t.parent[y] = x THEN p ELSE t.parent[y]
  <2>1. v.parent \in [Item -> ItemOrNone]
    BY <1>6, ConsistentElim
  <2> HIDE DEF p, x
  <2> QED BY <1>1, <1>7, <1>12, <2>1
<1>15. /\ MayRemove(t, c)
       /\ c.kind = op.kind /\ c.item = op.item /\ c.to = op.to
       /\ c.selectionBefore = op.selectionBefore /\ c.selectionAfter = op.selectionAfter
       /\ c.from = p /\ c.index = i
       /\ c.changes = CapturedAlong(t, x, n, T)
       /\ Departed(t, c, T) = c
       /\ [c EXCEPT !.to = NoItem] = c
  BY <1>4, DepartedFields
<1>16. ASSUME NEW S PROVE ExecuteRemove(Doc(t, S), op) = Done(Doc(u, op.selectionAfter), c)
  BY <1>4, RemoveRuns DEF u
<1>17. ASSUME NEW S PROVE ExecuteRemove(Doc(t, S), c) = Done(Doc(u, op.selectionAfter), c)
  <2>1. HandsOver(t, c.item, Len(t.children[c.item]), T)
    BY <1>4, <1>15
  <2> HIDE DEF c
  <2>2. ExecuteRemove(Doc(t, S), c)
           = Done(Doc(Without(t, c.item, T), c.selectionAfter), Departed(t, c, T))
    BY <1>15, <2>1, RemoveRuns
  <2> QED BY <1>15, <2>2 DEF u
<1>18. ASSUME NEW S
       PROVE  UndoInsertRemove(Doc(u, S), c) = Done(Doc(t, op.selectionBefore), c)
  <2> HIDE DEF c, p, i, n
  <2>1. u.parent[x] = NoItem
    BY <1>1, <1>14
  <2>2. MayAdopt(u, p, x)
    <3>1. \A y \in Item \ {x} : u.parent[y] = v.parent[y]
      <4>1. v.parent \in [Item -> ItemOrNone]
        BY <1>6, ConsistentElim
      <4> QED BY <1>12, <4>1
    <3>2. v.parent \in [Item -> ItemOrNone] /\ AcyclicIn(v)
      BY <1>6, ConsistentElim DEF Sane
    <3> HIDE DEF x
    <3>3. MayAdopt(u, v.parent[x], x)
      BY <1>1, <3>1, <3>2, MayReturn
    <3> QED BY <1>8, <3>3
  <2>3. p # x
    BY <1>1, <2>2, NoItemAssumption DEF MayAdopt
  <2>4. Hang(Doc(u, S), x, p, i) = Doc(v, S)
    <3> HIDE DEF x
    <3>1. Hang(Doc(u, S), x, p, i) = Doc(SetParent(u, x, p, i), S)
      BY <1>1, <1>3, <2>2, <2>3, HangRuns
    <3> QED BY <1>13, <3>1
  <2>5. UndoReparents(Doc(v, S), CapturedAlong(t, x, n, T)).doc = Doc(t, S)
    <3> HIDE DEF x
    <3>1. PICK m \in Nat : m = n
      BY <1>3
    <3>2. HandsOver(t, x, m, T)
      BY <1>4, <3>1
    <3>3. UndoReparents(Doc(T[m], S), CapturedAlong(t, x, m, T)).doc = Doc(t, S)
      <4>1. HandsBack(t, x, m, T, S)
        BY <1>1, <3>2, HandOverRuns
      <4> QED BY <4>1 DEF HandsBack
    <3> QED BY <3>1, <3>3 DEF v
  <2>6. UndoReparents(Hang(Doc(u, S), c.item, c.from, c.index), c.changes).doc = Doc(t, S)
    BY <1>15, <2>4, <2>5
  <2>7. [UndoReparents(Hang(Doc(u, S), c.item, c.from, c.index), c.changes).doc
           EXCEPT !.selection = c.selectionBefore] = Doc(t, op.selectionBefore)
    BY <1>15, <2>6, DocFields
  <2>8. Doc(u, S).tree.parent[c.item] = NoItem
    BY <1>15, <2>1, DocFields
  <2> QED BY <1>1, <1>15, <2>7, <2>8 DEF UndoInsertRemove
<1>19. c \in InsertRemoveStep /\ c.kind = "remove"
  BY <1>1, <1>15 DEF MayRemove
<1> HIDE DEF c
<1>20. Removed(t, op, u, c)
  BY <1>12, <1>14, <1>16, <1>17, <1>18, <1>19 DEF Removed
<1> QED BY <1>20

-----------------------------------------------------------------------------
(* Insertions *)

(* An insertion that the tree allows: of an item that is on its own. *)
MayInsert(t, op) ==
  /\ op \in InsertRemoveStep /\ op.kind = "insert"
  /\ op.from = NoItem /\ op.to \in Item /\ op.to # op.item
  /\ op.changes = << >>
  /\ t.parent[op.item] = NoItem
  /\ \A y \in Item : t.parent[y] # op.item

(* What an insertion makes of the tree and takes back. *)
Inserted(t, op, u) ==
  /\ Sane(u) /\ u.parent = [t.parent EXCEPT ![op.item] = op.to]
  /\ \A S : /\ ExecuteInsert(Doc(t, S), op) = Done(Doc(u, op.selectionAfter), op)
            /\ UndoInsertRemove(Doc(u, S), op) = Done(Doc(t, op.selectionBefore), op)

(* Undoing no steps changes nothing. *)
LEMMA NothingTakenBack ==
  ASSUME NEW t, NEW S
  PROVE  UndoReparents(Doc(t, S), << >>).doc = Doc(t, S)
<1> DEFINE D == [k \in 0 .. 0 |-> Doc(t, S)]
<1>1. D[0] = Doc(t, S)
  OBVIOUS
<1> HIDE DEF D
<1>2. << >> \in Seq(Item) /\ Len(<< >>) = 0
  OBVIOUS
<1>3. PICK n \in Nat : n = 0
  OBVIOUS
<1>4. \A k \in 1 .. n : /\ D[k].fault = "none"
                        /\ UndoReparent(D[k], << >>[k]) = Done(D[k - 1], << >>[k])
  BY <1>3
<1>5. UndoReparents(D[n], << >>) = Done(D[0], << >>)
  BY <1>2, <1>3, <1>4, ReparentsInReverse
<1> QED BY <1>1, <1>3, <1>5 DEF Done

(* Item_insert_remove_operation::undo() of an insertion is exact. *)
THEOREM InsertUndone ==
  ASSUME NEW t, Sane(t), NEW op, MayInsert(t, op)
  PROVE  \E u : Inserted(t, op, u)
<1> DEFINE x == op.item
           p == op.to
           u == SetParent(t, x, p, op.index)
<1>1. /\ x \in Item /\ p \in Item /\ p \in ItemOrNone /\ p # x /\ op.index \in Nat
      /\ op.kind = "insert" /\ op.from = NoItem /\ op.changes = << >>
      /\ t.parent[x] = NoItem /\ NoItem \in ItemOrNone
  BY DEF MayInsert, InsertRemoveStep, ItemOrNone
<1>2. t.parent \in [Item -> ItemOrNone] /\ AcyclicIn(t) /\ Consistent(t)
  BY ConsistentElim DEF Sane
<1>3. MayAdopt(t, p, x)
  BY <1>1, <1>2, ChildlessIsNoAncestor DEF MayInsert, MayAdopt
<1> HIDE DEF x, p
<1>4. Sane(u) /\ u.parent = [t.parent EXCEPT ![x] = p]
  BY <1>1, <1>3, SetParentSane
<1>5. SetParent(u, x, NoItem, 0) = t
  <2>1. IndexInParent(t, x) = 0
    BY <1>1 DEF IndexInParent
  <2>2. PICK i : i = 0
    OBVIOUS
  <2>3. SetParent(SetParent(t, x, p, op.index), x, t.parent[x], i) = t
    BY <1>1, <1>3, <2>1, <2>2, SetParentUndone
  <2> QED BY <1>1, <2>2, <2>3
<1>6. SetParent(u, x, NoItem, op.index) = t
  <2>1. SetParent(u, x, NoItem, op.index) = SetParent(u, x, NoItem, 0)
    BY DEF SetParent, Relinked, AddChild
  <2> QED BY <1>5, <2>1
<1>7. ASSUME NEW S PROVE ExecuteInsert(Doc(t, S), op) = Done(Doc(u, op.selectionAfter), op)
  <2>1. Hang(Doc(t, S), x, p, op.index) = Doc(u, S)
    BY <1>1, <1>3, HangRuns
  <2> HIDE DEF u
  <2> QED BY <2>1, DocFields DEF ExecuteInsert, x, p
<1> HIDE DEF u
<1>8. ASSUME NEW S PROVE UndoInsertRemove(Doc(u, S), op) = Done(Doc(t, op.selectionBefore), op)
  <2>1. MayAdopt(u, NoItem, x) /\ NoItem # x
    BY <1>1, NoItemAssumption DEF MayAdopt
  <2>2. Hang(Doc(u, S), x, NoItem, op.index) = Doc(SetParent(u, x, NoItem, op.index), S)
    BY <1>1, <2>1, HangRuns
  <2>3. Hang(Doc(u, S), op.item, op.from, op.index) = Doc(t, S)
    BY <1>1, <1>6, <2>2 DEF x
  <2>4. UndoReparents(Hang(Doc(u, S), op.item, op.from, op.index), op.changes).doc = Doc(t, S)
    BY <1>1, <2>3, NothingTakenBack
  <2>5. [UndoReparents(Hang(Doc(u, S), op.item, op.from, op.index), op.changes).doc
           EXCEPT !.selection = op.selectionBefore] = Doc(t, op.selectionBefore)
    BY <2>4, DocFields
  <2>6. op.kind # "remove"
    BY <1>1
  <2> QED BY <2>5, <2>6 DEF UndoInsertRemove
<1> QED BY <1>4, <1>7, <1>8 DEF Inserted, x, p

-----------------------------------------------------------------------------
(* The scene *)

(* Every item that has a parent is below the root. *)
Rooted(t) ==
  /\ t.parent[Root] = NoItem
  /\ \A x \in Item : t.parent[x] # NoItem => t.parent[x] = Root \/ t.parent[t.parent[x]] # NoItem

(* A sound tree without anything left hanging outside of the scene. *)
Fits(t) == Sane(t) /\ Rooted(t)

(* The scene, its orphans and the shown items are told by the parents. *)
LEMMA SceneOf ==
  ASSUME NEW t, Fits(t)
  PROVE  /\ Shown(t) = {x \in Item : t.parent[x] # NoItem}
         /\ InScene(t) = {x \in Item : x = Root \/ t.parent[x] # NoItem}
         /\ \A x \in Orphans(t) : t.parent[x] = NoItem /\ t.children[x] = << >>
         /\ LinksAgreeIn(t) /\ NoDuplicateChildrenIn(t)
         /\ AcyclicIn(t) /\ DepthIsDistanceIn(t) /\ t \in Tree
<1>1. /\ Consistent(t) /\ AcyclicIn(t) /\ DepthIsDistanceIn(t) /\ Rooted(t)
      /\ t.parent \in [Item -> ItemOrNone]
      /\ t.children \in [Item -> Seq(Item)]
      /\ \A q \in Item : ToSet(t.children[q]) = {y \in Item : t.parent[y] = q}
  BY ConsistentElim DEF Fits, Sane
<1>2. ASSUME NEW x \in Item, t.parent[x] # NoItem
      PROVE  IsAncestor(t, Root, x)
  <2> SUFFICES ASSUME NEW V \in SUBSET Item, UpwardClosed(t, V), t.parent[x] \in V, Root \notin V
               PROVE  FALSE
    BY <1>2 DEF IsAncestor
  <2> DEFINE W == {y \in V : t.parent[y] # NoItem}
  <2>1. t.parent[x] \in W
    BY <1>1, <1>2 DEF Rooted
  <2>2. PICK y \in W : t.parent[y] \notin W
    <3>1. W \in SUBSET Item /\ W # {}
      BY <2>1
    <3> HIDE DEF W
    <3> QED BY <1>1, <3>1 DEF AcyclicIn
  <2>3. t.parent[y] \in V /\ t.parent[t.parent[y]] = NoItem
    BY <2>2 DEF UpwardClosed
  <2> QED BY <1>1, <2>2, <2>3 DEF Rooted
<1>3. ASSUME NEW x \in Item, IsAncestor(t, Root, x)
      PROVE  t.parent[x] # NoItem /\ x # Root
  BY <1>1, <1>3 DEF IsAncestor, Rooted
<1>4. InScene(t) = {x \in Item : x = Root \/ t.parent[x] # NoItem}
  BY <1>2, <1>3 DEF InScene, Subtree
<1>5. Shown(t) = {x \in Item : t.parent[x] # NoItem}
  BY <1>1, <1>4 DEF Shown, Rooted
<1>6. ASSUME NEW x \in Orphans(t) PROVE t.parent[x] = NoItem /\ t.children[x] = << >>
  <2>1. x \in Item /\ x # Root /\ t.parent[x] = NoItem
    BY <1>4 DEF Orphans
  <2>2. \A y \in Item : t.parent[y] # x
    BY <1>1, <2>1, NoItemAssumption DEF Rooted
  <2>3. ToSet(t.children[x]) = {}
    BY <1>1, <2>1, <2>2
  <2>4. t.children[x] \in Seq(Item)
    BY <1>1, <2>1
  <2>5. t.children[x] = << >>
    BY <2>3, <2>4, NothingListed
  <2> QED BY <2>1, <2>5
<1>7. /\ LinksAgreeIn(t) /\ NoDuplicateChildrenIn(t) /\ t \in Tree
  BY <1>1 DEF Consistent, LinksAgreeIn, NoDuplicateChildrenIn
<1> QED BY <1>1, <1>4, <1>5, <1>6, <1>7

-----------------------------------------------------------------------------
(* Steps with their way back *)

(* A step that may replace the selection by A, and by B when undone. *)
Chosen(sets, A, S) == IF sets THEN A ELSE S

(* The step op leads from t to u and captures c, which undone leads back. *)
Link(t, op, u, c, sets, A, B) ==
  /\ Fits(u) /\ c \in Step
  /\ \A S : /\ ExecuteStep(Doc(t, S), op) = Done(Doc(u, Chosen(sets, A, S)), c)
            /\ ExecuteStep(Doc(t, S), c) = Done(Doc(u, Chosen(sets, A, S)), c)
            /\ UndoStep(Doc(u, S), c) = Done(Doc(t, Chosen(sets, B, S)), c)

(* Some step does, and gives the items those parents. *)
Links(t, op, sets, A, B, parents) ==
  \E u, c : Link(t, op, u, c, sets, A, B) /\ u.parent = parents

(* execute() and undo() of a step are those of its kind. *)
LEMMA StepKinds ==
  ASSUME NEW d, NEW op
  PROVE  /\ op.kind = "reparent" => /\ ExecuteStep(d, op) = ExecuteReparent(d, op)
                                    /\ UndoStep(d, op) = UndoReparent(d, op)
         /\ op.kind = "reposition" => /\ ExecuteStep(d, op) = ExecuteReposition(d, op)
                                      /\ UndoStep(d, op) = UndoReposition(d, op)
         /\ op.kind = "insert" => /\ ExecuteStep(d, op) = ExecuteInsert(d, op)
                                  /\ UndoStep(d, op) = UndoInsertRemove(d, op)
         /\ op.kind = "remove" => /\ ExecuteStep(d, op) = ExecuteRemove(d, op)
                                  /\ UndoStep(d, op) = UndoInsertRemove(d, op)
BY Zenon DEF ExecuteStep, UndoStep

(* A reparent step below an item of the scene keeps the tree sound, and     *)
(* comes with its way back.                                                 *)
LEMMA ReparentLinks ==
  ASSUME NEW t, Fits(t), NEW op, MayReparent(t, op), t.parent[op.item] # NoItem,
         op.to = Root \/ t.parent[op.to] # NoItem, NEW A, NEW B
  PROVE  Links(t, op, FALSE, A, B, [t.parent EXCEPT ![op.item] = op.to])
<1> DEFINE u == After(t, op)
           c == Captured(t, op)
<1>1. Reparented(t, op, u, c)
  BY ReparentUndone DEF Fits
<1> HIDE DEF u, c
<1>2. /\ op.kind = "reparent" /\ op.item \in Item /\ op.to \in Item /\ op.to # op.item
      /\ c \in ReparentStep /\ c.kind = "reparent"
      /\ Sane(u) /\ u.parent = [t.parent EXCEPT ![op.item] = op.to]
  BY <1>1 DEF MayReparent, ReparentStep, Reparented
<1>3. t.parent \in [Item -> ItemOrNone] /\ Rooted(t)
  BY ConsistentElim DEF Sane, Fits
<1>4. Rooted(u)
  BY <1>2, <1>3, NoItemAssumption DEF Rooted, ItemOrNone
<1>5. c \in Step
  BY <1>2 DEF Step
<1>6. ASSUME NEW S
      PROVE  /\ ExecuteStep(Doc(t, S), op) = Done(Doc(u, S), c)
             /\ ExecuteStep(Doc(t, S), c) = Done(Doc(u, S), c)
             /\ UndoStep(Doc(u, S), c) = Done(Doc(t, S), c)
  BY <1>1, <1>2, StepKinds DEF Reparented
<1>7. Link(t, op, u, c, FALSE, A, B)
  BY <1>2, <1>4, <1>5, <1>6 DEF Link, Fits, Chosen
<1> QED BY <1>2, <1>7 DEF Links

(* So does a reposition step. *)
LEMMA RepositionLinks ==
  ASSUME NEW t, Fits(t), NEW op, MayReposition(t, op), NEW A, NEW B
  PROVE  Links(t, op, FALSE, A, B, t.parent)
<1>1. PICK u, c : Repositioned(t, op, u, c)
  BY RepositionUndone DEF Fits
<1>2. /\ op.kind = "reposition" /\ c \in RepositionStep /\ c.kind = "reposition"
      /\ Sane(u) /\ u.parent = t.parent
  BY <1>1 DEF MayReposition, RepositionStep, Repositioned
<1>3. Rooted(u)
  BY <1>2 DEF Rooted, Fits
<1>4. c \in Step
  BY <1>2 DEF Step
<1>5. ASSUME NEW S
      PROVE  /\ ExecuteStep(Doc(t, S), op) = Done(Doc(u, S), c)
             /\ ExecuteStep(Doc(t, S), c) = Done(Doc(u, S), c)
             /\ UndoStep(Doc(u, S), c) = Done(Doc(t, S), c)
  BY <1>1, <1>2, StepKinds DEF Repositioned
<1>6. Link(t, op, u, c, FALSE, A, B)
  BY <1>2, <1>3, <1>4, <1>5 DEF Link, Fits, Chosen
<1> QED BY <1>2, <1>6 DEF Links

(* So does an insertion of an item from outside of the scene, which         *)
(* captures nothing.                                                        *)
LEMMA InsertLinks ==
  ASSUME NEW t, Fits(t), NEW op, op \in InsertRemoveStep, op.kind = "insert",
         op.from = NoItem, op.changes = << >>,
         op.to \in InScene(t), op.item \notin InScene(t)
  PROVE  \E u : /\ Link(t, op, u, op, TRUE, op.selectionAfter, op.selectionBefore)
                /\ u.parent = [t.parent EXCEPT ![op.item] = op.to]
<1>1. /\ op.item \in Item /\ op.to \in Item /\ op.to # op.item /\ op.item # Root
      /\ t.parent[op.item] = NoItem /\ (op.to = Root \/ t.parent[op.to] # NoItem)
  BY SceneOf DEF InsertRemoveStep
<1>2. t.parent \in [Item -> ItemOrNone] /\ Rooted(t) /\ Sane(t)
  BY ConsistentElim DEF Sane, Fits
<1>3. \A y \in Item : t.parent[y] # op.item
  BY <1>1, <1>2, NoItemAssumption DEF Rooted
<1>4. MayInsert(t, op)
  BY <1>1, <1>3 DEF MayInsert
<1>5. PICK u : Inserted(t, op, u)
  BY <1>2, <1>4, InsertUndone
<1>6. Sane(u) /\ u.parent = [t.parent EXCEPT ![op.item] = op.to]
  BY <1>5 DEF Inserted
<1>7. Rooted(u)
  BY <1>1, <1>2, <1>3, <1>6, NoItemAssumption DEF Rooted, ItemOrNone
<1>8. op \in Step
  BY DEF Step
<1>9. ASSUME NEW S
      PROVE  /\ ExecuteStep(Doc(t, S), op) = Done(Doc(u, op.selectionAfter), op)
             /\ UndoStep(Doc(u, S), op) = Done(Doc(t, op.selectionBefore), op)
  BY <1>5, StepKinds DEF Inserted
<1>10. Link(t, op, u, op, TRUE, op.selectionAfter, op.selectionBefore)
  BY <1>6, <1>7, <1>8, <1>9 DEF Link, Fits, Chosen
<1> QED BY <1>6, <1>10

(* So does a removal, also of an item that an earlier step removed. *)
LEMMA RemoveLinks ==
  ASSUME NEW t, Fits(t), NEW op, op \in InsertRemoveStep, op.kind = "remove",
         op.to = NoItem, op.item # Root
  PROVE  \E u, c : Link(t, op, u, c, TRUE, op.selectionAfter, op.selectionBefore)
<1>1. op.item \in Item
  BY DEF InsertRemoveStep
<1>2. /\ t.parent \in [Item -> ItemOrNone] /\ Rooted(t) /\ Sane(t) /\ AcyclicIn(t)
  BY ConsistentElim DEF Sane, Fits
<1>3. t.parent[op.item] # NoItem \/ t.children[op.item] = << >>
  BY <1>1, SceneOf DEF Orphans
<1>4. MayRemove(t, op)
  BY <1>3 DEF MayRemove
<1>5. PICK u, c : Removed(t, op, u, c)
  BY <1>2, <1>4, RemoveUndone
<1>6. /\ Sane(u) /\ c \in InsertRemoveStep /\ c.kind = "remove"
      /\ \A y \in Item : u.parent[y] = IF y = op.item THEN NoItem
                                       ELSE IF t.parent[y] = op.item THEN t.parent[op.item]
                                            ELSE t.parent[y]
  BY <1>5 DEF Removed
<1>7. Rooted(u)
  <2>1. t.parent[op.item] # op.item
    <3>1. PICK x \in Item : x = op.item
      BY <1>1
    <3>2. {x} \in SUBSET Item /\ {x} # {}
      OBVIOUS
    <3>3. t.parent[x] # x
      BY <1>2, <3>2 DEF AcyclicIn
    <3> QED BY <3>1, <3>3
  <2>2. u.parent[Root] = NoItem
    BY <1>1, <1>2, <1>6, RootAssumption, NoItemAssumption DEF Rooted
  <2>3. ASSUME NEW y \in Item, u.parent[y] # NoItem
        PROVE  u.parent[y] = Root \/ u.parent[u.parent[y]] # NoItem
    <3>1. PICK q \in Item : q = u.parent[y] /\ q # op.item
      BY <1>1, <1>2, <1>6, <2>1, <2>3 DEF ItemOrNone
    <3>2. q = Root \/ t.parent[q] # NoItem
      BY <1>1, <1>2, <1>6, <2>3, <3>1 DEF Rooted
    <3>3. t.parent[op.item] # NoItem \/ t.parent[q] # op.item
      BY <1>1, <1>2, NoItemAssumption DEF Rooted
    <3> QED BY <1>6, <3>1, <3>2, <3>3
  <2> QED BY <2>2, <2>3 DEF Rooted
<1>8. c \in Step
  BY <1>6 DEF Step
<1>9. ASSUME NEW S
      PROVE  /\ ExecuteStep(Doc(t, S), op) = Done(Doc(u, op.selectionAfter), c)
             /\ ExecuteStep(Doc(t, S), c) = Done(Doc(u, op.selectionAfter), c)
             /\ UndoStep(Doc(u, S), c) = Done(Doc(t, op.selectionBefore), c)
  BY <1>5, <1>6, StepKinds DEF Removed
<1>10. Link(t, op, u, c, TRUE, op.selectionAfter, op.selectionBefore)
  BY <1>6, <1>7, <1>8, <1>9 DEF Link, Fits, Chosen
<1> QED BY <1>10

-----------------------------------------------------------------------------
(* Compounds of steps *)

(* From each tree of J[k - 1], step k leads to a tree of J[k]. *)
Leads(J, n, ops, sets, A, B) ==
  \A k \in 1 .. n : \A t \in J[k - 1] : \E u \in J[k] : \E c :
    Link(t, ops[k], u, c, sets, A, B)

(* The trees that the first n steps lead to, and what the steps capture. *)
Along(J, n, T, ops, outs, sets, A, B) ==
  /\ \A k \in 0 .. n : T[k] \in J[k]
  /\ \A k \in 1 .. n : Link(T[k - 1], ops[k], T[k], outs[k], sets, A, B)

(* Steps that lead from tree to tree make a chain of trees and captured     *)
(* steps.                                                                   *)
LEMMA ChainExists ==
  ASSUME NEW J, NEW n \in Nat, NEW ops, NEW sets, NEW A, NEW B,
         Leads(J, n, ops, sets, A, B), NEW t \in J[0]
  PROVE  \E T, outs : T[0] = t /\ Along(J, n, T, ops, outs, sets, A, B)
<1> DEFINE P == {k \in Nat : k <= n =>
                   \E T, outs : T[0] = t /\ Along(J, k, T, ops, outs, sets, A, B)}
<1>1. 0 \in P
  <2> DEFINE T == [k \in 0 .. 0 |-> t]
  <2>1. T[0] = t
    OBVIOUS
  <2> HIDE DEF T
  <2>2. Along(J, 0, T, ops, << >>, sets, A, B)
    BY <2>1 DEF Along
  <2> QED BY <2>1, <2>2
<1>2. \A k \in P : k + 1 \in P
  <2> SUFFICES ASSUME NEW k \in P, k + 1 <= n
               PROVE  \E T, outs : T[0] = t /\ Along(J, k + 1, T, ops, outs, sets, A, B)
    OBVIOUS
  <2>1. k \in Nat /\ k <= n /\ k + 1 \in 1 .. n
    OBVIOUS
  <2>2. PICK T, outs : T[0] = t /\ Along(J, k, T, ops, outs, sets, A, B)
    BY <2>1
  <2>3. PICK j \in 1 .. n : j = k + 1
    BY <2>1
  <2>4. j - 1 = k /\ k \in 0 .. k
    BY <2>1, <2>3
  <2>5. T[j - 1] \in J[j - 1]
    BY <2>2, <2>4 DEF Along
  <2>6. PICK u \in J[j] : \E c : Link(T[j - 1], ops[j], u, c, sets, A, B)
    BY <2>5 DEF Leads
  <2>7. PICK c : Link(T[j - 1], ops[j], u, c, sets, A, B)
    BY <2>6
  <2> DEFINE R == [l \in 0 .. j |-> IF l = j THEN u ELSE T[l]]
             o == [l \in 1 .. j |-> IF l = j THEN c ELSE outs[l]]
  <2>8. R[j] = u /\ (\A l \in 0 .. k : R[l] = T[l])
        /\ o[j] = c /\ \A l \in 1 .. k : o[l] = outs[l]
    BY <2>1, <2>3
  <2> HIDE DEF R, o
  <2>9. ASSUME NEW l \in 0 .. j PROVE R[l] \in J[l]
    <3>1. CASE l = j
      BY <2>8, <3>1
    <3>2. CASE l \in 0 .. k
      BY <2>2, <2>8, <3>2 DEF Along
    <3> QED BY <2>3, <2>4, <3>1, <3>2
  <2>10. ASSUME NEW l \in 1 .. j PROVE Link(R[l - 1], ops[l], R[l], o[l], sets, A, B)
    <3>1. CASE l = j
      BY <2>4, <2>7, <2>8, <3>1
    <3>2. CASE l \in 1 .. k
      <4>1. l - 1 \in 0 .. k /\ l \in 0 .. k
        BY <2>1, <3>2
      <4>2. Link(T[l - 1], ops[l], T[l], outs[l], sets, A, B)
        BY <2>2, <3>2 DEF Along
      <4> QED BY <2>8, <3>2, <4>1, <4>2
    <3> QED BY <2>3, <2>4, <3>1, <3>2
  <2>11. Along(J, j, R, ops, o, sets, A, B)
    BY <2>9, <2>10 DEF Along
  <2>12. R[0] = t
    BY <2>1, <2>2, <2>8
  <2> QED BY <2>3, <2>11, <2>12
<1>3. P \in SUBSET Nat
  OBVIOUS
<1> HIDE DEF P
<1>4. P = Nat
  BY <1>1, <1>2, <1>3, NatSetInduction
<1> QED BY <1>4 DEF P

(* What the steps of a compound do together. *)
Compound(t, ops, u, outs, sets, A, B) ==
  /\ Fits(u) /\ outs \in Operation
  /\ \A S : /\ Execute(Doc(t, S), ops) = Done(Doc(u, Chosen(sets, A, S)), outs)
            /\ Execute(Doc(t, S), outs) = Done(Doc(u, Chosen(sets, A, S)), outs)
            /\ Undo(Doc(u, S), outs) = Done(Doc(t, Chosen(sets, B, S)), outs)

(* The steps of a chain are executed as one compound. *)
LEMMA StepsForward ==
  ASSUME NEW n \in Nat, n # 0, NEW T, NEW ops, Len(ops) = n, NEW outs \in Seq(Step), Len(outs) = n,
         NEW sets, NEW A, NEW S,
         \A k \in 1 .. n : \A R :
           ExecuteStep(Doc(T[k - 1], R), ops[k]) = Done(Doc(T[k], Chosen(sets, A, R)), outs[k])
  PROVE  Execute(Doc(T[0], S), ops) = Done(Doc(T[n], Chosen(sets, A, S)), outs)
<1> DEFINE D == [k \in 0 .. n |-> Doc(T[k], IF k = 0 THEN S ELSE Chosen(sets, A, S))]
<1>1. D[0] = Doc(T[0], S) /\ D[n] = Doc(T[n], Chosen(sets, A, S))
  OBVIOUS
<1>2. ASSUME NEW k \in 1 .. n
      PROVE  /\ D[k - 1].fault = "none"
             /\ ExecuteStep(D[k - 1], ops[k]) = Done(D[k], outs[k])
  <2>1. D[k] = Doc(T[k], Chosen(sets, A, S))
    OBVIOUS
  <2>2. D[k - 1] = Doc(T[k - 1], IF k - 1 = 0 THEN S ELSE Chosen(sets, A, S))
    OBVIOUS
  <2> HIDE DEF D
  <2>3. PICK R : R = IF k - 1 = 0 THEN S ELSE Chosen(sets, A, S)
    OBVIOUS
  <2>4. Chosen(sets, A, R) = Chosen(sets, A, S)
    BY <2>3 DEF Chosen
  <2>5. ExecuteStep(Doc(T[k - 1], R), ops[k]) = Done(Doc(T[k], Chosen(sets, A, R)), outs[k])
    OBVIOUS
  <2> QED BY <2>1, <2>2, <2>3, <2>4, <2>5, DocFields
<1> HIDE DEF D
<1>3. RunOfSteps(n, D, ops, outs)
  BY <1>2 DEF RunOfSteps
<1>4. Execute(D[0], ops) = Done(D[n], outs)
  BY <1>3, StepsInOrder
<1> QED BY <1>1, <1>4

(* The captured steps of a chain are undone as one compound. *)
LEMMA StepsBack ==
  ASSUME NEW n \in Nat, n # 0, NEW T, NEW outs \in Seq(Step), Len(outs) = n,
         NEW sets, NEW B, NEW S,
         \A k \in 1 .. n : \A R :
           UndoStep(Doc(T[k], R), outs[k]) = Done(Doc(T[k - 1], Chosen(sets, B, R)), outs[k])
  PROVE  Undo(Doc(T[n], S), outs) = Done(Doc(T[0], Chosen(sets, B, S)), outs)
<1> DEFINE D == [k \in 0 .. n |-> Doc(T[k], IF k = n THEN S ELSE Chosen(sets, B, S))]
<1>1. D[n] = Doc(T[n], S) /\ D[0] = Doc(T[0], Chosen(sets, B, S))
  OBVIOUS
<1>2. ASSUME NEW k \in 1 .. n
      PROVE  /\ D[k].fault = "none"
             /\ UndoStep(D[k], outs[k]) = Done(D[k - 1], outs[k])
  <2>1. D[k - 1] = Doc(T[k - 1], Chosen(sets, B, S))
    OBVIOUS
  <2>2. D[k] = Doc(T[k], IF k = n THEN S ELSE Chosen(sets, B, S))
    OBVIOUS
  <2> HIDE DEF D
  <2>3. PICK R : R = IF k = n THEN S ELSE Chosen(sets, B, S)
    OBVIOUS
  <2>4. Chosen(sets, B, R) = Chosen(sets, B, S)
    BY <2>3 DEF Chosen
  <2>5. UndoStep(Doc(T[k], R), outs[k]) = Done(Doc(T[k - 1], Chosen(sets, B, R)), outs[k])
    OBVIOUS
  <2> QED BY <2>1, <2>2, <2>3, <2>4, <2>5, DocFields
<1> HIDE DEF D
<1>4. Undo(D[n], outs) = Done(D[0], outs)
  BY <1>2, StepsInReverse
<1> QED BY <1>1, <1>4

(* A compound leads where its steps lead, with its way back and forth. *)
LEMMA CompoundRuns ==
  ASSUME NEW J, NEW n \in Nat, n # 0, NEW ops, Len(ops) = n, NEW sets, NEW A, NEW B,
         Leads(J, n, ops, sets, A, B), NEW t \in J[0]
  PROVE  \E u \in J[n] : \E outs : Compound(t, ops, u, outs, sets, A, B)
<1>1. PICK T, w : T[0] = t /\ Along(J, n, T, ops, w, sets, A, B)
  BY ChainExists
<1> DEFINE outs == [k \in 1 .. n |-> w[k]]
<1>2. \A k \in 1 .. n : outs[k] = w[k]
  OBVIOUS
<1>3. outs = [k \in 1 .. n |-> outs[k]]
  OBVIOUS
<1> HIDE DEF outs
<1>4. ASSUME NEW k \in 1 .. n
      PROVE  /\ outs[k] \in Step
             /\ \A R : /\ ExecuteStep(Doc(T[k - 1], R), ops[k]) = Done(Doc(T[k], Chosen(sets, A, R)), outs[k])
                       /\ ExecuteStep(Doc(T[k - 1], R), outs[k]) = Done(Doc(T[k], Chosen(sets, A, R)), outs[k])
                       /\ UndoStep(Doc(T[k], R), outs[k]) = Done(Doc(T[k - 1], Chosen(sets, B, R)), outs[k])
  <2>1. Link(T[k - 1], ops[k], T[k], outs[k], sets, A, B)
    BY <1>1, <1>2 DEF Along
  <2> QED BY <2>1 DEF Link
<1>5. outs \in Seq(Step) /\ Len(outs) = n
  BY <1>3, <1>4
<1>6. ASSUME NEW S
      PROVE  /\ Execute(Doc(t, S), ops) = Done(Doc(T[n], Chosen(sets, A, S)), outs)
             /\ Execute(Doc(t, S), outs) = Done(Doc(T[n], Chosen(sets, A, S)), outs)
             /\ Undo(Doc(T[n], S), outs) = Done(Doc(t, Chosen(sets, B, S)), outs)
  <2>1. Execute(Doc(T[0], S), ops) = Done(Doc(T[n], Chosen(sets, A, S)), outs)
    BY <1>4, <1>5, StepsForward
  <2>2. Execute(Doc(T[0], S), outs) = Done(Doc(T[n], Chosen(sets, A, S)), outs)
    BY <1>4, <1>5, StepsForward
  <2>3. Undo(Doc(T[n], S), outs) = Done(Doc(T[0], Chosen(sets, B, S)), outs)
    BY <1>4, <1>5, StepsBack
  <2> QED BY <1>1, <2>1, <2>2, <2>3
<1>7. T[n] \in J[n] /\ Fits(T[n])
  <2>1. n \in 0 .. n /\ n \in 1 .. n
    OBVIOUS
  <2> QED BY <1>1, <2>1 DEF Along, Link
<1>8. outs \in Operation
  BY <1>5 DEF Operation
<1>9. Compound(t, ops, T[n], outs, sets, A, B)
  BY <1>6, <1>7, <1>8 DEF Compound
<1> QED BY <1>7, <1>9

-----------------------------------------------------------------------------
(* What commands queue *)

(* What is selected in t, or A instead, u shows. *)
ShownAfter(t, u, sets, A) == \A S \in SUBSET Shown(t) : Chosen(sets, A, S) \in SUBSET Shown(u)

(* Two ways to know that what is selected is shown. *)
LEMMA ShownAfterCases ==
  ASSUME NEW t, NEW u
  PROVE  /\ \A A \in SUBSET Shown(u) : ShownAfter(t, u, TRUE, A)
         /\ \A A : Shown(t) \subseteq Shown(u) => ShownAfter(t, u, FALSE, A)
BY DEF ShownAfter, Chosen

(* An operation leads from t to u and, with what it captured, back and forth,*)
(* with a selection that both scenes show.                                  *)
Edit(t, ops, u, outs) ==
  \E sets, A, B : /\ Compound(t, ops, u, outs, sets, A, B)
                  /\ ShownAfter(t, u, sets, A) /\ ShownAfter(u, t, sets, B)

(* A compound whose selections the scenes show is an edit. *)
LEMMA EditIntro ==
  ASSUME NEW t, NEW ops, NEW u, NEW outs, NEW sets, NEW A, NEW B,
         Compound(t, ops, u, outs, sets, A, B),
         ShownAfter(t, u, sets, A), ShownAfter(u, t, sets, B)
  PROVE  Edit(t, ops, u, outs)
BY Zenon DEF Edit

(* delete_selection(), the Delete and Cut of the popup menu *)
Removals(S, ops) ==
  /\ ops \in Seq(InsertRemoveStep) /\ ops # << >>
  /\ \A k \in 1 .. Len(ops) :
       /\ ops[k].kind = "remove" /\ ops[k].to = NoItem /\ ops[k].item # Root
       /\ ops[k].selectionBefore = S /\ ops[k].selectionAfter = {}

(* Removing items is an edit, whatever items and in whatever order: one     *)
(* that an earlier step has removed, or whose children it has handed over,  *)
(* is removed all the same.                                                 *)
LEMMA RemovalsEdit ==
  ASSUME NEW t, Fits(t), NEW S \in SUBSET Shown(t), NEW ops, Removals(S, ops)
  PROVE  \E u, outs : Edit(t, ops, u, outs)
<1>1. PICK n \in Nat : n = Len(ops) /\ n # 0
  BY LenProperties DEF Removals
<1> DEFINE X == {v \in Tree : Fits(v)}
           J == [k \in 0 .. n |-> X]
<1>2. \A k \in 0 .. n : J[k] = X
  OBVIOUS
<1>3. t \in X
  BY SceneOf
<1> HIDE DEF J
<1>4. ASSUME NEW k \in 1 .. n, NEW v \in J[k - 1]
      PROVE  \E u \in J[k] : \E c : Link(v, ops[k], u, c, TRUE, {}, S)
  <2>1. Fits(v)
    BY <1>2
  <2>2. PICK op : op = ops[k]
    OBVIOUS
  <2>3. /\ op \in InsertRemoveStep /\ op.kind = "remove" /\ op.to = NoItem /\ op.item # Root
        /\ op.selectionBefore = S /\ op.selectionAfter = {}
    BY <1>1, <2>2 DEF Removals
  <2>4. PICK u, c : Link(v, op, u, c, TRUE, op.selectionAfter, op.selectionBefore)
    BY <2>1, <2>3, RemoveLinks
  <2>5. Fits(u)
    BY <2>4 DEF Link
  <2>6. u \in J[k]
    BY <1>2, <2>5, SceneOf
  <2> QED BY <2>2, <2>3, <2>4, <2>6
<1>5. Leads(J, n, ops, TRUE, {}, S)
  BY <1>4 DEF Leads
<1>6. t \in J[0]
  BY <1>2, <1>3
<1>7. PICK u, outs : Compound(t, ops, u, outs, TRUE, {}, S)
  BY <1>1, <1>5, <1>6, CompoundRuns
<1>9. {} \in SUBSET Shown(u) /\ S \in SUBSET Shown(t)
  OBVIOUS
<1>10. ShownAfter(t, u, TRUE, {}) /\ ShownAfter(u, t, TRUE, S)
  BY <1>9, ShownAfterCases
<1>8. Edit(t, ops, u, outs)
  BY <1>7, <1>10, EditIntro
<1> QED BY <1>8

(* No item is moved or inserted twice. *)
Distinct(ops) ==
  \A i, j \in 1 .. Len(ops) : ops[j].item = ops[i].item => j = i

(* duplicate_selection(), new nodes, pasted and copied items *)
Insertions(t, S, ops) ==
  /\ ops \in Seq(InsertRemoveStep) /\ ops # << >>
  /\ \A k \in 1 .. Len(ops) :
       /\ ops[k].kind = "insert" /\ ops[k].from = NoItem /\ ops[k].changes = << >>
       /\ ops[k].to \in InScene(t) /\ ops[k].item \notin InScene(t)
       /\ ops[k].selectionBefore = S /\ ops[k].selectionAfter = S
  /\ Distinct(ops)

(* Inserting items is an edit: each is new when its step comes, and its     *)
(* parent is still there.                                                   *)
LEMMA InsertionsEdit ==
  ASSUME NEW t, Fits(t), NEW S \in SUBSET Shown(t), NEW ops, Insertions(t, S, ops)
  PROVE  \E u, outs : Edit(t, ops, u, outs)
<1>1. PICK n \in Nat : n = Len(ops) /\ n # 0
  BY LenProperties DEF Insertions
<1> DEFINE X(k) == {v \in Tree : /\ Fits(v) /\ InScene(t) \subseteq InScene(v)
                                 /\ \A j \in 1 .. n : j > k => ops[j].item \notin InScene(v)}
           J == [k \in 0 .. n |-> X(k)]
<1>2. \A k \in 0 .. n : J[k] = X(k)
  OBVIOUS
<1> HIDE DEF J
<1>3. t \in J[0]
  BY <1>1, <1>2, SceneOf DEF Insertions
<1>4. ASSUME NEW k \in 1 .. n, NEW v \in J[k - 1]
      PROVE  \E u \in J[k] : \E c : Link(v, ops[k], u, c, TRUE, S, S)
  <2>1. /\ Fits(v) /\ InScene(t) \subseteq InScene(v)
        /\ \A j \in 1 .. n : j > k - 1 => ops[j].item \notin InScene(v)
    BY <1>2
  <2>2. PICK op : op = ops[k]
    OBVIOUS
  <2>3. /\ op \in InsertRemoveStep /\ op.kind = "insert" /\ op.from = NoItem /\ op.changes = << >>
        /\ op.to \in InScene(v) /\ op.item \notin InScene(v)
        /\ op.selectionBefore = S /\ op.selectionAfter = S
    BY <1>1, <2>1, <2>2 DEF Insertions
  <2>4. PICK u : /\ Link(v, op, u, op, TRUE, op.selectionAfter, op.selectionBefore)
                 /\ u.parent = [v.parent EXCEPT ![op.item] = op.to]
    BY <2>1, <2>3, InsertLinks
  <2>5. Fits(u)
    BY <2>4 DEF Link
  <2>6. InScene(u) = InScene(v) \cup {op.item}
    <3>1. op.to \in Item /\ op.item \in Item /\ v.parent \in [Item -> ItemOrNone]
      BY <2>1, <2>3, ConsistentElim DEF InScene, Subtree, InsertRemoveStep, Fits, Sane
    <3>2. InScene(v) = {x \in Item : x = Root \/ v.parent[x] # NoItem}
      BY <2>1, SceneOf
    <3>3. InScene(u) = {x \in Item : x = Root \/ u.parent[x] # NoItem}
      BY <2>5, SceneOf
    <3> QED BY <2>4, <3>1, <3>2, <3>3, NoItemAssumption
  <2>7. ASSUME NEW j \in 1 .. n, j > k PROVE ops[j].item \notin InScene(u)
    <3>1. ops[j].item \notin InScene(v)
      BY <2>1, <2>7
    <3>2. ops[j].item # op.item
      BY <1>1, <2>2, <2>7 DEF Insertions, Distinct
    <3> QED BY <2>6, <3>1, <3>2
  <2>8. u \in J[k]
    BY <1>2, <2>1, <2>5, <2>6, <2>7, SceneOf
  <2> QED BY <2>2, <2>3, <2>4, <2>8
<1>5. Leads(J, n, ops, TRUE, S, S)
  BY <1>4 DEF Leads
<1>6. PICK u \in J[n] : \E outs : Compound(t, ops, u, outs, TRUE, S, S)
  BY <1>1, <1>3, <1>5, CompoundRuns
<1>7. PICK outs : Compound(t, ops, u, outs, TRUE, S, S)
  BY <1>6
<1>8. S \in SUBSET Shown(u)
  BY <1>2, <1>6 DEF Shown
<1>10. ShownAfter(t, u, TRUE, S) /\ ShownAfter(u, t, TRUE, S)
  BY <1>8, ShownAfterCases
<1>9. Edit(t, ops, u, outs)
  BY <1>7, <1>10, EditIntro
<1> QED BY <1>9

(* move_selection(), attach_selection_to(), the Attach button: items go below *)
(* q, none of them an item of the set V that holds q and all above it.      *)
MoveTo(t, op, q, V) ==
  /\ op.item \in Item \ V /\ t.parent[op.item] # NoItem
  /\ \/ /\ op \in ReparentStep /\ op.from = t.parent[op.item] /\ op.to = q
     \/ /\ op \in RepositionStep /\ t.parent[op.item] = q
        /\ Anchor(op) \in Item /\ t.parent[Anchor(op)] = q

(* No step moves q or an item above it, so each finds q where it was; no    *)
(* anchor is moved by another step.                                         *)
MovesTo(t, ops, q, V) ==
  /\ ops \in Seq(Step) /\ ops # << >>
  /\ V \in SUBSET Item /\ UpwardClosed(t, V) /\ q \in V
  /\ q = Root \/ t.parent[q] # NoItem
  /\ \A k \in 1 .. Len(ops) :
       /\ MoveTo(t, ops[k], q, V)
       /\ ops[k] \in RepositionStep =>
            \A j \in 1 .. Len(ops) : ops[j].item # Anchor(ops[k])
  /\ Distinct(ops)

(* Moving items is an edit: none of the moves makes a cycle, each finds the *)
(* parent it expects and its anchor below q.                                *)
LEMMA MovesEdit ==
  ASSUME NEW t, Fits(t), NEW ops, NEW q, NEW V, MovesTo(t, ops, q, V)
  PROVE  \E u, outs : Edit(t, ops, u, outs)
<1>1. PICK n \in Nat : n = Len(ops) /\ n # 0
  BY LenProperties DEF MovesTo
<1>2. /\ V \in SUBSET Item /\ UpwardClosed(t, V) /\ q \in V /\ q \in Item
      /\ q = Root \/ t.parent[q] # NoItem
  BY DEF MovesTo
<1> DEFINE At(k, y) == IF \E j \in 1 .. k : y = ops[j].item THEN q ELSE t.parent[y]
           X(k) == {v \in Tree : Fits(v) /\ \A y \in Item : v.parent[y] = At(k, y)}
           J == [k \in 0 .. n |-> X(k)]
<1>3. \A k \in 0 .. n : J[k] = X(k)
  OBVIOUS
<1>4. t \in J[0]
  BY <1>1, <1>3, SceneOf
<1> HIDE DEF J
<1>5. ASSUME NEW k \in 1 .. n, NEW v \in J[k - 1]
      PROVE  \E u \in J[k] : \E c : Link(v, ops[k], u, c, FALSE, {}, {})
  <2>1. Fits(v) /\ \A y \in Item : v.parent[y] = At(k - 1, y)
    BY <1>3
  <2>2. PICK op : op = ops[k]
    OBVIOUS
  <2>3. MoveTo(t, op, q, V)
    BY <1>1, <2>2 DEF MovesTo
  <2>4. op.item \in Item /\ op.item \notin V /\ t.parent[op.item] # NoItem
    BY <2>3 DEF MoveTo
  <2>5. v.parent[op.item] = t.parent[op.item]
    <3>1. \A j \in 1 .. k - 1 : ops[j].item # op.item
      BY <1>1, <2>2 DEF MovesTo, Distinct
    <3> QED BY <2>1, <2>4, <3>1
  <2>6. \A y \in V : v.parent[y] = t.parent[y]
    <3>1. \A y \in V : \A j \in 1 .. k - 1 : y # ops[j].item
      BY <1>1 DEF MovesTo, MoveTo
    <3> QED BY <1>2, <2>1, <3>1
  <2>7. MayAdopt(v, q, op.item)
    <3>1. UpwardClosed(v, V)
      BY <1>2, <2>6 DEF UpwardClosed
    <3>2. ~IsAncestor(v, op.item, q)
      BY <1>2, <2>4, <3>1 DEF IsAncestor, UpwardClosed
    <3> QED BY <1>2, <2>4, <3>2 DEF MayAdopt
  <2>8. q = Root \/ v.parent[q] # NoItem
    BY <1>2, <2>6
  <2>9. ASSUME NEW u, Fits(u), \A y \in Item : u.parent[y] = IF y = op.item THEN q ELSE v.parent[y]
        PROVE  u \in J[k]
    <3>1. ASSUME NEW y \in Item PROVE u.parent[y] = At(k, y)
      BY <2>1, <2>2, <2>9
    <3> QED BY <1>3, <2>9, <3>1, SceneOf
  <2>10. CASE op \in ReparentStep /\ op.from = t.parent[op.item] /\ op.to = q
    <3>1. MayReparent(v, op)
      BY <1>2, <2>4, <2>5, <2>7, <2>10 DEF MayReparent
    <3>6. Links(v, op, FALSE, {}, {}, [v.parent EXCEPT ![op.item] = op.to])
      BY <2>1, <2>4, <2>5, <2>8, <2>10, <3>1, ReparentLinks
    <3>2. PICK u, c : /\ Link(v, op, u, c, FALSE, {}, {})
                      /\ u.parent = [v.parent EXCEPT ![op.item] = op.to]
      BY <3>6 DEF Links
    <3>3. v.parent \in [Item -> ItemOrNone]
      BY <2>1, ConsistentElim DEF Fits, Sane
    <3>4. Fits(u) /\ \A y \in Item : u.parent[y] = IF y = op.item THEN q ELSE v.parent[y]
      BY <2>4, <2>10, <3>2, <3>3 DEF Link
    <3>5. u \in J[k]
      BY <2>9, <3>4
    <3> QED BY <2>2, <3>2, <3>5
  <2>11. CASE /\ op \in RepositionStep /\ t.parent[op.item] = q
              /\ Anchor(op) \in Item /\ t.parent[Anchor(op)] = q
    <3>1. \A j \in 1 .. n : ops[j].item # Anchor(op)
      BY <1>1, <2>2, <2>11 DEF MovesTo
    <3>2. v.parent[Anchor(op)] = q
      <4>1. PICK y \in Item : y = Anchor(op)
        BY <2>11
      <4> QED BY <2>1, <2>11, <3>1, <4>1
    <3>3. MayReposition(v, op)
      BY <2>2, <2>4, <2>5, <2>11, <3>1, <3>2 DEF MayReposition
    <3>7. Links(v, op, FALSE, {}, {}, v.parent)
      BY <2>1, <3>3, RepositionLinks
    <3>4. PICK u, c : Link(v, op, u, c, FALSE, {}, {}) /\ u.parent = v.parent
      BY <3>7 DEF Links
    <3>5. Fits(u) /\ \A y \in Item : u.parent[y] = IF y = op.item THEN q ELSE v.parent[y]
      BY <2>4, <2>5, <2>11, <3>4 DEF Link
    <3>6. u \in J[k]
      BY <2>9, <3>5
    <3> QED BY <2>2, <3>4, <3>6
  <2> QED BY <2>3, <2>10, <2>11 DEF MoveTo
<1>6. Leads(J, n, ops, FALSE, {}, {})
  BY <1>5 DEF Leads
<1>7. PICK u \in J[n] : \E outs : Compound(t, ops, u, outs, FALSE, {}, {})
  BY <1>1, <1>4, <1>6, CompoundRuns
<1>8. PICK outs : Compound(t, ops, u, outs, FALSE, {}, {})
  BY <1>7
<1>9. Shown(u) = Shown(t)
  <2>1. Fits(u) /\ \A y \in Item : u.parent[y] = At(n, y)
    BY <1>3, <1>7
  <2>2. \A j \in 1 .. n : t.parent[ops[j].item] # NoItem
    BY <1>1 DEF MovesTo, MoveTo
  <2>3. \A y \in Item : u.parent[y] # NoItem <=> t.parent[y] # NoItem
    BY <1>2, <2>1, <2>2, NoItemAssumption
  <2>4. Shown(u) = {y \in Item : u.parent[y] # NoItem}
    BY <2>1, SceneOf
  <2>5. Shown(t) = {y \in Item : t.parent[y] # NoItem}
    BY SceneOf
  <2> QED BY <2>3, <2>4, <2>5
<1>11. ShownAfter(t, u, FALSE, {}) /\ ShownAfter(u, t, FALSE, {})
  BY <1>9, ShownAfterCases
<1>10. Edit(t, ops, u, outs)
  BY <1>8, <1>11, EditIntro
<1> QED BY <1>10

-----------------------------------------------------------------------------
(* What commands build *)

(* A document on which every command may be used. *)
Ready == Fits(doc.tree) /\ doc.selection \in SUBSET Shown(doc.tree)

(* An operation that a command may queue. *)
Built(t, S, ops) ==
  /\ ops \in Operation
  /\ \/ Removals(S, ops)
     \/ Insertions(t, S, ops)
     \/ \E q, V : MovesTo(t, ops, q, V)

(* Whatever a command may queue is an edit of the document it was built     *)
(* from.                                                                    *)
LEMMA BuiltEdit ==
  ASSUME NEW t, Fits(t), NEW S \in SUBSET Shown(t), NEW ops, Built(t, S, ops)
  PROVE  \E u, outs : Edit(t, ops, u, outs)
<1>1. CASE Removals(S, ops)
  BY <1>1, RemovalsEdit
<1>2. CASE Insertions(t, S, ops)
  BY <1>2, InsertionsEdit
<1>3. CASE \E q, V : MovesTo(t, ops, q, V)
  <2>1. PICK q, V : MovesTo(t, ops, q, V)
    BY <1>3
  <2> QED BY <2>1, MovesEdit
<1> QED BY <1>1, <1>2, <1>3 DEF Built

(* What is shown are finitely many items. *)
LEMMA ShownFinite ==
  ASSUME Ready, NEW S \in SUBSET Shown(doc.tree)
  PROVE  IsFiniteSet(S) /\ S \in SUBSET Item
<1>1. S \in SUBSET Item
  BY DEF Shown, InScene, Subtree
<1> QED BY <1>1, ItemsAssumption, FS_Subset

(* The removal of an item, as a command builds it. *)
LEMMA RemovalFields ==
  ASSUME Ready, NEW x \in Item
  PROVE  /\ Removal(doc, x) \in InsertRemoveStep
         /\ Removal(doc, x).kind = "remove" /\ Removal(doc, x).to = NoItem
         /\ Removal(doc, x).item = x /\ Removal(doc, x).selectionBefore = doc.selection
         /\ Removal(doc, x).selectionAfter = {}
<1>1. doc.selection \in SUBSET Item
  BY ShownFinite DEF Ready
<1>2. << >> \in Seq(ReparentStep)
  OBVIOUS
<1> QED BY <1>1, <1>2 DEF Removal, InsertRemoveStep, ItemOrNone

(* A compound of removals, as delete_selection() builds it. *)
LEMMA RemovalsBuilt ==
  ASSUME Ready, NEW order \in Seq(Item \ {Root}), NEW ops,
         ops = [i \in DOMAIN order |-> Removal(doc, order[i])], ops # << >>
  PROVE  Built(doc.tree, doc.selection, ops)
<1>1. DOMAIN order = 1 .. Len(order) /\ Len(order) \in Nat
  OBVIOUS
<1>2. \A i \in 1 .. Len(order) : order[i] \in Item /\ order[i] # Root
  OBVIOUS
<1>3. \A i \in 1 .. Len(order) : Removal(doc, order[i]) \in InsertRemoveStep
  BY <1>2, RemovalFields
<1>4. ops \in Seq(InsertRemoveStep) /\ Len(ops) = Len(order)
      /\ \A i \in 1 .. Len(ops) : ops[i] = Removal(doc, order[i])
  BY <1>1, <1>3
<1>5. Removals(doc.selection, ops)
  BY <1>2, <1>4, RemovalFields DEF Removals
<1>6. ops \in Operation
  BY <1>4 DEF Operation, Step
<1> QED BY <1>5, <1>6 DEF Built

(* delete_selection() never lists the root, which nothing selected is       *)
(* above.                                                                   *)
LEMMA DeleteBuilds ==
  ASSUME Ready, NEW order \in DeleteOrders, NEW ops,
         ops = [i \in DOMAIN order |-> Removal(doc, order[i])], ops # << >>
  PROVE  Built(doc.tree, doc.selection, ops)
<1> DEFINE t == doc.tree
           Visits(y) == {x \in doc.selection : y \in Subtree(t, x)}
           W == {y \in Item : Visits(y) # {}}
           Runs(s) == [i \in DOMAIN s |-> [k \in 1 .. Cardinality(Visits(s[i])) |-> s[i]]]
<1>1. PICK s \in SetToSeqs(W) : order = FlattenSeq(Runs(s))
  BY Zenon DEF DeleteOrders
<1>2. W \in SUBSET (Item \ {Root})
  <2>1. Root \notin Shown(t) /\ t.parent[Root] = NoItem
    BY DEF Shown, Ready, Fits, Rooted
  <2> SUFFICES ASSUME NEW y \in W PROVE y # Root
    OBVIOUS
  <2>2. PICK x \in doc.selection : y \in Subtree(t, x)
    OBVIOUS
  <2>3. x \in Shown(t)
    BY DEF Ready
  <2> QED BY <2>1, <2>2, <2>3 DEF Subtree, IsAncestor
<1>3. s \in Seq(W)
  <2>1. IsFiniteSet(W)
    BY <1>2, ItemsAssumption, FS_Subset
  <2> QED BY <2>1, SetToSeqsFacts
<1>4. s \in Seq(Item \ {Root})
  BY <1>2, <1>3
<1>5. \A y : Cardinality(Visits(y)) \in Nat
  <2> TAKE y
  <2>1. IsFiniteSet(doc.selection) /\ Visits(y) \in SUBSET doc.selection
    BY ShownFinite DEF Ready
  <2> QED BY <2>1, FS_Subset, FS_CardinalityType
<1>6. Runs(s) \in Seq(Seq(Item \ {Root}))
  <2>1. \A i \in DOMAIN s : s[i] \in Item \ {Root}
    BY <1>4
  <2> HIDE DEF Visits
  <2>2. \A i \in DOMAIN s : [k \in 1 .. Cardinality(Visits(s[i])) |-> s[i]] \in Seq(Item \ {Root})
    BY <1>5, <2>1
  <2>3. DOMAIN s = 1 .. Len(s) /\ Len(s) \in Nat
    BY <1>4
  <2> QED BY <2>2, <2>3
<1>7. order \in Seq(Item \ {Root})
  BY <1>1, <1>6, FlattenSeqType
<1> QED BY <1>7, RemovalsBuilt

(* Delete and Cut of the popup menu. *)
LEMMA RemoveOneBuilds ==
  ASSUME Ready, NEW x \in Shown(doc.tree)
  PROVE  Built(doc.tree, doc.selection, << Removal(doc, x) >>)
<1> DEFINE order == << x >>
           ops == [i \in DOMAIN order |-> Removal(doc, order[i])]
<1>1. x \in Item \ {Root}
  BY ShownFinite DEF Shown
<1>2. order \in Seq(Item \ {Root})
  BY <1>1
<1>3. ops = << Removal(doc, x) >> /\ ops # << >>
  OBVIOUS
<1>4. PICK o : o = ops
  OBVIOUS
<1> HIDE DEF order
<1>5. Built(doc.tree, doc.selection, o)
  BY <1>2, <1>3, <1>4, RemovalsBuilt
<1> QED BY <1>3, <1>4, <1>5

(* The items of the steps, in their order. *)
ItemsAre(ops, order) ==
  Len(ops) = Len(order) /\ \A i \in 1 .. Len(order) : ops[i].item = order[i]

(* Steps over a list of distinct items. *)
LEMMA DistinctItems ==
  ASSUME NEW ops, NEW order, ItemsAre(ops, order), Injective(order)
  PROVE  Distinct(ops)
BY DEF ItemsAre, Injective, Distinct

(* The insertion of an item, as a command builds it. *)
LEMMA InsertionFields ==
  ASSUME Ready, NEW x \in Item, NEW p \in Item, NEW position \in Nat, NEW op,
         op = Insertion(doc, x, p, position)
  PROVE  /\ op \in InsertRemoveStep /\ op.kind = "insert" /\ op.from = NoItem
         /\ op.to = p /\ op.item = x /\ op.changes = << >>
         /\ op.selectionBefore = doc.selection /\ op.selectionAfter = doc.selection
<1>1. doc.selection \in SUBSET Item
  BY ShownFinite DEF Ready
<1>2. << >> \in Seq(ReparentStep)
  OBVIOUS
<1> QED BY <1>1, <1>2 DEF Insertion, InsertRemoveStep, ItemOrNone

(* A new item is outside of the scene. *)
LEMMA NewOutside ==
  ASSUME NEW x, New(x)
  PROVE  x \in Item /\ x \notin InScene(doc.tree)
BY DEF New, Orphans

(* A new node, a pasted copy or the copy of one item. *)
LEMMA InsertBuilds ==
  ASSUME Ready, NEW x, New(x), NEW p \in InScene(doc.tree), NEW position \in Nat
  PROVE  Built(doc.tree, doc.selection, << Insertion(doc, x, p, position) >>)
<1>1. PICK op : op = Insertion(doc, x, p, position)
  OBVIOUS
<1>2. x \in Item /\ x \notin InScene(doc.tree) /\ p \in Item
  BY NewOutside DEF InScene, Subtree
<1>3. /\ op \in InsertRemoveStep /\ op.kind = "insert" /\ op.from = NoItem
      /\ op.to = p /\ op.item = x /\ op.changes = << >>
      /\ op.selectionBefore = doc.selection /\ op.selectionAfter = doc.selection
  BY <1>1, <1>2, InsertionFields
<1>4. Len(<< op >>) = 1 /\ << op >>[1] = op /\ \A k \in 1 .. 1 : k = 1
  OBVIOUS
<1>5. Insertions(doc.tree, doc.selection, << op >>)
  <2>1. << op >> \in Seq(InsertRemoveStep) /\ << op >> # << >>
    BY <1>3
  <2>2. Distinct(<< op >>)
    BY <1>4 DEF Distinct
  <2> QED BY <1>2, <1>3, <1>4, <2>1, <2>2 DEF Insertions
<1>6. << op >> \in Operation
  BY <1>3 DEF Operation, Step
<1> QED BY <1>1, <1>5, <1>6 DEF Built

(* The vector of a selection lists shown items, none twice. *)
LEMMA SelectionOrder ==
  ASSUME Ready, NEW X \in SUBSET Shown(doc.tree), NEW order \in SetToSeqs(X)
  PROVE  /\ order \in Seq(Item) /\ Injective(order) /\ Len(order) \in Nat
         /\ DOMAIN order = 1 .. Len(order)
         /\ \A i \in 1 .. Len(order) : order[i] \in X /\ order[i] \in Shown(doc.tree)
                                       /\ doc.tree.parent[order[i]] # NoItem
<1>1. IsFiniteSet(X) /\ X \in SUBSET Item
  BY ShownFinite
<1>2. order \in Seq(X) /\ Injective(order)
  BY <1>1, SetToSeqsFacts
<1>3. Shown(doc.tree) = {x \in Item : doc.tree.parent[x] # NoItem}
  BY SceneOf DEF Ready
<1>4. \A i \in 1 .. Len(order) : order[i] \in X
  BY <1>2
<1> QED BY <1>1, <1>2, <1>3, <1>4

(* duplicate_selection(): distinct new items go to places below shown ones. *)
LEMMA DuplicateBuilds ==
  ASSUME Ready, NEW order \in SelectionOrders,
         NEW copy \in [1 .. Len(order) -> {x \in Item : New(x)}], IsInjective(copy),
         NEW ops,
         ops = [i \in DOMAIN order |->
                  Insertion(doc, copy[i], doc.tree.parent[order[i]],
                            IndexInParent(doc.tree, order[i]) + 1)],
         ops # << >>
  PROVE  Built(doc.tree, doc.selection, ops)
<1>1. /\ order \in Seq(Item) /\ Injective(order) /\ Len(order) \in Nat
      /\ DOMAIN order = 1 .. Len(order)
      /\ \A i \in 1 .. Len(order) : order[i] \in Shown(doc.tree)
                                    /\ doc.tree.parent[order[i]] # NoItem
  BY SelectionOrder DEF SelectionOrders, Ready
<1>2. /\ doc.tree.parent \in [Item -> ItemOrNone] /\ Consistent(doc.tree)
      /\ Rooted(doc.tree)
  BY ConsistentElim DEF Ready, Fits, Sane
<1>3. ASSUME NEW i \in 1 .. Len(order)
      PROVE  /\ ops[i] \in InsertRemoveStep /\ ops[i].kind = "insert" /\ ops[i].from = NoItem
             /\ ops[i].changes = << >> /\ ops[i].item = copy[i]
             /\ ops[i].to \in InScene(doc.tree) /\ copy[i] \notin InScene(doc.tree)
             /\ ops[i].selectionBefore = doc.selection /\ ops[i].selectionAfter = doc.selection
  <2>1. PICK x \in Item : x = order[i]
    BY <1>1
  <2>2. PICK q \in Item : q = doc.tree.parent[x]
    BY <1>1, <1>2, <2>1 DEF ItemOrNone
  <2>3. q \in InScene(doc.tree)
    <3>1. InScene(doc.tree) = {y \in Item : y = Root \/ doc.tree.parent[y] # NoItem}
      BY SceneOf DEF Ready
    <3>2. q = Root \/ doc.tree.parent[q] # NoItem
      BY <1>1, <1>2, <2>1, <2>2 DEF Rooted
    <3> QED BY <3>1, <3>2
  <2>4. IndexInParent(doc.tree, x) \in Nat
    BY <1>2, IndexFacts
  <2>5. PICK j \in Nat : j = IndexInParent(doc.tree, x) + 1
    BY <2>4
  <2>6. New(copy[i]) /\ copy[i] \in Item /\ copy[i] \notin InScene(doc.tree)
    BY NewOutside
  <2>7. PICK op : op = ops[i]
    OBVIOUS
  <2>8. op = Insertion(doc, copy[i], q, j)
    BY <1>1, <2>1, <2>2, <2>5, <2>7
  <2>9. /\ op \in InsertRemoveStep /\ op.kind = "insert" /\ op.from = NoItem
        /\ op.to = q /\ op.item = copy[i] /\ op.changes = << >>
        /\ op.selectionBefore = doc.selection /\ op.selectionAfter = doc.selection
    BY <2>6, <2>8, InsertionFields
  <2> QED BY <2>3, <2>6, <2>7, <2>9
<1>4. ops \in Seq(InsertRemoveStep) /\ Len(ops) = Len(order)
  <2>1. ops = [i \in 1 .. Len(order) |-> ops[i]]
    BY <1>1
  <2> QED BY <1>1, <1>3, <2>1
<1>5. Distinct(ops)
  <2>1. DOMAIN copy = 1 .. Len(order) /\ Len(copy) = Len(order)
    BY <1>1
  <2>2. Injective(copy)
    BY <2>1 DEF Injective, IsInjective
  <2>3. ItemsAre(ops, copy)
    BY <1>3, <1>4, <2>1 DEF ItemsAre
  <2> QED BY <2>2, <2>3, DistinctItems
<1>6. Insertions(doc.tree, doc.selection, ops)
  BY <1>3, <1>4, <1>5 DEF Insertions, Distinct
<1>7. ops \in Operation
  BY <1>4 DEF Operation, Step
<1> QED BY <1>6, <1>7 DEF Built

(* All above x: x and what is in V, closed under taking parents. *)
Above(t, x) == {y \in Item : IsAncestor(t, y, x)}

(* What is above x is closed under taking parents. *)
LEMMA AboveClosed ==
  ASSUME NEW t, Fits(t), NEW x \in Item
  PROVE  /\ Above(t, x) \in SUBSET Item /\ UpwardClosed(t, Above(t, x))
         /\ UpwardClosed(t, Above(t, x) \cup {x})
         /\ t.parent[x] # NoItem => t.parent[x] \in Above(t, x)
<1>1. t.parent \in [Item -> ItemOrNone]
  BY ConsistentElim DEF Fits, Sane
<1>2. ASSUME NEW y \in Item, IsAncestor(t, y, x), t.parent[y] # NoItem
      PROVE  IsAncestor(t, t.parent[y], x)
  <2> SUFFICES ASSUME NEW V \in SUBSET Item, UpwardClosed(t, V), t.parent[x] \in V
               PROVE  t.parent[y] \in V
    BY <1>2 DEF IsAncestor
  <2>1. y \in V
    BY <1>2 DEF IsAncestor
  <2> QED BY <1>2, <2>1 DEF UpwardClosed
<1>3. t.parent[x] # NoItem => t.parent[x] \in Above(t, x)
  <2> SUFFICES ASSUME t.parent[x] # NoItem PROVE IsAncestor(t, t.parent[x], x)
    BY <1>1 DEF Above, ItemOrNone
  <2> QED BY DEF IsAncestor
<1>4. UpwardClosed(t, Above(t, x))
  BY <1>1, <1>2 DEF UpwardClosed, Above, ItemOrNone
<1>5. UpwardClosed(t, Above(t, x) \cup {x})
  BY <1>3, <1>4 DEF UpwardClosed
<1> QED BY <1>3, <1>4, <1>5 DEF Above

(* reposition(): an item that may move goes next to the anchor. *)
LEMMA PlacedMoves ==
  ASSUME Ready, NEW anchor \in Shown(doc.tree), NEW before \in BOOLEAN,
         NEW x \in Shown(doc.tree), MayMove(x, anchor), NEW op, op = Placed(x, anchor, before)
  PROVE  /\ op \in Step /\ op.item = x
         /\ MoveTo(doc.tree, op, doc.tree.parent[anchor], Above(doc.tree, anchor))
         /\ op \in RepositionStep => Anchor(op) = anchor
<1> DEFINE t == doc.tree
           q == t.parent[anchor]
           b == IF before THEN anchor ELSE NoItem
           a == IF before THEN NoItem ELSE anchor
<1>1. /\ t.parent \in [Item -> ItemOrNone]
      /\ x \in Item /\ anchor \in Item
      /\ t.parent[x] # NoItem /\ t.parent[anchor] # NoItem
  BY ConsistentElim, SceneOf DEF Ready, Fits, Sane
<1>2. b \in ItemOrNone /\ a \in ItemOrNone /\ q \in Item
  BY <1>1 DEF ItemOrNone
<1>3. x \in Item \ Above(t, anchor)
  BY <1>1 DEF Above, MayMove
<1>4. CASE q # t.parent[x]
  <2>1. op = Reparent(t, x, q, b, a)
    BY <1>4 DEF Placed
  <2>2. /\ op \in ReparentStep /\ op.kind = "reparent" /\ op.item = x
        /\ op.from = t.parent[x] /\ op.to = q
    BY <1>1, <1>2, <2>1 DEF Reparent, ReparentStep, ItemOrNone
  <2>3. op \notin RepositionStep
    BY <2>2 DEF RepositionStep
  <2> QED BY <1>1, <1>3, <2>2, <2>3 DEF MoveTo, Step
<1>5. CASE q = t.parent[x]
  <2>1. op = Reposition(x, b, a)
    BY <1>5 DEF Placed
  <2>2. op \in RepositionStep /\ op.item = x /\ op.before = b /\ op.after = a
    BY <1>1, <1>2, <2>1 DEF Reposition, RepositionStep
  <2>3. Anchor(op) = anchor
    BY <1>1, <2>2, NoItemAssumption DEF Anchor
  <2> QED BY <1>1, <1>3, <1>5, <2>2, <2>3 DEF MoveTo, Step
<1> QED BY <1>4, <1>5

(* move_selection(): no item that moves is the anchor or above it. *)
LEMMA MoveBuilds ==
  ASSUME Ready, NEW drag \in Shown(doc.tree), NEW anchor \in Shown(doc.tree),
         NEW before \in BOOLEAN, NEW order \in SetToSeqs(Dragged(drag, anchor)),
         NEW ops, ops = [i \in DOMAIN order |-> Placed(order[i], anchor, before)], ops # << >>
  PROVE  Built(doc.tree, doc.selection, ops)
<1> DEFINE t == doc.tree
           q == t.parent[anchor]
           V == Above(t, anchor)
<1>1. Dragged(drag, anchor) \in SUBSET Shown(t)
  BY DEF Dragged, Ready
<1>2. /\ Injective(order) /\ Len(order) \in Nat /\ DOMAIN order = 1 .. Len(order)
      /\ \A i \in 1 .. Len(order) : order[i] \in Dragged(drag, anchor) /\ order[i] \in Shown(t)
  BY <1>1, SelectionOrder
<1>3. ASSUME NEW i \in 1 .. Len(order)
      PROVE  /\ ops[i] \in Step /\ ops[i].item = order[i] /\ MoveTo(t, ops[i], q, V)
             /\ ops[i] \in RepositionStep => Anchor(ops[i]) = anchor
             /\ order[i] # anchor
  <2>1. PICK x : x = order[i]
    OBVIOUS
  <2>2. MayMove(x, anchor) /\ x \in Shown(t)
    BY <1>2, <2>1 DEF Dragged
  <2>3. PICK op : op = ops[i]
    OBVIOUS
  <2>4. op = Placed(x, anchor, before)
    BY <1>2, <2>1, <2>3
  <2>5. /\ op \in Step /\ op.item = x
        /\ MoveTo(doc.tree, op, doc.tree.parent[anchor], Above(doc.tree, anchor))
        /\ op \in RepositionStep => Anchor(op) = anchor
    BY <2>2, <2>4, PlacedMoves
  <2>6. x # anchor
    BY <2>2 DEF MayMove
  <2> QED BY <2>1, <2>3, <2>5, <2>6
<1>4. ops \in Seq(Step) /\ Len(ops) = Len(order)
  <2>1. ops = [i \in 1 .. Len(order) |-> ops[i]]
    BY <1>2
  <2> QED BY <1>2, <1>3, <2>1
<1>5. anchor \in Item /\ t.parent[anchor] # NoItem /\ Fits(t)
  BY SceneOf DEF Ready
<1>6. /\ V \in SUBSET Item /\ UpwardClosed(t, V) /\ q \in V
  BY <1>5, AboveClosed
<1>7. q = Root \/ t.parent[q] # NoItem
  BY <1>5 DEF Fits, Rooted
<1> HIDE DEF q, V
<1>8. ItemsAre(ops, order)
  BY <1>3, <1>4 DEF ItemsAre
<1>9. Distinct(ops)
  BY <1>2, <1>8, DistinctItems
<1>12. ASSUME NEW k \in 1 .. Len(ops)
       PROVE  /\ MoveTo(t, ops[k], q, V)
              /\ ops[k] \in RepositionStep => \A j \in 1 .. Len(ops) : ops[j].item # Anchor(ops[k])
  <2>1. PICK m : m = Len(order)
    OBVIOUS
  <2>2. Len(ops) = m /\ \A j \in 1 .. m : ops[j].item = order[j] /\ order[j] # anchor
    BY <1>3, <1>4, <2>1
  <2>3. MoveTo(t, ops[k], q, V) /\ (ops[k] \in RepositionStep => Anchor(ops[k]) = anchor)
    BY <1>3, <1>4
  <2> QED BY <2>2, <2>3, Zenon
<1>10. MovesTo(t, ops, q, V)
  BY <1>4, <1>6, <1>7, <1>9, <1>12 DEF MovesTo
<1>11. ops \in Operation
  BY <1>4 DEF Operation
<1> QED BY <1>10, <1>11 DEF Built

(* Items that are not at or above target go below it. *)
LEMMA AttachBuilds ==
  ASSUME Ready, NEW target \in Shown(doc.tree), NEW X \in SUBSET Shown(doc.tree),
         \A x \in X : MayMove(x, target), NEW order \in SetToSeqs(X),
         NEW ops, ops = [i \in DOMAIN order |-> Reparent(doc.tree, order[i], target, NoItem, NoItem)],
         ops # << >>
  PROVE  Built(doc.tree, doc.selection, ops)
<1> DEFINE t == doc.tree
           V == Above(t, target) \cup {target}
<1>1. target \in Item /\ t.parent[target] # NoItem /\ Fits(t)
      /\ t.parent \in [Item -> ItemOrNone]
  BY SceneOf, ConsistentElim DEF Ready, Fits, Sane
<1>2. /\ order \in Seq(Item) /\ Injective(order) /\ Len(order) \in Nat
      /\ DOMAIN order = 1 .. Len(order)
      /\ \A i \in 1 .. Len(order) : order[i] \in X /\ t.parent[order[i]] # NoItem
  BY SelectionOrder
<1>3. V \in SUBSET Item /\ UpwardClosed(t, V) /\ target \in V
  BY <1>1, AboveClosed
<1>4. ASSUME NEW i \in 1 .. Len(order)
      PROVE  /\ ops[i] \in ReparentStep /\ ops[i].kind = "reparent" /\ ops[i].item = order[i]
             /\ MoveTo(t, ops[i], target, V)
  <2>1. PICK x \in Item : x = order[i]
    BY <1>2
  <2>2. x \in Item \ V
    BY <1>2, <2>1 DEF MayMove, Above
  <2>3. PICK op : op = ops[i]
    OBVIOUS
  <2>4. op = Reparent(t, x, target, NoItem, NoItem)
    BY <1>2, <2>1, <2>3
  <2>5. /\ op \in ReparentStep /\ op.kind = "reparent" /\ op.item = x
        /\ op.from = t.parent[x] /\ op.to = target
    BY <1>1, <2>4 DEF Reparent, ReparentStep, ItemOrNone
  <2> HIDE DEF V
  <2>6. MoveTo(t, op, target, V)
    BY <1>2, <2>1, <2>2, <2>5 DEF MoveTo
  <2> QED BY <2>1, <2>3, <2>5, <2>6
<1> HIDE DEF V
<1>5. ops \in Seq(Step) /\ Len(ops) = Len(order)
  <2>1. ops = [i \in 1 .. Len(order) |-> ops[i]]
    BY <1>2
  <2>2. \A i \in 1 .. Len(order) : ops[i] \in Step
    BY <1>4 DEF Step
  <2> QED BY <1>2, <2>1, <2>2
<1>7. \A i \in 1 .. Len(order) : ops[i] \notin RepositionStep
  BY <1>4 DEF RepositionStep
<1>6. ItemsAre(ops, order)
  BY <1>4, <1>5 DEF ItemsAre
<1>8. Distinct(ops)
  BY <1>2, <1>6, DistinctItems
<1>11. \A k \in 1 .. Len(ops) : MoveTo(t, ops[k], target, V) /\ ops[k] \notin RepositionStep
  BY <1>4, <1>5, <1>7
<1>9. MovesTo(t, ops, target, V)
  BY <1>1, <1>3, <1>5, <1>8, <1>11 DEF MovesTo
<1>10. ops \in Operation
  BY <1>5 DEF Operation
<1> QED BY <1>9, <1>10 DEF Built

(* The Attach button, when its target is not below the item. *)
LEMMA AttachButtonBuilds ==
  ASSUME Ready, NEW x \in Shown(doc.tree), NEW p \in Shown(doc.tree), MayAdopt(doc.tree, p, x)
  PROVE  Built(doc.tree, doc.selection, << Reparent(doc.tree, x, p, NoItem, NoItem) >>)
<1> DEFINE order == << x >>
           ops == [i \in DOMAIN order |-> Reparent(doc.tree, order[i], p, NoItem, NoItem)]
<1>1. x \in Item /\ p \in Item /\ p # NoItem
  BY ShownFinite, NoItemAssumption DEF Shown
<1>2. {x} \in SUBSET Shown(doc.tree) /\ \A y \in {x} : MayMove(y, p)
  BY <1>1 DEF MayMove, MayAdopt
<1>3. order \in SetToSeqs({x})
  <2>1. Cardinality({x}) = 1
    BY FS_Singleton
  <2>2. order \in [1 .. 1 -> {x}] /\ \A i, j \in 1 .. 1 : i = j
    OBVIOUS
  <2> QED BY <2>1, <2>2 DEF SetToSeqs
<1>4. ops = << Reparent(doc.tree, x, p, NoItem, NoItem) >> /\ ops # << >>
  OBVIOUS
<1>5. PICK o : o = ops
  OBVIOUS
<1> HIDE DEF order
<1>6. PICK X : X = {x}
  OBVIOUS
<1>7. Built(doc.tree, doc.selection, o)
  BY <1>2, <1>3, <1>4, <1>5, <1>6, AttachBuilds
<1> QED BY <1>4, <1>5, <1>7

-----------------------------------------------------------------------------
(* Operations that may be undone and redone *)

(* The operation ops leads from t to u when executed and from u to t when    *)
(* undone, keeps what it captured, and nothing outside the scene is selected.*)
Exact(t, ops, u) ==
  /\ Fits(t) /\ Fits(u) /\ ops \in Operation
  /\ \A S \in SUBSET Shown(t) : \E R \in SUBSET Shown(u) :
       Execute(Doc(t, S), ops) = Done(Doc(u, R), ops)
  /\ \A R \in SUBSET Shown(u) : \E S \in SUBSET Shown(t) :
       Undo(Doc(u, R), ops) = Done(Doc(t, S), ops)

(* An edit, with what it captured, may be undone and redone. *)
LEMMA EditExact ==
  ASSUME NEW t, Fits(t), NEW ops, NEW u, NEW outs, Edit(t, ops, u, outs)
  PROVE  /\ Exact(t, outs, u)
         /\ \A S \in SUBSET Shown(t) : \E R \in SUBSET Shown(u) :
              Execute(Doc(t, S), ops) = Done(Doc(u, R), outs)
<1>1. PICK sets, A, B : /\ Compound(t, ops, u, outs, sets, A, B)
                        /\ ShownAfter(t, u, sets, A) /\ ShownAfter(u, t, sets, B)
  BY Zenon DEF Edit
<1>2. ASSUME NEW S \in SUBSET Shown(t)
      PROVE  /\ \E R \in SUBSET Shown(u) : Execute(Doc(t, S), ops) = Done(Doc(u, R), outs)
             /\ \E R \in SUBSET Shown(u) : Execute(Doc(t, S), outs) = Done(Doc(u, R), outs)
  <2>1. Chosen(sets, A, S) \in SUBSET Shown(u)
    BY <1>1 DEF ShownAfter
  <2>2. /\ Execute(Doc(t, S), ops) = Done(Doc(u, Chosen(sets, A, S)), outs)
        /\ Execute(Doc(t, S), outs) = Done(Doc(u, Chosen(sets, A, S)), outs)
    BY <1>1 DEF Compound
  <2> QED BY <2>1, <2>2
<1>3. ASSUME NEW R \in SUBSET Shown(u)
      PROVE  \E S \in SUBSET Shown(t) : Undo(Doc(u, R), outs) = Done(Doc(t, S), outs)
  <2>1. Chosen(sets, B, R) \in SUBSET Shown(t)
    BY <1>1 DEF ShownAfter
  <2>2. Undo(Doc(u, R), outs) = Done(Doc(t, Chosen(sets, B, R)), outs)
    BY <1>1 DEF Compound
  <2> QED BY <2>1, <2>2
<1>4. Fits(u) /\ outs \in Operation
  BY <1>1 DEF Compound
<1> QED BY <1>2, <1>3, <1>4 DEF Exact

(* What update() makes of an empty queue, and of one operation. *)
LEMMA QueueRuns ==
  ASSUME NEW d, d.fault = "none"
  PROVE  /\ queued = << >> => RunQueue(d) = Done(d, << >>)
         /\ \A ops : queued = << ops >> =>
              RunQueue(d) = Done(Execute(d, ops).doc, << Execute(d, ops).op >>)
<1> DEFINE RunIn(acc, op) ==
             LET r == IF acc.doc.fault = "none" THEN Execute(acc.doc, op) ELSE Done(acc.doc, op)
             IN  Done(r.doc, Append(acc.op, r.op))
           Body(g, k) == IF k = 0 THEN Done(d, << >>) ELSE RunIn(g[k - 1], queued[k])
           after(n) == CHOOSE g : g = [k \in 0 .. n |-> Body(g, k)]
<1>1. RunQueue(d) = after(Len(queued))[Len(queued)]
  BY DEF RunQueue, InOrder
<1>2. \A n, g : (g = [k \in 0 .. n |-> Body(g, k)]) =>
        after(n) = [k \in 0 .. n |-> Body(after(n), k)]
  <2> HIDE DEF Body
  <2> QED BY Zenon
<1>3. ASSUME queued = << >> PROVE RunQueue(d) = Done(d, << >>)
  <2> DEFINE V == [k \in 0 .. 0 |-> Done(d, << >>)]
  <2>1. V = [k \in 0 .. 0 |-> Body(V, k)]
    <3> SUFFICES ASSUME NEW k \in 0 .. 0 PROVE V[k] = Body(V, k)
      BY Zenon
    <3>1. k = 0
      OBVIOUS
    <3> QED BY <3>1
  <2> HIDE DEF V, after
  <2>2. after(0) = [k \in 0 .. 0 |-> Body(after(0), k)]
    <3> HIDE DEF Body
    <3> QED BY <1>2, <2>1, Zenon
  <2>3. after(0)[0] = Body(after(0), 0)
    <3>1. 0 \in 0 .. 0
      OBVIOUS
    <3> HIDE DEF Body
    <3> QED BY <2>2, <3>1, Zenon
  <2>4. after(0)[0] = Done(d, << >>)
    BY <2>3
  <2>5. Len(queued) = 0
    BY <1>3
  <2> QED BY <1>1, <2>4, <2>5
<1>4. ASSUME NEW ops, queued = << ops >>
      PROVE  RunQueue(d) = Done(Execute(d, ops).doc, << Execute(d, ops).op >>)
  <2> DEFINE V == [k \in 0 .. 1 |-> IF k = 0 THEN Done(d, << >>) ELSE RunIn(Done(d, << >>), ops)]
  <2>0. Len(queued) = 1 /\ queued[1] = ops
    BY <1>4
  <2>1. V = [k \in 0 .. 1 |-> Body(V, k)]
    <3> SUFFICES ASSUME NEW k \in 0 .. 1 PROVE V[k] = Body(V, k)
      BY Zenon
    <3> HIDE DEF RunIn
    <3>1. CASE k = 0
      BY <3>1
    <3>2. CASE k = 1
      <4>1. V[k - 1] = Done(d, << >>) /\ V[k] = RunIn(Done(d, << >>), ops)
        BY <3>2
      <4> HIDE DEF V
      <4> QED BY <2>0, <3>2, <4>1
    <3> QED BY <3>1, <3>2
  <2> HIDE DEF V, after
  <2>2. after(1) = [k \in 0 .. 1 |-> Body(after(1), k)]
    <3> HIDE DEF Body
    <3> QED BY <1>2, <2>1, Zenon
  <2>3. ASSUME NEW k \in 0 .. 1 PROVE after(1)[k] = Body(after(1), k)
    <3> HIDE DEF Body
    <3> QED BY <2>2, Zenon
  <2>4. after(1)[0] = Done(d, << >>) /\ after(1)[1] = RunIn(after(1)[0], ops)
    <3> HIDE DEF RunIn
    <3>1. after(1)[0] = Body(after(1), 0) /\ after(1)[1] = Body(after(1), 1)
      <4>1. 0 \in 0 .. 1 /\ 1 \in 0 .. 1
        OBVIOUS
      <4> HIDE DEF Body
      <4> QED BY <2>3, <4>1
    <3> QED BY <2>0, <3>1
  <2>5. RunIn(Done(d, << >>), ops) = Done(Execute(d, ops).doc, Append(<< >>, Execute(d, ops).op))
    <3>1. Done(d, << >>).doc = d /\ Done(d, << >>).op = << >>
      BY DEF Done
    <3> QED BY <3>1
  <2>6. Append(<< >>, Execute(d, ops).op) = << Execute(d, ops).op >>
    OBVIOUS
  <2> HIDE DEF RunIn
  <2> QED BY <1>1, <2>0, <2>4, <2>5, <2>6
<1> QED BY <1>3, <1>4

-----------------------------------------------------------------------------
(* The two lists of operations *)

(* ops[i] leads from each tree of the trail to the next one, or back. *)
Between(t, op, u, back) == IF back THEN Exact(u, op, t) ELSE Exact(t, op, u)

(* The operations ops join the trees of a trail, one after another. *)
Joined(trail, ops, back) ==
  \A i \in 1 .. Len(ops) : Between(trail[i], ops[i], trail[i + 1], back)

(* One more tree and the operation that leads to it. *)
LEMMA JoinedGrows ==
  ASSUME NEW X, NEW s \in Seq(X), NEW Y, NEW ops \in Seq(Y), Len(s) = Len(ops),
         NEW t, NEW u, NEW op, NEW back, Joined(Append(s, t), ops, back), Between(t, op, u, back)
  PROVE  Joined(Append(Append(s, t), u), Append(ops, op), back)
<1> DEFINE r == Append(Append(s, t), u)
           o == Append(ops, op)
           n == Len(ops)
<1>1. n \in Nat /\ Len(o) = n + 1 /\ o[n + 1] = op /\ \A i \in 1 .. n : o[i] = ops[i]
  OBVIOUS
<1>2. /\ Append(s, t)[n + 1] = t /\ \A i \in 1 .. n : Append(s, t)[i] = s[i]
      /\ r[n + 1] = t /\ r[n + 2] = u /\ \A i \in 1 .. n : r[i] = s[i]
  OBVIOUS
<1> DEFINE q == Append(s, t)
<1>3. q[n + 1] = t /\ (\A i \in 1 .. n : q[i] = s[i]) /\ Joined(q, ops, back)
  BY <1>2
<1> HIDE DEF r, o, q, n
<1> SUFFICES ASSUME NEW i \in 1 .. Len(o) PROVE Between(r[i], o[i], r[i + 1], back)
  BY DEF Joined, r, o
<1>4. CASE i = n + 1
  <2>1. i + 1 = n + 2
    BY <1>1, <1>4
  <2> QED BY <1>1, <1>2, <1>4, <2>1
<1>5. CASE i \in 1 .. n
  <2>1. Between(q[i], ops[i], q[i + 1], back)
    BY <1>3, <1>5 DEF Joined, n
  <2>2. i + 1 = n + 1 \/ i + 1 \in 1 .. n
    BY <1>1, <1>5
  <2>3. q[i + 1] = r[i + 1] /\ q[i] = r[i]
    BY <1>2, <1>3, <1>5, <2>2
  <2> QED BY <1>1, <1>5, <2>1, <2>3
<1> QED BY <1>1, <1>4, <1>5

(* The last operation leads from the last but one tree; the rest is joined  *)
(* without it.                                                              *)
LEMMA JoinedShrinks ==
  ASSUME NEW X, NEW s \in Seq(X), NEW Y, NEW ops \in Seq(Y), Len(s) = Len(ops), s # << >>,
         NEW t, NEW back, Joined(Append(s, t), ops, back)
  PROVE  /\ Between(Last(s), Last(ops), t, back)
         /\ Append(Front(s), Last(s)) = s
         /\ Front(s) \in Seq(X) /\ Front(ops) \in Seq(Y) /\ Len(Front(s)) = Len(Front(ops))
         /\ Len(Front(s)) = Len(s) - 1
         /\ Joined(s, Front(ops), back)
         /\ Last(s) \in X /\ Last(ops) \in Y /\ ops # << >>
<1> DEFINE n == Len(s)
           q == Append(s, t)
<1>1. n \in Nat /\ n # 0 /\ ops # << >>
  OBVIOUS
<1>2. q[n + 1] = t /\ (\A i \in 1 .. n : q[i] = s[i]) /\ Joined(q, ops, back)
  OBVIOUS
<1>3. Last(s) = s[n] /\ Last(ops) = ops[n]
  BY DEF Last
<1>4. /\ Front(s) \in Seq(X) /\ Len(Front(s)) = n - 1 /\ \A i \in 1 .. n - 1 : Front(s)[i] = s[i]
  BY <1>1 DEF Front
<1>5. /\ Front(ops) \in Seq(Y) /\ Len(Front(ops)) = n - 1
      /\ \A i \in 1 .. n - 1 : Front(ops)[i] = ops[i]
  BY <1>1 DEF Front
<1>6. Append(Front(s), Last(s)) = s
  BY <1>1 DEF Front, Last
<1>7. s[n] \in X /\ ops[n] \in Y
  BY <1>1
<1> HIDE DEF q, n
<1>8. Len(ops) = n
  BY DEF n
<1>9. Between(s[n], ops[n], t, back)
  <2>1. n \in 1 .. Len(ops)
    BY <1>1, <1>8
  <2>2. Between(q[n], ops[n], q[n + 1], back)
    BY <1>2, <2>1 DEF Joined
  <2>3. q[n] = s[n]
    BY <1>2, <1>8, <2>1
  <2> QED BY <1>2, <2>2, <2>3
<1>10. Joined(s, Front(ops), back)
  <2> SUFFICES ASSUME NEW i \in 1 .. n - 1 PROVE Between(s[i], Front(ops)[i], s[i + 1], back)
    BY <1>5 DEF Joined
  <2>1. i \in 1 .. n /\ i + 1 \in 1 .. n
    BY <1>1
  <2>2. Between(q[i], ops[i], q[i + 1], back)
    BY <1>2, <1>8, <2>1 DEF Joined
  <2> QED BY <1>2, <1>5, <2>1, <2>2
<1> QED BY <1>1, <1>3, <1>4, <1>5, <1>6, <1>7, <1>9, <1>10 DEF n

(* The two lists of operations and the trees of the history match. *)
ListsMatch ==
  /\ executed \in Seq(Operation) /\ past \in Seq(Tree) /\ Len(past) = Len(executed)
  /\ undone \in Seq(Operation) /\ future \in Seq(Tree) /\ Len(future) = Len(undone)

(* What was executed leads from tree to tree up to the present one. *)
PastIsExact == Joined(Append(past, doc.tree), executed, FALSE)

(* What was undone leads on from the present tree. *)
FutureIsExact == Joined(Append(future, doc.tree), undone, TRUE)

(* What is queued was built from the present document. *)
QueueIsFresh ==
  \/ queued = << >>
  \/ \E ops : /\ queued = << ops >> /\ commands = 1
              /\ Built(doc.tree, doc.selection, ops)

(* The inductive invariant: the document fits, both lists lead through the  *)
(* trees that were there, and what is queued was built from the document it *)
(* will run on.                                                             *)
HistoryInv ==
  /\ Ready /\ doc = Doc(doc.tree, doc.selection)
  /\ commands \in 0 .. CommandsPerFrame
  /\ ListsMatch /\ PastIsExact /\ FutureIsExact /\ QueueIsFresh

(* It holds in the scenes that may be loaded. *)
LEMMA HistoryStarts ==
  ASSUME HistoryInit
  PROVE  HistoryInv
<1>1. PICK t \in InitialTrees : doc = [tree |-> t, selection |-> {}, fault |-> "none"]
  BY DEF HistoryInit, Init
<1>2. /\ t \in Tree /\ t.parent[Root] = NoItem
      /\ LinksAgreeIn(t) /\ NoDuplicateChildrenIn(t) /\ AcyclicIn(t) /\ DepthIsDistanceIn(t)
      /\ \A x \in Item \ Subtree(t, Root) : t.parent[x] = NoItem /\ t.children[x] = << >>
  BY <1>1, InitialTreesAssumption
<1>3. Sane(t)
  BY <1>2 DEF Sane, Consistent
<1>4. Rooted(t)
  <2> SUFFICES ASSUME NEW x \in Item, t.parent[x] # NoItem
               PROVE  t.parent[x] = Root \/ t.parent[t.parent[x]] # NoItem
    BY <1>2 DEF Rooted
  <2>1. PICK p \in Item : p = t.parent[x]
    BY <1>3, ConsistentElim DEF Sane, ItemOrNone
  <2>2. p \in Subtree(t, Root)
    <3> SUFFICES ASSUME p \notin Subtree(t, Root) PROVE FALSE
      OBVIOUS
    <3>1. t.children[p] = << >>
      BY <1>2
    <3>2. x \in ToSet(t.children[p])
      BY <1>2, <2>1 DEF LinksAgreeIn
    <3> QED BY <3>1, <3>2 DEF ToSet
  <2> QED BY <2>1, <2>2 DEF Subtree, IsAncestor
<1>5. doc.tree = t /\ doc.selection = {} /\ doc = Doc(doc.tree, doc.selection)
  BY <1>1 DEF Doc
<1>6. Ready
  BY <1>3, <1>4, <1>5 DEF Ready, Fits
<1>7. /\ queued = << >> /\ executed = << >> /\ undone = << >> /\ commands = 0
      /\ past = << >> /\ future = << >>
  BY DEF HistoryInit, Init
<1>8. ListsMatch
  BY <1>7 DEF ListsMatch
<1>9. PastIsExact /\ FutureIsExact
  BY <1>7 DEF PastIsExact, FutureIsExact, Joined
<1>10. QueueIsFresh /\ commands \in 0 .. CommandsPerFrame
  BY <1>7, BoundsAssumption DEF QueueIsFresh
<1> QED BY <1>5, <1>6, <1>8, <1>9, <1>10 DEF HistoryInv

(* The parts of the invariant. *)
LEMMA HistoryFields ==
  ASSUME HistoryInv
  PROVE  /\ Fits(doc.tree) /\ doc.tree \in Tree
         /\ doc.selection \in SUBSET Shown(doc.tree)
         /\ doc = Doc(doc.tree, doc.selection) /\ doc.fault = "none"
         /\ commands \in 0 .. CommandsPerFrame
         /\ executed \in Seq(Operation) /\ past \in Seq(Tree) /\ Len(past) = Len(executed)
         /\ undone \in Seq(Operation) /\ future \in Seq(Tree) /\ Len(future) = Len(undone)
         /\ Joined(Append(past, doc.tree), executed, FALSE)
         /\ Joined(Append(future, doc.tree), undone, TRUE)
         /\ QueueIsFresh
<1>1. Fits(doc.tree) /\ doc.tree \in Tree
  BY SceneOf DEF HistoryInv, Ready
<1>2. doc = Doc(doc.tree, doc.selection)
  BY DEF HistoryInv
<1>3. doc.fault = "none"
  BY <1>2, DocFields
<1> QED BY <1>1, <1>2, <1>3 DEF HistoryInv, Ready, ListsMatch, PastIsExact, FutureIsExact

(* The next document, with the selection that it shows. *)
LEMMA ReadyNext ==
  ASSUME NEW t, Fits(t), NEW S \in SUBSET Shown(t), doc' = Doc(t, S)
  PROVE  Ready' /\ (doc = Doc(doc.tree, doc.selection))' /\ doc'.tree = t /\ doc'.selection = S
<1>1. doc'.tree = t /\ doc'.selection = S
  BY DocFields
<1>2. Fits(doc'.tree) /\ doc'.selection \in SUBSET Shown(doc'.tree)
  BY <1>1
<1> QED BY <1>1, <1>2 DEF Ready

(* The history variables stay when the lists do. *)
LEMMA RememberSame ==
  ASSUME HistoryInv, Remember, executed' = executed, undone' = undone
  PROVE  past' = past /\ future' = future
<1>1. /\ future \in Seq(Tree) /\ Len(future) = Len(undone)
      /\ Len(executed) \in Nat /\ Len(undone) \in Nat
  BY HistoryFields, LenProperties
<1>2. SubSeq(future, 1, Len(future)) = future
  BY <1>1
<1>3. ~(Len(executed') > Len(executed)) /\ ~(Len(executed') < Len(executed))
  BY <1>1
<1>4. ~(Len(undone') > Len(undone)) /\ SubSeq(future, 1, Len(undone')) = future
  BY <1>1, <1>2
<1> QED BY <1>3, <1>4, Zenon DEF Remember

(* Nothing is queued when a command comes: it is the first of the frame. *)
LEMMA FirstCommand ==
  ASSUME HistoryInv, Command, CommandsPerFrame <= 1
  PROVE  queued = << >> /\ commands' = 1 /\ 1 \in 0 .. CommandsPerFrame
<1>1. commands = 0 /\ CommandsPerFrame = 1
  BY HistoryFields, BoundsAssumption DEF Command
<1>2. queued = << >>
  BY <1>1, HistoryFields DEF QueueIsFresh
<1> QED BY <1>1, <1>2 DEF Command

(* A command that queues what it built keeps the invariant. *)
LEMMA QueueKeeps ==
  ASSUME HistoryInv, CommandsPerFrame <= 1, Command, Remember,
         NEW ops, Built(doc.tree, doc.selection, ops), Queue(ops)
  PROVE  HistoryInv' /\ doc' = doc /\ past' = past /\ future' = future
<1>1. doc' = doc /\ executed' = executed /\ undone' = undone /\ queued' = << ops >>
      /\ commands' = 1 /\ 1 \in 0 .. CommandsPerFrame
  BY FirstCommand DEF Queue
<1>2. past' = past /\ future' = future
  BY <1>1, RememberSame
<1>3. QueueIsFresh'
  BY <1>1 DEF QueueIsFresh
<1>4. (Ready /\ doc = Doc(doc.tree, doc.selection) /\ ListsMatch /\ PastIsExact /\ FutureIsExact)'
  BY <1>1, <1>2 DEF HistoryInv, Ready, ListsMatch, PastIsExact, FutureIsExact
<1>5. (commands \in 0 .. CommandsPerFrame)'
  BY <1>1
<1> QED BY <1>1, <1>2, <1>3, <1>4, <1>5 DEF HistoryInv

(* A new selection keeps the invariant. *)
LEMMA SelectKeeps ==
  ASSUME HistoryInv, CommandsPerFrame <= 1, Remember,
         NEW S \in SUBSET Shown(doc.tree), SelectItems(S)
  PROVE  HistoryInv' /\ doc'.tree = doc.tree /\ past' = past /\ future' = future
<1>1. Command /\ executed' = executed /\ undone' = undone /\ queued' = queued
  BY DEF SelectItems
<1>2. queued' = << >> /\ commands' = 1 /\ 1 \in 0 .. CommandsPerFrame
  BY <1>1, FirstCommand
<1>3. past' = past /\ future' = future
  BY <1>1, RememberSame
<1>4. doc' = Doc(doc.tree, S)
  <2>1. doc' = [doc EXCEPT !.selection = S]
    BY DEF SelectItems
  <2>2. doc = Doc(doc.tree, doc.selection)
    BY HistoryFields
  <2> QED BY <2>1, <2>2, DocFields
<1>5. Ready' /\ (doc = Doc(doc.tree, doc.selection))' /\ doc'.tree = doc.tree
  BY <1>4, HistoryFields, ReadyNext
<1>6. (ListsMatch /\ PastIsExact /\ FutureIsExact)'
  BY <1>1, <1>3, <1>5 DEF HistoryInv, ListsMatch, PastIsExact, FutureIsExact
<1>7. QueueIsFresh' /\ (commands \in 0 .. CommandsPerFrame)'
  BY <1>2 DEF QueueIsFresh
<1> QED BY <1>3, <1>5, <1>6, <1>7 DEF HistoryInv

(* undo(): the past shrinks, the future grows. *)
LEMMA UndoKeeps ==
  ASSUME HistoryInv, CommandsPerFrame <= 1, Remember, UndoCommand
  PROVE  /\ HistoryInv'
         /\ past # << >> /\ doc'.tree = Last(past) /\ past' = Front(past)
         /\ future' = Append(future, doc.tree)
<1>1. /\ Command /\ executed # << >> /\ queued' = queued /\ executed' = Front(executed)
      /\ doc' = Undo(doc, Last(executed)).doc
      /\ undone' = Append(undone, Undo(doc, Last(executed)).op)
  BY DEF UndoCommand
<1>2. queued' = << >> /\ commands' = 1 /\ 1 \in 0 .. CommandsPerFrame
  BY <1>1, FirstCommand
<1>3. /\ Fits(doc.tree) /\ doc.tree \in Tree /\ doc.selection \in SUBSET Shown(doc.tree)
      /\ doc = Doc(doc.tree, doc.selection)
      /\ executed \in Seq(Operation) /\ past \in Seq(Tree) /\ Len(past) = Len(executed)
      /\ undone \in Seq(Operation) /\ future \in Seq(Tree) /\ Len(future) = Len(undone)
      /\ Joined(Append(past, doc.tree), executed, FALSE)
      /\ Joined(Append(future, doc.tree), undone, TRUE)
  BY HistoryFields
<1>4. past # << >>
  BY <1>1, <1>3
<1>5. /\ Between(Last(past), Last(executed), doc.tree, FALSE)
      /\ Append(Front(past), Last(past)) = past
      /\ Front(past) \in Seq(Tree) /\ Front(executed) \in Seq(Operation)
      /\ Len(Front(past)) = Len(Front(executed)) /\ Len(Front(past)) = Len(past) - 1
      /\ Joined(past, Front(executed), FALSE)
      /\ Last(past) \in Tree /\ Last(executed) \in Operation
  BY <1>3, <1>4, JoinedShrinks
<1>6. PICK t, op : t = Last(past) /\ op = Last(executed)
  OBVIOUS
<1>7. Exact(t, op, doc.tree)
  BY <1>5, <1>6 DEF Between
<1>8. PICK S \in SUBSET Shown(t) : Undo(Doc(doc.tree, doc.selection), op) = Done(Doc(t, S), op)
  BY <1>3, <1>7 DEF Exact
<1>9. doc' = Doc(t, S) /\ undone' = Append(undone, op)
  BY <1>1, <1>3, <1>6, <1>8 DEF Done
<1>10. Fits(t)
  BY <1>7 DEF Exact
<1>11. Ready' /\ (doc = Doc(doc.tree, doc.selection))' /\ doc'.tree = t
  BY <1>9, <1>10, ReadyNext
<1>12. past' = Front(past) /\ future' = Append(future, doc.tree)
  <2>1. /\ Len(past) \in Nat /\ Len(undone) \in Nat /\ Len(undone') = Len(undone) + 1
        /\ Len(executed') = Len(executed) - 1
    BY <1>1, <1>3, <1>5, <1>9
  <2> QED BY <1>3, <2>1 DEF Remember
<1>13. ListsMatch'
  <2>1. /\ undone' \in Seq(Operation) /\ future' \in Seq(Tree) /\ Len(future') = Len(undone')
    BY <1>3, <1>5, <1>6, <1>9, <1>12
  <2> QED BY <1>1, <1>5, <1>12, <2>1 DEF ListsMatch
<1>14. PastIsExact'
  BY <1>1, <1>5, <1>6, <1>11, <1>12 DEF PastIsExact
<1>15. FutureIsExact'
  <2>1. Between(doc.tree, op, t, TRUE)
    BY <1>7 DEF Between
  <2>2. Joined(Append(Append(future, doc.tree), t), Append(undone, op), TRUE)
    BY <1>3, <2>1, JoinedGrows
  <2> QED BY <1>9, <1>11, <1>12, <2>2 DEF FutureIsExact
<1>16. QueueIsFresh' /\ (commands \in 0 .. CommandsPerFrame)'
  BY <1>2 DEF QueueIsFresh
<1>17. HistoryInv'
  BY <1>11, <1>13, <1>14, <1>15, <1>16 DEF HistoryInv
<1> QED BY <1>4, <1>6, <1>11, <1>12, <1>17

(* redo(): the past grows, the future shrinks. *)
LEMMA RedoKeeps ==
  ASSUME HistoryInv, CommandsPerFrame <= 1, Remember, RedoCommand
  PROVE  /\ HistoryInv'
         /\ future # << >> /\ doc'.tree = Last(future) /\ future' = Front(future)
         /\ past' = Append(past, doc.tree)
<1>1. /\ Command /\ undone # << >> /\ queued' = queued /\ undone' = Front(undone)
      /\ doc' = Execute(doc, Last(undone)).doc
      /\ executed' = Append(executed, Execute(doc, Last(undone)).op)
  BY DEF RedoCommand
<1>2. queued' = << >> /\ commands' = 1 /\ 1 \in 0 .. CommandsPerFrame
  BY <1>1, FirstCommand
<1>3. /\ Fits(doc.tree) /\ doc.tree \in Tree /\ doc.selection \in SUBSET Shown(doc.tree)
      /\ doc = Doc(doc.tree, doc.selection)
      /\ executed \in Seq(Operation) /\ past \in Seq(Tree) /\ Len(past) = Len(executed)
      /\ undone \in Seq(Operation) /\ future \in Seq(Tree) /\ Len(future) = Len(undone)
      /\ Joined(Append(past, doc.tree), executed, FALSE)
      /\ Joined(Append(future, doc.tree), undone, TRUE)
  BY HistoryFields
<1>4. future # << >>
  BY <1>1, <1>3
<1>5. /\ Between(Last(future), Last(undone), doc.tree, TRUE)
      /\ Append(Front(future), Last(future)) = future
      /\ Front(future) \in Seq(Tree) /\ Front(undone) \in Seq(Operation)
      /\ Len(Front(future)) = Len(Front(undone)) /\ Len(Front(future)) = Len(future) - 1
      /\ Joined(future, Front(undone), TRUE)
      /\ Last(future) \in Tree /\ Last(undone) \in Operation
  BY <1>3, <1>4, JoinedShrinks
<1>6. PICK t, op : t = Last(future) /\ op = Last(undone)
  OBVIOUS
<1>7. Exact(doc.tree, op, t)
  BY <1>5, <1>6 DEF Between
<1>8. PICK S \in SUBSET Shown(t) : Execute(Doc(doc.tree, doc.selection), op) = Done(Doc(t, S), op)
  BY <1>3, <1>7 DEF Exact
<1>9. doc' = Doc(t, S) /\ executed' = Append(executed, op)
  BY <1>1, <1>3, <1>6, <1>8 DEF Done
<1>10. Fits(t)
  BY <1>7 DEF Exact
<1>11. Ready' /\ (doc = Doc(doc.tree, doc.selection))' /\ doc'.tree = t
  BY <1>9, <1>10, ReadyNext
<1>12. future' = Front(future) /\ past' = Append(past, doc.tree)
  <2>1. /\ Len(future) \in Nat /\ Len(executed) \in Nat /\ Len(executed') = Len(executed) + 1
        /\ Len(undone') = Len(undone) - 1 /\ Len(undone') = Len(future) - 1
    BY <1>1, <1>3, <1>5, <1>9
  <2>2. SubSeq(future, 1, Len(future) - 1) = Front(future)
    BY DEF Front
  <2> QED BY <1>3, <2>1, <2>2 DEF Remember
<1>13. ListsMatch'
  <2>1. /\ executed' \in Seq(Operation) /\ past' \in Seq(Tree) /\ Len(past') = Len(executed')
    BY <1>3, <1>5, <1>6, <1>9, <1>12
  <2> QED BY <1>1, <1>5, <1>12, <2>1 DEF ListsMatch
<1>14. FutureIsExact'
  BY <1>1, <1>5, <1>6, <1>11, <1>12 DEF FutureIsExact
<1>15. PastIsExact'
  <2>1. Between(doc.tree, op, t, FALSE)
    BY <1>7 DEF Between
  <2>2. Joined(Append(Append(past, doc.tree), t), Append(executed, op), FALSE)
    BY <1>3, <2>1, JoinedGrows
  <2> QED BY <1>9, <1>11, <1>12, <2>2 DEF PastIsExact
<1>16. QueueIsFresh' /\ (commands \in 0 .. CommandsPerFrame)'
  BY <1>2 DEF QueueIsFresh
<1>17. HistoryInv'
  BY <1>11, <1>13, <1>14, <1>15, <1>16 DEF HistoryInv
<1> QED BY <1>4, <1>6, <1>11, <1>12, <1>17

(* update(): nothing, or an edit. *)
LEMMA UpdateKeeps ==
  ASSUME HistoryInv, CommandsPerFrame <= 1, Remember, Update
  PROVE  /\ HistoryInv'
         /\ \/ doc'.tree = doc.tree /\ past' = past /\ future' = future
            \/ past' = Append(past, doc.tree) /\ future' = << >>
<1>1. /\ commands' = 0 /\ queued' = << >>
      /\ doc' = RunQueue(doc).doc /\ executed' = executed \o RunQueue(doc).op
      /\ undone' = IF queued = << >> THEN undone ELSE << >>
  BY DEF Update
<1>2. QueueIsFresh' /\ (commands \in 0 .. CommandsPerFrame)'
  BY <1>1, BoundsAssumption DEF QueueIsFresh
<1>3. /\ Fits(doc.tree) /\ doc.tree \in Tree /\ doc.selection \in SUBSET Shown(doc.tree)
      /\ doc = Doc(doc.tree, doc.selection) /\ doc.fault = "none"
      /\ executed \in Seq(Operation) /\ past \in Seq(Tree) /\ Len(past) = Len(executed)
      /\ undone \in Seq(Operation) /\ future \in Seq(Tree) /\ Len(future) = Len(undone)
      /\ Joined(Append(past, doc.tree), executed, FALSE)
      /\ Joined(Append(future, doc.tree), undone, TRUE)
      /\ QueueIsFresh
  BY HistoryFields
<1>4. CASE queued = << >>
  <2>1. RunQueue(doc) = Done(doc, << >>)
    BY <1>3, <1>4, QueueRuns
  <2>2. doc' = doc /\ executed' = executed /\ undone' = undone
    BY <1>1, <1>3, <1>4, <2>1 DEF Done
  <2>3. past' = past /\ future' = future
    BY <2>2, RememberSame
  <2>4. (Ready /\ doc = Doc(doc.tree, doc.selection) /\ ListsMatch /\ PastIsExact /\ FutureIsExact)'
    BY <2>2, <2>3 DEF HistoryInv, Ready, ListsMatch, PastIsExact, FutureIsExact
  <2> QED BY <1>2, <2>2, <2>3, <2>4 DEF HistoryInv
<1>5. CASE queued # << >>
  <2>1. PICK ops : queued = << ops >> /\ Built(doc.tree, doc.selection, ops)
    BY <1>3, <1>5 DEF QueueIsFresh
  <2>2. PICK t, S : t = doc.tree /\ S = doc.selection
    OBVIOUS
  <2>3. Fits(t) /\ S \in SUBSET Shown(t) /\ Built(t, S, ops) /\ doc = Doc(t, S)
    BY <1>3, <2>1, <2>2
  <2>4. PICK u, outs : Edit(t, ops, u, outs)
    BY <2>3, BuiltEdit
  <2>5. /\ Exact(t, outs, u)
        /\ \A R \in SUBSET Shown(t) : \E Q \in SUBSET Shown(u) :
             Execute(Doc(t, R), ops) = Done(Doc(u, Q), outs)
    BY <2>3, <2>4, EditExact
  <2>6. PICK R \in SUBSET Shown(u) : Execute(Doc(t, S), ops) = Done(Doc(u, R), outs)
    BY <2>3, <2>5
  <2>7. RunQueue(doc) = Done(Execute(doc, ops).doc, << Execute(doc, ops).op >>)
    BY <1>3, <2>1, QueueRuns
  <2>8. RunQueue(doc).doc = Doc(u, R) /\ RunQueue(doc).op = << outs >>
    BY <2>3, <2>6, <2>7 DEF Done
  <2>9. doc' = Doc(u, R) /\ executed' = executed \o << outs >> /\ undone' = << >>
    BY <1>1, <1>5, <2>8
  <2>10. Fits(u) /\ outs \in Operation
    BY <2>5 DEF Exact
  <2>11. executed' = Append(executed, outs)
    BY <1>3, <2>9, <2>10
  <2>12. Ready' /\ (doc = Doc(doc.tree, doc.selection))' /\ doc'.tree = u
    BY <2>9, <2>10, ReadyNext
  <2>13. past' = Append(past, doc.tree) /\ future' = << >>
    <3>1. /\ Len(executed) \in Nat /\ Len(executed') = Len(executed) + 1
          /\ Len(undone) \in Nat /\ Len(undone') = 0
      BY <1>3, <2>9, <2>11
    <3>2. SubSeq(future, 1, 0) = << >>
      BY <1>3
    <3> QED BY <3>1, <3>2 DEF Remember
  <2>14. ListsMatch'
    <3>1. /\ executed' \in Seq(Operation) /\ past' \in Seq(Tree) /\ Len(past') = Len(executed')
      BY <1>3, <2>10, <2>11, <2>13
    <3> QED BY <2>9, <2>13, <3>1 DEF ListsMatch
  <2>15. PastIsExact'
    <3>1. Between(doc.tree, outs, u, FALSE)
      BY <2>2, <2>5 DEF Between
    <3>2. Joined(Append(Append(past, doc.tree), u), Append(executed, outs), FALSE)
      BY <1>3, <3>1, JoinedGrows
    <3> QED BY <2>11, <2>12, <2>13, <3>2 DEF PastIsExact
  <2>16. FutureIsExact'
    BY <2>9, <2>13 DEF FutureIsExact, Joined
  <2> QED BY <1>2, <2>12, <2>13, <2>14, <2>15, <2>16 DEF HistoryInv
<1> QED BY <1>4, <1>5

-----------------------------------------------------------------------------
(* The steps of the editor *)

(* What a step does to the history that UndoHistory promises. *)
PromiseKept ==
  \/ doc'.tree = doc.tree /\ past' = past /\ future' = future
  \/ past' = Append(past, doc.tree) /\ future' = << >>
  \/ past # << >> /\ doc'.tree = Last(past) /\ past' = Front(past)
     /\ future' = Append(future, doc.tree)
  \/ future # << >> /\ doc'.tree = Last(future) /\ past' = Append(past, doc.tree)
     /\ future' = Front(future)

(* A command that queues an operation keeps the invariant and the promise. *)
LEMMA QueueStep ==
  ASSUME HistoryInv, CommandsPerFrame <= 1, Command, Remember,
         NEW ops, Queue(ops), ops # << >> => Built(doc.tree, doc.selection, ops)
  PROVE  HistoryInv' /\ PromiseKept
<1>1. Built(doc.tree, doc.selection, ops)
  BY DEF Queue
<1>2. HistoryInv' /\ doc' = doc /\ past' = past /\ future' = future
  BY <1>1, QueueKeeps
<1> QED BY <1>2 DEF PromiseKept

(* So do the drops in the tree window, *)
LEMMA TreeWindowKeeps ==
  ASSUME HistoryInv, CommandsPerFrame <= 1, Remember, TreeWindow
  PROVE  HistoryInv' /\ PromiseKept
<1>1. Ready
  BY DEF HistoryInv
<1>2. ASSUME NEW x \in Shown(doc.tree), NEW y \in Shown(doc.tree), NEW before \in BOOLEAN,
             MoveSelection(x, y, before)
      PROVE  HistoryInv' /\ PromiseKept
  <2>1. PICK order \in SetToSeqs(Dragged(x, y)) :
          Queue([i \in DOMAIN order |-> Placed(order[i], y, before)])
    BY <1>2 DEF MoveSelection
  <2>2. PICK ops : ops = [i \in DOMAIN order |-> Placed(order[i], y, before)]
    OBVIOUS
  <2>3. ops # << >> => Built(doc.tree, doc.selection, ops)
    BY <1>1, <2>2, MoveBuilds
  <2>4. Command /\ Queue(ops)
    BY <1>2, <2>1, <2>2 DEF MoveSelection
  <2> QED BY <2>3, <2>4, QueueStep
<1>3. ASSUME NEW x \in Shown(doc.tree), NEW y \in Shown(doc.tree), AttachSelectionTo(x, y)
      PROVE  HistoryInv' /\ PromiseKept
  <2>1. PICK order \in SetToSeqs(Dragged(x, y)) :
          Queue([i \in DOMAIN order |-> Reparent(doc.tree, order[i], y, NoItem, NoItem)])
    BY <1>3 DEF AttachSelectionTo
  <2>2. PICK ops : ops = [i \in DOMAIN order |-> Reparent(doc.tree, order[i], y, NoItem, NoItem)]
    OBVIOUS
  <2>3. PICK X : X = Dragged(x, y)
    OBVIOUS
  <2>4. X \in SUBSET Shown(doc.tree) /\ (\A z \in X : MayMove(z, y)) /\ order \in SetToSeqs(X)
    BY <1>1, <2>3 DEF Dragged, Ready
  <2>5. ops # << >> => Built(doc.tree, doc.selection, ops)
    BY <1>1, <2>2, <2>4, AttachBuilds
  <2>6. Command /\ Queue(ops)
    BY <1>3, <2>1, <2>2 DEF AttachSelectionTo
  <2> QED BY <2>5, <2>6, QueueStep
<1> QED BY <1>2, <1>3 DEF TreeWindow

(* the commands of the menus, *)
LEMMA MenusKeep ==
  ASSUME HistoryInv, CommandsPerFrame <= 1, Remember, Menus
  PROVE  HistoryInv' /\ PromiseKept
<1>1. Ready
  BY DEF HistoryInv
<1>2. CASE DeleteSelection
  <2>1. PICK order \in DeleteOrders : Queue([i \in DOMAIN order |-> Removal(doc, order[i])])
    BY <1>2 DEF DeleteSelection
  <2>2. PICK ops : ops = [i \in DOMAIN order |-> Removal(doc, order[i])]
    OBVIOUS
  <2>3. ops # << >> => Built(doc.tree, doc.selection, ops)
    BY <1>1, <2>2, DeleteBuilds
  <2>4. Command /\ Queue(ops)
    BY <1>2, <2>1, <2>2 DEF DeleteSelection
  <2> QED BY <2>3, <2>4, QueueStep
<1>3. ASSUME NEW x \in Shown(doc.tree), RemoveOne(x)
      PROVE  HistoryInv' /\ PromiseKept
  <2>1. Command /\ Queue(<< Removal(doc, x) >>)
    BY <1>3 DEF RemoveOne
  <2>2. Built(doc.tree, doc.selection, << Removal(doc, x) >>)
    BY <1>1, RemoveOneBuilds
  <2> QED BY <2>1, <2>2, QueueStep
<1>4. ASSUME NEW x \in Item, NEW p \in InScene(doc.tree),
             NEW position \in 0 .. Len(doc.tree.children[p]), InsertItem(x, p, position)
      PROVE  HistoryInv' /\ PromiseKept
  <2>1. Command /\ New(x) /\ Queue(<< Insertion(doc, x, p, position) >>)
    BY <1>4 DEF InsertItem
  <2>2. position \in Nat
    OBVIOUS
  <2>3. Built(doc.tree, doc.selection, << Insertion(doc, x, p, position) >>)
    BY <1>1, <2>1, <2>2, InsertBuilds
  <2> QED BY <2>1, <2>3, QueueStep
<1> QED BY <1>2, <1>3, <1>4 DEF Menus

(* duplicate_selection() *)
LEMMA DuplicateKeeps ==
  ASSUME HistoryInv, CommandsPerFrame <= 1, Remember, DuplicateSelection
  PROVE  HistoryInv' /\ PromiseKept
<1> DEFINE Copies(order, copy) ==
             [i \in DOMAIN order |-> Insertion(doc, copy[i], doc.tree.parent[order[i]],
                                               IndexInParent(doc.tree, order[i]) + 1)]
<1>1. PICK order \in SelectionOrders : \E copy \in [1 .. Len(order) -> {x \in Item : New(x)}] :
             IsInjective(copy) /\ Queue(Copies(order, copy))
  BY DEF DuplicateSelection
<1>2. PICK copy \in [1 .. Len(order) -> {x \in Item : New(x)}] :
             IsInjective(copy) /\ Queue(Copies(order, copy))
  BY <1>1
<1>3. PICK ops : ops = Copies(order, copy)
  OBVIOUS
<1>4. Ready
  BY DEF HistoryInv
<1>5. ops # << >> => Built(doc.tree, doc.selection, ops)
  BY <1>2, <1>3, <1>4, DuplicateBuilds
<1>6. Command /\ Queue(ops)
  BY <1>2, <1>3 DEF DuplicateSelection
<1> QED BY <1>5, <1>6, QueueStep

(* and the Attach button. *)
LEMMA AttachKeeps ==
  ASSUME HistoryInv, CommandsPerFrame <= 1, Remember,
         NEW x \in Shown(doc.tree), NEW p \in Shown(doc.tree),
         MayAdopt(doc.tree, p, x), AttachButton(x, p)
  PROVE  HistoryInv' /\ PromiseKept
<1>1. Command /\ Queue(<< Reparent(doc.tree, x, p, NoItem, NoItem) >>)
  BY DEF AttachButton
<1>2. Ready
  BY DEF HistoryInv
<1>3. Built(doc.tree, doc.selection, << Reparent(doc.tree, x, p, NoItem, NoItem) >>)
  BY <1>2, AttachButtonBuilds
<1> QED BY <1>1, <1>3, QueueStep

(* Every step keeps the invariant and the promise of UndoHistory. *)
LEMMA HistoryStep ==
  ASSUME HistoryInv, CommandsPerFrame <= 1, CarefulNext, Remember
  PROVE  HistoryInv' /\ PromiseKept
<1>1. CASE TreeWindow
  BY <1>1, TreeWindowKeeps
<1>2. CASE Menus
  BY <1>2, MenusKeep
<1>3. CASE UndoCommand
  BY <1>3, UndoKeeps DEF PromiseKept
<1>4. CASE RedoCommand
  BY <1>4, RedoKeeps DEF PromiseKept
<1>5. CASE Update
  BY <1>5, UpdateKeeps DEF PromiseKept
<1>6. CASE Selecting
  <2>1. PICK S \in SUBSET Shown(doc.tree) : SelectItems(S)
    BY <1>6 DEF Selecting
  <2>2. HistoryInv' /\ doc'.tree = doc.tree /\ past' = past /\ future' = future
    BY <2>1, SelectKeeps
  <2> QED BY <2>2 DEF PromiseKept
<1>7. CASE DuplicateSelection
  BY <1>7, DuplicateKeeps
<1>8. ASSUME NEW x \in Shown(doc.tree), NEW p \in Shown(doc.tree),
             MayAdopt(doc.tree, p, x), AttachButton(x, p)
      PROVE  HistoryInv' /\ PromiseKept
  BY <1>8, AttachKeeps
<1> QED BY <1>1, <1>2, <1>3, <1>4, <1>5, <1>6, <1>7, <1>8 DEF CarefulNext, History

(* Nothing changes, and so does not the invariant. *)
LEMMA HistoryStutter ==
  ASSUME HistoryInv, UNCHANGED historyVars
  PROVE  HistoryInv'
<1>1. /\ doc' = doc /\ queued' = queued /\ executed' = executed /\ undone' = undone
      /\ commands' = commands /\ past' = past /\ future' = future
  BY DEF historyVars, vars
<1> QED BY <1>1 DEF HistoryInv, Ready, ListsMatch, PastIsExact, FutureIsExact, QueueIsFresh

-----------------------------------------------------------------------------
(* The theorems *)

(* The inductive invariant of the editor, for every scene, when a frame     *)
(* handles at most one command: each operation is executed, undone and      *)
(* redone on the very tree that it was built for.                           *)
THEOREM AlwaysHistoryInv ==
  ASSUME CommandsPerFrame <= 1
  PROVE  HistorySpec => []HistoryInv
<1>1. HistoryInv /\ [CarefulNext /\ Remember]_historyVars => HistoryInv'
  BY HistoryStep, HistoryStutter
<1> QED BY <1>1, HistoryStarts, PTL DEF HistorySpec

(* The invariant has the type invariant in it, *)
LEMMA HistoryIsTyped ==
  ASSUME HistoryInv
  PROVE  TypeOK
<1>1. /\ doc.tree \in Tree /\ doc = Doc(doc.tree, doc.selection)
      /\ doc.selection \in SUBSET Shown(doc.tree)
      /\ executed \in Seq(Operation) /\ undone \in Seq(Operation)
      /\ commands \in 0 .. CommandsPerFrame /\ QueueIsFresh
  BY HistoryFields
<1>2. queued \in Seq(Operation)
  <2>1. CASE queued = << >>
    BY <2>1
  <2>2. ASSUME NEW ops, queued = << ops >>, Built(doc.tree, doc.selection, ops)
        PROVE  queued \in Seq(Operation)
    BY <2>2 DEF Built
  <2> QED BY <1>1, <2>1, <2>2 DEF QueueIsFresh
<1>3. doc \in Document
  <2>1. doc.selection \in SUBSET Item
    BY <1>1 DEF Shown, InScene, Subtree
  <2>2. Doc(doc.tree, doc.selection) \in Document
    BY <1>1, <2>1 DEF Doc, Document, Fault
  <2> QED BY <1>1, <2>2
<1> QED BY <1>1, <1>2, <1>3 DEF TypeOK

(* and the soundness of the tree. *)
LEMMA HistoryIsSound ==
  ASSUME HistoryInv
  PROVE  TreeIsSound
<1>1. Fits(doc.tree)
  BY HistoryFields
<1> QED BY <1>1, SceneOf DEF TreeIsSound, OrphansAreBare

(* The document and the three lists of operations keep their types. *)
THEOREM SceneStaysTyped ==
  ASSUME CommandsPerFrame <= 1
  PROVE  HistorySpec => []TypeOK
BY AlwaysHistoryInv, HistoryIsTyped, PTL

(* No ERHE_VERIFY of an operation fails, no null parent is dereferenced and *)
(* no cycle is made, however long the user edits, undoes and redoes: the    *)
(* check that execute() and undo() make of the parents is redundant with    *)
(* one command per frame.                                                   *)
THEOREM SceneNeverFaults ==
  ASSUME CommandsPerFrame <= 1
  PROVE  HistorySpec => []NoFault
<1>1. HistoryInv => NoFault
  BY HistoryFields DEF NoFault
<1> QED BY <1>1, AlwaysHistoryInv, PTL

(* The tree stays one that hierarchy_sanity_check() accepts, and nothing    *)
(* that left the scene has anything below it.                               *)
THEOREM SceneStaysSound ==
  ASSUME CommandsPerFrame <= 1
  PROVE  HistorySpec => []TreeIsSound
BY AlwaysHistoryInv, HistoryIsSound, PTL

(* No edit, undo or redo selects an item that no window shows, although     *)
(* undo and redo write selections captured long before.                     *)
THEOREM SelectionStaysInScene ==
  ASSUME CommandsPerFrame <= 1
  PROVE  HistorySpec => []SelectionInScene
<1>1. HistoryInv => SelectionInScene
  BY HistoryFields DEF SelectionInScene
<1> QED BY <1>1, AlwaysHistoryInv, PTL

(* The editor starts where the abstract history starts, *)
LEMMA PromiseStarts ==
  ASSUME HistoryInit
  PROVE  Promise!Init
<1>1. doc.tree \in Tree
  BY HistoryStarts, HistoryFields
<1> QED BY <1>1 DEF HistoryInit, Promise!Init

(* and every step of it is a step of the abstract history, or none. *)
LEMMA PromiseSteps ==
  ASSUME HistoryInv, HistoryInv', [CarefulNext /\ Remember]_historyVars, CommandsPerFrame <= 1
  PROVE  [Promise!Next]_(Promise!vars)
<1>1. doc'.tree \in Tree
  BY SceneOf DEF HistoryInv, Ready
<1>2. CASE UNCHANGED historyVars
  BY <1>2 DEF historyVars, vars, Promise!vars
<1>3. CASE PromiseKept
  <2>1. /\ Promise!Last(past) = Last(past) /\ Promise!Front(past) = Front(past)
        /\ Promise!Last(future) = Last(future) /\ Promise!Front(future) = Front(future)
    BY DEF Promise!Last, Promise!Front, Last, Front
  <2> QED BY <1>1, <1>3, <2>1 DEF PromiseKept, Promise!Next, Promise!Edit, Promise!Undo,
                                  Promise!Redo, Promise!vars
<1> QED BY <1>2, <1>3, HistoryStep

(* The operation stack implements UndoHistory: undo() goes back to the tree *)
(* before the last edit, to the order of the children, redo() to the one    *)
(* after it, and an edit drops the redo list.                               *)
THEOREM HistoryIsExact ==
  ASSUME CommandsPerFrame <= 1
  PROVE  HistorySpec => UndoIsExact
<1>1. HistoryInit => Promise!Init
  BY PromiseStarts
<1>2. HistoryInv /\ HistoryInv' /\ [CarefulNext /\ Remember]_historyVars
        => [Promise!Next]_(Promise!vars)
  BY PromiseSteps
<1> QED BY <1>1, <1>2, AlwaysHistoryInv, PTL DEF HistorySpec, UndoIsExact, Promise!Spec

=============================================================================
