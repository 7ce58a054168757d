-------------------------- MODULE WavefrontsProofs ---------------------------
(***************************************************************************)
(* For any graphs, and whatever the user shows, hides, enters and arranges: *)
(* arranged operators run in the order of their depth, the length of the    *)
(* time line is 0 in one case only, and the time line covers the frames of  *)
(* operators that are listed in the order in which they end.                *)
(***************************************************************************)
EXTENDS Wavefronts, SequenceLemmas

(* The nodes, durations and depths of a graph. *)
LEMMA GraphFacts ==
  ASSUME NEW g \in Graph
  PROVE  /\ g.listed \in Seq(ToSet(g.listed)) /\ Injective(g.listed) /\ IsFiniteSet(ToSet(g.listed))
         /\ g.depth \in [ToSet(g.listed) -> Nat] /\ g.first \in [ToSet(g.listed) -> Nat]
         /\ g.last \in [ToSet(g.listed) -> Nat] /\ g.reached \in [ToSet(g.listed) -> Nat]
         /\ \A n \in ToSet(g.listed) : g.first[n] <= g.last[n]
<1> DEFINE s == g.listed
           S == ToSet(s)
<1>1. s \in Seq(S) /\ IsInjective(s)
  BY GraphAssumption
<1>2. /\ \A times \in {g.depth, g.first, g.last, g.reached} : times \in [S -> Nat]
      /\ \A n \in S : g.first[n] <= g.last[n]
  BY GraphAssumption
<1> HIDE DEF S
<1>3. Injective(s)
  BY <1>1, LenProperties DEF Injective, IsInjective
<1>4. IsFiniteSet(ToSet(s))
  BY <1>1, <1>3, InjectiveLen
<1> QED BY <1>1, <1>2, <1>3, <1>4 DEF S

-----------------------------------------------------------------------------
(* An arrangement *)

(* last[k] is the time after the first k nodes. *)
After(f, s, duration) ==
  /\ f \in [0 .. Len(s) -> Nat] /\ f[0] = 0
  /\ \A k \in 1 .. Len(s) : f[k] = f[k - 1] + duration[s[k]] + 1

(* a gives each node in on the time after the ones before it in s. *)
ArrangedBy(a, f, g, s, old, on) ==
  a = [n \in ToSet(g.listed) |->
         IF n \in on THEN f[(CHOOSE i \in DOMAIN s : s[i] = n) - 1] ELSE old[n]]

(* The recursion of Arranged ends. *)
LEMMA ArrangedAfter ==
  ASSUME NEW g, NEW on, NEW S, NEW s \in Seq(S), NEW duration \in [S -> Nat], NEW old
  PROVE  \E f : /\ After(f, s, duration)
                /\ ArrangedBy(Arranged(g, s, old, on, duration), f, g, s, old, on)
<1> DEFINE N == Len(s)
           Body(w, k) == IF k = 0 THEN 0 ELSE w[k - 1] + duration[s[k]] + 1
           step == [a \in Nat \X Nat |->
                      IF a[1] + 1 \in 1 .. N THEN a[2] + duration[s[a[1] + 1]] + 1 ELSE 0]
           last == CHOOSE w : w = [k \in 0 .. N |-> Body(w, k)]
<1>1. N \in Nat /\ \A k \in 1 .. N : duration[s[k]] \in Nat
  BY LenProperties
<1>2. step \in [Nat \X Nat -> Nat]
  BY <1>1
<1>3. \A k, t \in Nat : step[<<k, t>>] = IF k + 1 \in 1 .. N THEN t + duration[s[k + 1]] + 1 ELSE 0
  OBVIOUS
<1> HIDE DEF step, N
<1>4. PICK h : Iterates(h, Nat, 0, step)
  BY <1>2, NatRecursion
<1>5. h \in [Nat -> Nat] /\ h[0] = 0 /\ \A k \in Nat : h[k + 1] = step[<<k, h[k]>>]
  BY <1>4 DEF Iterates
<1> DEFINE f == [k \in 0 .. N |-> h[k]]
<1>6. ASSUME NEW k \in 1 .. N PROVE f[k] = f[k - 1] + duration[s[k]] + 1
  <2>1. k - 1 \in Nat /\ k - 1 \in 0 .. N /\ (k - 1) + 1 = k /\ k \in 0 .. N
    BY <1>1
  <2>2. h[k] = step[<<k - 1, h[k - 1]>>] /\ h[k - 1] \in Nat
    BY <1>5, <2>1
  <2>3. h[k] = h[k - 1] + duration[s[k]] + 1
    BY <1>3, <2>1, <2>2
  <2> QED BY <2>1, <2>3
<1>7. f \in [0 .. N -> Nat] /\ f[0] = 0
  BY <1>1, <1>5
<1> HIDE DEF f
<1>8. f = [k \in 0 .. N |-> Body(f, k)]
  <2>1. ASSUME NEW k \in 0 .. N PROVE f[k] = Body(f, k)
    <3>1. CASE k = 0
      BY <1>7, <3>1
    <3>2. CASE k # 0
      <4>1. k \in 1 .. N
        BY <1>1, <3>2
      <4> QED BY <1>6, <3>2, <4>1
    <3> QED BY <3>1, <3>2
  <2> HIDE DEF Body
  <2> QED BY <1>7, <2>1
<1>9. last = [k \in 0 .. N |-> Body(last, k)]
  <2> HIDE DEF Body
  <2> QED BY <1>8
<1>10. Arranged(g, s, old, on, duration)
         = [n \in ToSet(g.listed) |->
              IF n \in on THEN last[(CHOOSE i \in DOMAIN s : s[i] = n) - 1] ELSE old[n]]
  BY Zenon DEF Arranged, N
<1> HIDE DEF last
<1>11. last = f
  <2> DEFINE P == {j \in Nat : j \in 0 .. N => last[j] = f[j]}
  <2>1. 0 \in P
    BY <1>1, <1>7, <1>9
  <2>2. ASSUME NEW j \in P PROVE j + 1 \in P
    <3>1. SUFFICES ASSUME j + 1 \in 0 .. N PROVE last[j + 1] = f[j + 1]
      OBVIOUS
    <3>2. j + 1 # 0 /\ (j + 1) - 1 = j /\ j \in 0 .. N
      BY <1>1, <3>1
    <3>3. last[j] = f[j]
      BY <3>2
    <3>4. last[j + 1] = Body(last, j + 1) /\ f[j + 1] = Body(f, j + 1)
      BY <1>8, <1>9, <3>1
    <3> QED BY <3>2, <3>3, <3>4
  <2>3. P \in SUBSET Nat
    OBVIOUS
  <2> HIDE DEF P
  <2>4. P = Nat
    BY <2>1, <2>2, <2>3, NatSetInduction
  <2>5. \A j \in 0 .. N : last[j] = f[j]
    BY <1>1, <2>4 DEF P
  <2> HIDE DEF Body
  <2> QED BY <1>7, <1>9, <2>5
<1>12. After(f, s, duration)
  BY <1>6, <1>7 DEF After, N
<1> QED BY <1>10, <1>11, <1>12 DEF ArrangedBy

(* Times grow from node to node. *)
LEMMA AfterGrows ==
  ASSUME NEW S, NEW s \in Seq(S), NEW duration \in [S -> Nat], NEW f, After(f, s, duration)
  PROVE  \A i, j \in 1 .. Len(s) : i < j => f[i - 1] + duration[s[i]] < f[j - 1]
<1>1. PICK N \in Nat : N = Len(s)
  BY LenProperties
<1>2. f \in [0 .. N -> Nat] /\ \A k \in 1 .. N : f[k] = f[k - 1] + duration[s[k]] + 1 /\ duration[s[k]] \in Nat
  BY <1>1, LenProperties DEF After
<1>3. \A k \in 1 .. N : k - 1 \in 0 .. N /\ k \in 0 .. N
  BY <1>1
<1>4. \A k \in 1 .. N : f[k] \in Int /\ f[k - 1] \in Nat
  BY <1>2, <1>3
<1>5. \A k \in 1 .. N - 1 : f[k] <= f[k + 1]
  <2> SUFFICES ASSUME NEW k \in 1 .. N - 1 PROVE f[k] <= f[k + 1]
    OBVIOUS
  <2>1. k \in 1 .. N /\ k + 1 \in 1 .. N /\ (k + 1) - 1 = k
    BY <1>1
  <2>2. f[k + 1] = f[k] + duration[s[k + 1]] + 1 /\ duration[s[k + 1]] \in Nat /\ f[k] \in Int
    BY <1>2, <1>4, <2>1
  <2> QED BY <2>2
<1>6. \A i, j \in 1 .. N : i <= j => f[i] <= f[j]
  BY <1>1, <1>4, <1>5, SortedMonotone
<1>7. ASSUME NEW i \in 1 .. N, NEW j \in 1 .. N, i < j PROVE f[i - 1] + duration[s[i]] < f[j - 1]
  <2>1. j - 1 \in 1 .. N /\ i <= j - 1
    BY <1>1, <1>7
  <2>2. f[i] <= f[j - 1]
    BY <1>6, <2>1
  <2>3. f[i] = f[i - 1] + duration[s[i]] + 1 /\ duration[s[i]] \in Nat /\ f[i - 1] \in Nat /\ f[j - 1] \in Nat
    BY <1>2, <1>4
  <2> QED BY <2>2, <2>3
<1> QED BY <1>1, <1>7

(* What ArrangedByDepth says of the nodes in on.                             *)
OneAfterAnother(g, a, on, duration) ==
  \A m, n \in on : m # n =>
    /\ g.depth[m] < g.depth[n] => a[m] + duration[m] < a[n]
    /\ a[m] + duration[m] < a[n] \/ a[n] + duration[n] < a[m]

ArrangesWell(g, a, on, duration) ==
  a \in [ToSet(g.listed) -> Int] /\ OneAfterAnother(g, a, on, duration)

(* The nodes in on come one after another, and by depth.                     *)
LEMMA ArrangedWell ==
  ASSUME NEW g \in Graph, NEW on \in SUBSET ToSet(g.listed), NEW s \in ByDepth(g, on),
         NEW old, \A n \in ToSet(g.listed) \ on : old[n] \in Int,
         NEW duration \in [ToSet(g.listed) -> Nat]
  PROVE  ArrangesWell(g, Arranged(g, s, old, on, duration), on, duration)
<1>1. PICK S : S = ToSet(g.listed)
  OBVIOUS
<1>2. IsFiniteSet(S) /\ g.depth \in [S -> Nat]
  BY <1>1, GraphFacts
<1>3. IsFiniteSet(on)
  BY <1>1, <1>2, FS_Subset
<1>4. s \in SetToSeqs(on) /\ \A i, j \in DOMAIN s : i < j => g.depth[s[i]] <= g.depth[s[j]]
  BY DEF ByDepth
<1>5. s \in Seq(on) /\ Injective(s) /\ ToSet(s) = on
  BY <1>3, <1>4, SetToSeqsFacts
<1>6. PICK N \in Nat : N = Len(s) /\ DOMAIN s = 1 .. N
  BY <1>5, LenProperties
<1>7. s \in Seq(S)
  BY <1>1, <1>5, <1>6, LenProperties
<1>8. PICK a : a = Arranged(g, s, old, on, duration)
  OBVIOUS
<1>17. PICK f : After(f, s, duration) /\ ArrangedBy(a, f, g, s, old, on)
  BY <1>1, <1>7, <1>8, ArrangedAfter
<1>9. /\ After(f, s, duration)
      /\ a = [n \in S |-> IF n \in on THEN f[(CHOOSE i \in DOMAIN s : s[i] = n) - 1] ELSE old[n]]
  BY <1>1, <1>17 DEF ArrangedBy
<1>10. \A i, j \in 1 .. N : i < j => f[i - 1] + duration[s[i]] < f[j - 1]
  BY <1>1, <1>6, <1>7, <1>9, AfterGrows
<1>11. \A n \in on : \E i \in 1 .. N : s[i] = n
  BY <1>5, <1>6, ToSetDef
<1>12. ASSUME NEW n \in on PROVE \E i \in 1 .. N : s[i] = n /\ a[n] = f[i - 1]
  <2>1. PICK i : i = CHOOSE k \in DOMAIN s : s[k] = n
    OBVIOUS
  <2>2. i \in 1 .. N /\ s[i] = n
    BY <1>6, <1>11, <2>1
  <2>3. a[n] = f[i - 1]
    BY <1>1, <1>9, <2>1
  <2> QED BY <2>2, <2>3
<1>13. \A i \in 1 .. N : f[i - 1] \in Nat
  <2>1. \A i \in 1 .. N : i - 1 \in 0 .. N
    BY <1>6
  <2> QED BY <1>6, <1>9, <2>1 DEF After
<1>14. a \in [S -> Int]
  <2>1. ASSUME NEW n \in S PROVE a[n] \in Int
    <3>1. CASE n \in on
      BY <1>12, <1>13, <3>1
    <3>2. CASE n \notin on
      BY <1>1, <1>9, <3>2
    <3> QED BY <3>1, <3>2
  <2> QED BY <1>9, <2>1
<1>15. ASSUME NEW m \in on, NEW n \in on, m # n
       PROVE  /\ g.depth[m] < g.depth[n] => a[m] + duration[m] < a[n]
              /\ a[m] + duration[m] < a[n] \/ a[n] + duration[n] < a[m]
  <2>1. PICK i \in 1 .. N : s[i] = m /\ a[m] = f[i - 1]
    BY <1>12
  <2>2. PICK j \in 1 .. N : s[j] = n /\ a[n] = f[j - 1]
    BY <1>12
  <2>3. i < j \/ j < i
    BY <1>15, <2>1, <2>2
  <2>4. i < j => a[m] + duration[m] < a[n]
    BY <1>10, <2>1, <2>2
  <2>5. j < i => a[n] + duration[n] < a[m] /\ g.depth[n] <= g.depth[m]
    BY <1>4, <1>6, <1>10, <2>1, <2>2
  <2>6. g.depth[m] \in Nat /\ g.depth[n] \in Nat
    BY <1>1, <1>2
  <2> QED BY <2>3, <2>4, <2>5, <2>6
<1>16. OneAfterAnother(g, a, on, duration)
  BY <1>15 DEF OneAfterAnother
<1> QED BY <1>1, <1>8, <1>14, <1>16 DEF ArrangesWell

-----------------------------------------------------------------------------
(* The user *)

Duration == IF placed.by = "baseline" THEN graph.last ELSE graph.reached

TimesInv ==
  /\ graph # NoGraph => graph \in Graph /\ offset \in [ToSet(graph.listed) -> Int]
  /\ shown \subseteq Nodes
  /\ placed \in [nodes : SUBSET Nodes, by : {"baseline", "optimized"}]
  /\ graph # NoGraph => OneAfterAnother(graph, offset, placed.nodes, Duration)

LEMMA ArrangeKeeps ==
  ASSUME TimesInv, NEW by \in {"baseline", "optimized"}, Arrange(by)
  PROVE  TimesInv'
<1>1. /\ graph # NoGraph /\ graph \in Graph /\ offset \in [ToSet(graph.listed) -> Int]
      /\ shown \in SUBSET ToSet(graph.listed)
      /\ graph' = graph /\ shown' = shown /\ placed' = [nodes |-> shown, by |-> by]
  BY DEF Arrange, TimesInv, Nodes
<1>2. PICK duration : duration = IF by = "baseline" THEN graph.last ELSE graph.reached
  OBVIOUS
<1>3. PICK s \in ByDepth(graph, shown) : offset' = Arranged(graph, s, offset, shown, duration)
  BY <1>2 DEF Arrange
<1>4. duration \in [ToSet(graph.listed) -> Nat]
  BY <1>1, <1>2, GraphFacts
<1>5. ArrangesWell(graph, offset', shown, duration)
  BY <1>1, <1>3, <1>4, ArrangedWell
<1>6. Duration' = duration
  BY <1>1, <1>2 DEF Duration
<1> QED BY <1>1, <1>5, <1>6 DEF TimesInv, Nodes, ArrangesWell

LEMMA LoadKeeps ==
  ASSUME TimesInv, NEW g \in Graph, Load(g)
  PROVE  TimesInv'
<1>1. PICK S : S = ToSet(g.listed)
  OBVIOUS
<1>2. graph' = g /\ shown' = S /\ placed' = [nodes |-> S, by |-> "baseline"] /\ g # NoGraph
  BY <1>1, NoGraphAssumption DEF Load
<1>3. PICK s \in ByDepth(g, S) : offset' = Arranged(g, s, [n \in S |-> 0], S, g.last)
  BY <1>1 DEF Load
<1>4. g.last \in [S -> Nat]
  BY <1>1, GraphFacts
<1>5. ArrangesWell(g, offset', S, g.last)
  BY <1>1, <1>3, <1>4, ArrangedWell
<1>6. Duration' = g.last
  BY <1>2 DEF Duration
<1> QED BY <1>1, <1>2, <1>5, <1>6 DEF TimesInv, Nodes, ArrangesWell

LEMMA TimesNext == TimesInv /\ [Next]_vars => TimesInv'
<1> SUFFICES ASSUME TimesInv, [Next]_vars PROVE TimesInv'
  OBVIOUS
<1>1. CASE UNCHANGED nodeVars
  BY <1>1 DEF nodeVars, TimesInv, Nodes, Duration, OneAfterAnother
<1>2. CASE \E n \in Nodes : ToggleShow(n)
  BY <1>2 DEF ToggleShow, TimesInv, Nodes, Duration, OneAfterAnother
<1>3. ASSUME NEW n \in Nodes, NEW t \in Edit, EnterOffset(n, t) PROVE TimesInv'
  <2>1. graph # NoGraph /\ n \in ToSet(graph.listed) /\ t \in Int
    BY EditAssumption DEF Nodes
  <2>2. /\ graph \in Graph /\ offset \in [ToSet(graph.listed) -> Int]
        /\ OneAfterAnother(graph, offset, placed.nodes, Duration)
        /\ placed \in [nodes : SUBSET Nodes, by : {"baseline", "optimized"}]
    BY <2>1 DEF TimesInv
  <2>3. /\ offset' = [offset EXCEPT ![n] = t] /\ placed' = [placed EXCEPT !.nodes = @ \ {n}]
        /\ graph' = graph /\ shown' = shown
    BY <1>3 DEF EnterOffset
  <2>4. offset' \in [ToSet(graph.listed) -> Int] /\ \A m \in ToSet(graph.listed) : m # n => offset'[m] = offset[m]
    BY <2>1, <2>2, <2>3
  <2>5. placed' \in [nodes : SUBSET Nodes, by : {"baseline", "optimized"}]
        /\ placed'.nodes = placed.nodes \ {n} /\ placed'.by = placed.by /\ placed.nodes \subseteq ToSet(graph.listed)
    BY <2>1, <2>2, <2>3 DEF Nodes
  <2>6. Nodes' = Nodes /\ Duration' = Duration
    BY <2>3, <2>5 DEF Nodes, Duration
  <2>7. \A m \in placed'.nodes : m \in placed.nodes /\ offset'[m] = offset[m]
    BY <2>4, <2>5
  <2>8. OneAfterAnother(graph, offset', placed'.nodes, Duration)
    BY <2>2, <2>7 DEF OneAfterAnother
  <2> QED BY <2>2, <2>3, <2>4, <2>5, <2>6, <2>8 DEF TimesInv
<1>4. CASE User
  <2>1. CASE Play \/ Pause \/ Seek \/ ToggleLooping \/ TurnAround
    BY <1>1, <2>1 DEF Play, Pause, Seek, ToggleLooping, TurnAround
  <2> QED BY <1>2, <1>3, <1>4, <2>1, ArrangeKeeps, LoadKeeps DEF User
<1>5. CASE Frame
  BY <1>1, <1>5 DEF Frame, Update, Wrap, Render
<1>6. CASE UNCHANGED vars
  BY <1>1, <1>6 DEF vars
<1> QED BY <1>4, <1>5, <1>6 DEF Next

LEMMA TimesAlways == Spec => []TimesInv
<1>1. Init => TimesInv
  BY DEF Init, TimesInv, Nodes
<1> QED BY <1>1, TimesNext, PTL DEF Spec

(* Arranged operators run in the order of their depth, and with the baseline *)
(* never two at a time, whatever is shown or hidden afterwards.              *)
THEOREM AlwaysArrangedByDepth == Spec => []ArrangedByDepth
<1>1. TimesInv => ArrangedByDepth
  <2> SUFFICES ASSUME TimesInv, NEW m \in placed.nodes, NEW n \in placed.nodes, m # n
      PROVE  /\ graph.depth[m] < graph.depth[n] => Ends(m) < offset[n]
             /\ Ends(m) < offset[n] \/ Ends(n) < offset[m]
    BY DEF ArrangedByDepth
  <2>1. graph # NoGraph
    BY DEF TimesInv, Nodes
  <2>2. Ends(m) = offset[m] + Duration[m] /\ Ends(n) = offset[n] + Duration[n]
    BY DEF Ends, Duration
  <2> QED BY <2>1, <2>2 DEF TimesInv, OneAfterAnother
<1> QED BY <1>1, TimesAlways, PTL

-----------------------------------------------------------------------------
(* The time line *)

LEMMA UnsignedFacts ==
  /\ \A t \in Int : Unsigned(t) \in 0 .. Word - 1
  /\ \A t \in 0 .. Word - 1 : Unsigned(t) = t
  /\ \A t \in Nat : Unsigned(t) <= t
  /\ Unsigned(-1) = Word - 1
<1>1. \A t \in Int : Unsigned(t) \in 0 .. Word - 1
  BY WordAssumption DEF Unsigned
<1>2. \A t \in 0 .. Word - 1 : Unsigned(t) = t
  BY WordAssumption DEF Unsigned
<1>3. \A t \in Nat : Unsigned(t) <= t
  BY WordAssumption DEF Unsigned
<1>4. Unsigned(-1) = Word - 1
  BY WordAssumption DEF Unsigned
<1> QED BY <1>1, <1>2, <1>3, <1>4

Span == [first : 0 .. Word - 1, last : 0 .. Word - 1]
Untouched == [first |-> Word - 1, last |-> 0]

StartsAt(n) == Unsigned(graph.first[n] + offset[n])
EndsAt(n) == Unsigned(EndOf(n))

(* The time range after a node more. *)
Extends(r, q, n) ==
  /\ q \in Span
  /\ q.first <= r.first /\ q.first <= StartsAt(n) /\ q.first \in {r.first, StartsAt(n)}
  /\ q.first <= q.last /\ EndsAt(n) <= q.last /\ q.last \in {q.first, EndsAt(n)}

LEMMA ShownTimes ==
  ASSUME TimesInv, NEW n \in shown
  PROVE  /\ graph # NoGraph /\ n \in ToSet(graph.listed)
         /\ graph.first[n] + offset[n] \in Int /\ EndOf(n) \in Int
         /\ graph.first[n] + offset[n] <= EndOf(n)
<1>1. graph # NoGraph /\ n \in ToSet(graph.listed) /\ graph \in Graph
  BY DEF TimesInv, Nodes
<1>2. offset[n] \in Int
  BY <1>1 DEF TimesInv
<1>3. graph.first[n] \in Nat /\ graph.last[n] \in Nat /\ graph.first[n] <= graph.last[n]
  BY <1>1, GraphFacts
<1> QED BY <1>1, <1>2, <1>3 DEF EndOf

LEMMA ExtendExtends ==
  ASSUME TimesInv, NEW n \in shown, NEW r \in Span
  PROVE  Extends(r, Extend(r, n), n)
<1>1. PICK u, e : u = StartsAt(n) /\ e = EndsAt(n)
  OBVIOUS
<1>2. u \in 0 .. Word - 1 /\ e \in 0 .. Word - 1
  BY <1>1, ShownTimes, UnsignedFacts DEF StartsAt, EndsAt
<1>3. r.first \in 0 .. Word - 1 /\ r.last \in 0 .. Word - 1 /\ Word \in Nat
  BY WordAssumption DEF Span
<1>4. PICK start : start = Smaller(r.first, u)
  OBVIOUS
<1>5. start \in 0 .. Word - 1 /\ start <= r.first /\ start <= u /\ start \in {r.first, u}
  BY <1>2, <1>3, <1>4 DEF Smaller
<1>6. PICK last : last = Larger(start, e)
  OBVIOUS
<1>7. last \in 0 .. Word - 1 /\ start <= last /\ e <= last /\ last \in {start, e}
  BY <1>2, <1>3, <1>5, <1>6 DEF Larger
<1>8. Extend(r, n) = [first |-> start, last |-> last]
  BY <1>1, <1>4, <1>6 DEF Extend, StartsAt, EndsAt, EndOf
<1> QED BY <1>1, <1>5, <1>7, <1>8 DEF Extends, Span

(* R[k] is the range of the first k nodes. *)
Ranges(R, nodes) ==
  /\ R \in [0 .. Len(nodes) -> Span] /\ R[0] = Untouched
  /\ \A k \in 1 .. Len(nodes) : R[k] = IF nodes[k] \in shown THEN Extend(R[k - 1], nodes[k]) ELSE R[k - 1]

Walked == IF graph = NoGraph THEN << >> ELSE graph.listed

(* The loop of render() ends. *)
LEMMA TimeRangeIsLast ==
  ASSUME TimesInv
  PROVE  /\ Len(Walked) \in Nat
         /\ \E R : Ranges(R, Walked) /\ TimeRange = R[Len(Walked)]
<1> DEFINE nodes == Walked
           N == Len(nodes)
           Following(r, k) == IF nodes[k] \in shown THEN Extend(r, nodes[k]) ELSE r
           Body(w, k) == IF k = 0 THEN Untouched ELSE Following(w[k - 1], k)
           step == [a \in Nat \X Span |-> Following(a[2], a[1] + 1)]
           range == CHOOSE w : w = [k \in 0 .. N |-> Body(w, k)]
<1>1. N \in Nat
  BY GraphFacts, LenProperties DEF TimesInv, Walked
<1>2. \A r \in Span, k \in Nat : Following(r, k) \in Span
  BY ExtendExtends DEF Extends
<1>3. Untouched \in Span
  BY WordAssumption DEF Untouched, Span
<1> HIDE DEF N, Following
<1>4. step \in [Nat \X Span -> Span] /\ \A k \in Nat, r \in Span : step[<<k, r>>] = Following(r, k + 1)
  BY <1>2
<1> HIDE DEF step
<1>5. PICK h : Iterates(h, Span, Untouched, step)
  BY <1>3, <1>4, NatRecursion
<1>6. h \in [Nat -> Span] /\ h[0] = Untouched /\ \A k \in Nat : h[k + 1] = Following(h[k], k + 1)
  BY <1>4, <1>5 DEF Iterates
<1> DEFINE R == [k \in 0 .. N |-> h[k]]
<1>7. R \in [0 .. N -> Span] /\ R[0] = Untouched
  BY <1>1, <1>6
<1>8. ASSUME NEW k \in 1 .. N PROVE R[k] = Following(R[k - 1], k)
  <2>1. k - 1 \in Nat /\ k - 1 \in 0 .. N /\ (k - 1) + 1 = k /\ k \in 0 .. N
    BY <1>1
  <2>2. h[(k - 1) + 1] = Following(h[k - 1], (k - 1) + 1)
    BY <1>6, <2>1
  <2> QED BY <2>1, <2>2
<1> HIDE DEF R
<1>9. R = [k \in 0 .. N |-> Body(R, k)]
  <2>1. ASSUME NEW k \in 0 .. N PROVE R[k] = Body(R, k)
    <3>1. CASE k = 0
      BY <1>7, <3>1
    <3>2. CASE k # 0
      <4>1. k \in 1 .. N
        BY <1>1, <3>2
      <4> QED BY <1>8, <3>2, <4>1
    <3> QED BY <3>1, <3>2
  <2> HIDE DEF Body
  <2> QED BY <1>7, <2>1
<1>10. range = [k \in 0 .. N |-> Body(range, k)]
  <2> HIDE DEF Body
  <2> QED BY <1>9
<1>11. TimeRange = range[N]
  BY Zenon DEF TimeRange, N, Following, Untouched, Walked
<1> HIDE DEF range
<1>12. range = R
  <2> DEFINE P == {j \in Nat : j \in 0 .. N => range[j] = R[j]}
  <2>1. 0 \in P
    BY <1>1, <1>7, <1>10
  <2>2. ASSUME NEW j \in P PROVE j + 1 \in P
    <3>1. SUFFICES ASSUME j + 1 \in 0 .. N PROVE range[j + 1] = R[j + 1]
      OBVIOUS
    <3>2. j + 1 # 0 /\ (j + 1) - 1 = j /\ j \in 0 .. N
      BY <1>1, <3>1
    <3>3. range[j] = R[j]
      BY <3>2
    <3>4. range[j + 1] = Body(range, j + 1) /\ R[j + 1] = Body(R, j + 1)
      BY <1>9, <1>10, <3>1
    <3> QED BY <3>2, <3>3, <3>4
  <2>3. P \in SUBSET Nat
    OBVIOUS
  <2> HIDE DEF P
  <2>4. P = Nat
    BY <2>1, <2>2, <2>3, NatSetInduction
  <2>5. \A j \in 0 .. N : range[j] = R[j]
    BY <1>1, <2>4 DEF P
  <2> HIDE DEF Body
  <2> QED BY <1>7, <1>10, <2>5
<1>13. Ranges(R, nodes)
  BY <1>7, <1>8 DEF Ranges, N, Following
<1> QED BY <1>1, <1>11, <1>12, <1>13 DEF N

(* What is known of a range: which nodes its ends come from.                *)
Tells(r) ==
  r \in Span /\ (r = Untouched \/
    /\ r.first <= r.last
    /\ r.first = 0 => \E n \in shown : StartsAt(n) = 0
    /\ r.last # r.first => \E m \in shown : EndsAt(m) = r.last)

LEMMA ExtendTells ==
  ASSUME TimesInv, NEW n \in shown, NEW r, Tells(r)
  PROVE  Tells(Extend(r, n))
<1>1. PICK q : q = Extend(r, n)
  OBVIOUS
<1>2. Extends(r, q, n)
  BY <1>1, ExtendExtends DEF Tells
<1>3. q.first = 0 => \E k \in shown : StartsAt(k) = 0
  <2> SUFFICES ASSUME q.first = 0 PROVE \E k \in shown : StartsAt(k) = 0
    OBVIOUS
  <2>1. CASE StartsAt(n) = 0
    BY <2>1
  <2>2. CASE r.first = 0
    <3>1. r # Untouched
      BY <2>2, WordAssumption DEF Untouched
    <3> QED BY <2>2, <3>1 DEF Tells
  <2> QED BY <1>2, <2>1, <2>2 DEF Extends
<1>4. q.last # q.first => \E m \in shown : EndsAt(m) = q.last
  BY <1>2 DEF Extends
<1>5. Tells(q)
  BY <1>2, <1>3, <1>4 DEF Tells, Extends
<1> QED BY <1>1, <1>5

LEMMA TimeRangeTells ==
  ASSUME TimesInv
  PROVE  Tells(TimeRange)
<1>1. Tells(Untouched)
  BY WordAssumption DEF Tells, Untouched, Span
<1>2. PICK nodes, N : nodes = Walked /\ N = Len(nodes)
  OBVIOUS
<1>3. N \in Nat /\ \E R : Ranges(R, nodes) /\ TimeRange = R[N]
  BY <1>2, TimeRangeIsLast
<1>9. PICK R : Ranges(R, nodes) /\ TimeRange = R[N]
  BY <1>3
<1> DEFINE P == {k \in Nat : k \in 0 .. N => Tells(R[k])}
<1>4. 0 \in P
  BY <1>1, <1>2, <1>9 DEF Ranges
<1>5. ASSUME NEW k \in P PROVE k + 1 \in P
  <2> SUFFICES ASSUME k + 1 \in 0 .. N PROVE Tells(R[k + 1])
    OBVIOUS
  <2>1. k \in 0 .. N /\ k + 1 \in 1 .. N /\ (k + 1) - 1 = k /\ Tells(R[k])
    BY <1>3
  <2>2. PICK n : n = nodes[k + 1]
    OBVIOUS
  <2>3. R[k + 1] = IF n \in shown THEN Extend(R[k], n) ELSE R[k]
    BY <1>2, <1>9, <2>1, <2>2 DEF Ranges
  <2>4. CASE n \in shown
    BY <2>1, <2>3, <2>4, ExtendTells
  <2>5. CASE n \notin shown
    BY <2>1, <2>3, <2>5
  <2> QED BY <2>4, <2>5
<1>6. P \in SUBSET Nat
  OBVIOUS
<1> HIDE DEF P
<1>7. P = Nat
  BY <1>4, <1>5, <1>6, NatSetInduction
<1>8. Tells(R[N])
  BY <1>3, <1>7 DEF P
<1> QED BY <1>8, <1>9

(* The length of the time line becomes 0 only when a shown node starts at    *)
(* time 0 and one ends, as a size_t, just before it.                        *)
THEOREM LengthIsAlwaysPositive == Spec => LengthIsPositive
<1> DEFINE Positive ==
             length' = 0 /\ length # 0 =>
               \E m, n \in shown : /\ Unsigned(EndOf(m)) = Unsigned(-1)
                                   /\ Unsigned(graph.first[n] + offset[n]) = 0
<1>1. TimesInv /\ [Next]_vars => [Positive]_vars
  <2> SUFFICES ASSUME TimesInv, Next, length' = 0, length # 0
      PROVE  \E m, n \in shown : EndsAt(m) = Unsigned(-1) /\ StartsAt(n) = 0
    BY DEF vars, EndsAt, StartsAt
  <2>1. Render
    BY DEF Next, Frame, Update, Wrap, User
  <2>2. PICK r : r = TimeRange
    OBVIOUS
  <2>3. Unsigned(r.last - r.first + 1) = 0
    BY <2>1, <2>2 DEF Render, LengthOf
  <2>4. Tells(r)
    BY <2>2, TimeRangeTells
  <2>5. r.first \in 0 .. Word - 1 /\ r.last \in 0 .. Word - 1 /\ Word \in Nat /\ Word > 2
    BY <2>4, WordAssumption DEF Tells, Span
  <2>6. r # Untouched
    <3> SUFFICES ASSUME r = Untouched PROVE FALSE
      OBVIOUS
    <3>1. r.last - r.first + 1 = 2 - Word
      BY <2>5 DEF Untouched
    <3>2. (2 - Word) % Word = 2
      BY <2>5
    <3> QED BY <2>3, <3>1, <3>2 DEF Unsigned
  <2>7. r.first = 0 /\ r.last = Word - 1
    <3>1. r.last - r.first + 1 \in 1 .. Word
      BY <2>4, <2>5, <2>6 DEF Tells
    <3>2. \A t \in 1 .. Word - 1 : Unsigned(t) # 0
      BY <2>5, UnsignedFacts
    <3>3. r.last - r.first + 1 = Word
      BY <2>3, <2>5, <3>1, <3>2
    <3> QED BY <2>5, <3>3
  <2>8. \E m \in shown : EndsAt(m) = Word - 1
    BY <2>4, <2>5, <2>6, <2>7 DEF Tells
  <2>9. \E n \in shown : StartsAt(n) = 0
    BY <2>4, <2>6, <2>7 DEF Tells
  <2> QED BY <2>8, <2>9, UnsignedFacts
<1>2. Spec => [][Positive]_vars
  BY <1>1, TimesAlways, PTL DEF Spec
<1> QED BY <1>2 DEF LengthIsPositive

(* A range of nodes that are listed in the order in which they end.         *)
Covered(r, n) == r.first <= graph.first[n] + offset[n] /\ EndOf(n) <= r.last

LEMMA TimeRangeCovers ==
  ASSUME TimesInv, ListedInTime, NEW n \in shown
  PROVE  Covered(TimeRange, n)
<1>1. PICK nodes, N : nodes = graph.listed /\ N = Len(nodes)
  OBVIOUS
<1>2. graph # NoGraph /\ graph \in Graph /\ n \in ToSet(nodes)
  BY <1>1 DEF ListedInTime, TimesInv, Nodes
<1>3. nodes \in Seq(ToSet(nodes)) /\ N \in Nat /\ DOMAIN nodes = 1 .. N
  BY <1>1, <1>2, GraphFacts, LenProperties
<1>4. PICK R : Ranges(R, nodes) /\ TimeRange = R[N]
  BY <1>1, <1>2, TimeRangeIsLast DEF Walked
<1>5. ASSUME NEW m \in shown
      PROVE  /\ graph.first[m] + offset[m] \in Nat /\ EndOf(m) \in 0 .. Word - 1
             /\ StartsAt(m) <= graph.first[m] + offset[m] /\ EndsAt(m) = EndOf(m)
  <2>1. /\ graph.first[m] + offset[m] \in Int /\ EndOf(m) \in Int
        /\ graph.first[m] + offset[m] <= EndOf(m)
    BY ShownTimes
  <2>2. 0 <= graph.first[m] + offset[m] /\ EndOf(m) < Word - 1
    BY DEF ListedInTime
  <2>3. graph.first[m] + offset[m] \in Nat /\ EndOf(m) \in 0 .. Word - 1
    BY <2>1, <2>2, WordAssumption
  <2> QED BY <2>3, UnsignedFacts DEF StartsAt, EndsAt
<1> DEFINE P == {k \in Nat : k \in 0 .. N => \A j \in 1 .. k : nodes[j] \in shown => Covered(R[k], nodes[j])}
<1>6. 0 \in P
  OBVIOUS
<1>7. ASSUME NEW k \in P PROVE k + 1 \in P
  <2> SUFFICES ASSUME k + 1 \in 0 .. N, NEW j \in 1 .. k + 1, nodes[j] \in shown
      PROVE  Covered(R[k + 1], nodes[j])
    OBVIOUS
  <2>1. k \in Nat /\ k \in 0 .. N /\ k + 1 \in 1 .. N /\ (k + 1) - 1 = k /\ j \in 1 .. N
    BY <1>3
  <2>2. PICK m, i, r, q : m = nodes[k + 1] /\ i = nodes[j] /\ r = R[k] /\ q = R[k + 1]
    OBVIOUS
  <2>3. q = IF m \in shown THEN Extend(r, m) ELSE r
    BY <1>1, <1>4, <2>1, <2>2 DEF Ranges
  <2>4. j \in 1 .. k => Covered(r, i)
    BY <2>1, <2>2
  <2>5. r \in Span /\ r.first \in Int /\ r.last \in Int
    BY <1>1, <1>4, <2>1, <2>2 DEF Ranges, Span
  <2>6. CASE m \notin shown
    <3>1. j \in 1 .. k
      BY <2>1, <2>2, <2>6
    <3> QED BY <2>2, <2>3, <2>4, <2>6, <3>1
  <2>7. CASE m \in shown
    <3>1. Extends(r, q, m)
      BY <2>3, <2>5, <2>7, ExtendExtends
    <3>2. /\ q.first \in Int /\ q.last \in Int
          /\ q.first <= r.first /\ q.first <= StartsAt(m) /\ EndOf(m) <= q.last
      BY <1>5, <2>7, <3>1 DEF Extends, Span
    <3>3. CASE j \in 1 .. k
      <4>1. EndOf(i) <= EndOf(m)
        <5>1. j < k + 1 /\ {nodes[j], nodes[k + 1]} \subseteq shown
          BY <2>1, <2>2, <2>7, <3>3
        <5> QED BY <1>1, <1>3, <2>1, <2>2, <5>1 DEF ListedInTime
      <4>2. r.first <= graph.first[i] + offset[i]
        BY <2>4, <3>3 DEF Covered
      <4>3. graph.first[i] + offset[i] \in Int /\ EndOf(i) \in Int /\ EndOf(m) \in Int
        BY <1>5, <2>2, <2>7
      <4> QED BY <2>2, <2>5, <3>2, <4>1, <4>2, <4>3 DEF Covered
    <3>4. CASE j = k + 1
      <4>1. StartsAt(m) <= graph.first[m] + offset[m] /\ StartsAt(m) \in Int /\ graph.first[m] + offset[m] \in Int
        BY <1>5, <2>7, UnsignedFacts DEF StartsAt
      <4> QED BY <2>2, <3>2, <3>4, <4>1 DEF Covered
    <3> QED BY <2>1, <3>3, <3>4
  <2> QED BY <2>6, <2>7
<1>8. P \in SUBSET Nat
  OBVIOUS
<1> HIDE DEF P
<1>9. P = Nat
  BY <1>6, <1>7, <1>8, NatSetInduction
<1>10. PICK j \in 1 .. N : nodes[j] = n
  BY <1>1, <1>2, <1>3, ToSetDef
<1>11. N \in P /\ N \in 0 .. N
  BY <1>3, <1>9
<1>12. Covered(R[N], nodes[j])
  BY <1>10, <1>11 DEF P
<1> QED BY <1>4, <1>10, <1>12

(* When the shown nodes are listed in the order in which they end, and within *)
(* the times there are, a time line whose length is exact as a float covers  *)
(* the frames of all of them.                                               *)
THEOREM TimelineAlwaysCovers == Spec => TimelineCovers
<1> DEFINE Covering ==
             phase = "windows" /\ phase' = "update" /\ ListedInTime /\ length' <= Exact =>
               \A n \in shown : TimeRange.first <= graph.first[n] + offset[n]
                                 /\ EndOf(n) < TimeRange.first + Length'
<1>1. TimesInv /\ [Next]_vars => [Covering]_vars
  <2> SUFFICES ASSUME TimesInv, Next, phase = "windows", phase' = "update", ListedInTime, length' <= Exact,
                      NEW n \in shown
      PROVE  TimeRange.first <= graph.first[n] + offset[n] /\ EndOf(n) < TimeRange.first + Length'
    BY DEF vars
  <2>1. PICK r : r = TimeRange
    OBVIOUS
  <2>2. length' = Unsigned(r.last - r.first + 1)
    BY <2>1 DEF Next, Frame, Update, Wrap, Render, User, LengthOf
  <2>3. Covered(r, n)
    BY <2>1, TimeRangeCovers
  <2>4. Tells(r)
    BY <2>1, TimeRangeTells
  <2>5. r.first \in 0 .. Word - 1 /\ r.last \in 0 .. Word - 1 /\ Word \in Nat /\ Word > 2
    BY <2>4, WordAssumption DEF Tells, Span
  <2>6. /\ graph.first[n] + offset[n] \in Int /\ EndOf(n) \in Int
        /\ graph.first[n] + offset[n] <= EndOf(n)
    BY ShownTimes
  <2>7. r.first <= r.last
    BY <2>3, <2>5, <2>6 DEF Covered
  <2>8. r.last - r.first + 1 \in 0 .. Word - 1
    <3>1. CASE r.last = r.first
      BY <2>5, <3>1
    <3>2. CASE r.last # r.first
      <4>1. r # Untouched
        BY <2>5, <2>7 DEF Untouched
      <4>2. PICK m \in shown : EndsAt(m) = r.last
        BY <2>4, <3>2, <4>1 DEF Tells
      <4>3. EndOf(m) \in 0 .. Word - 2
        <5>1. /\ graph.first[m] + offset[m] \in Int /\ EndOf(m) \in Int
              /\ graph.first[m] + offset[m] <= EndOf(m)
          BY ShownTimes
        <5>2. 0 <= graph.first[m] + offset[m] /\ EndOf(m) < Word - 1
          BY DEF ListedInTime
        <5> QED BY <2>5, <5>1, <5>2
      <4>4. EndsAt(m) = EndOf(m)
        BY <2>5, <4>3, UnsignedFacts DEF EndsAt
      <4> QED BY <2>5, <2>7, <4>2, <4>3, <4>4
    <3> QED BY <3>1, <3>2
  <2>9. length' = r.last - r.first + 1
    BY <2>2, <2>8, UnsignedFacts
  <2>10. Length' = length'
    BY <2>8, <2>9 DEF Length, Rounded, Magnitude
  <2> QED BY <2>1, <2>3, <2>5, <2>6, <2>9, <2>10 DEF Covered
<1>2. Spec => [][Covering]_vars
  BY <1>1, TimesAlways, PTL DEF Spec
<1> QED BY <1>2 DEF TimelineCovers
=============================================================================
