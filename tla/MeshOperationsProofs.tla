------------------------ MODULE MeshOperationsProofs -------------------------
(***************************************************************************)
(* The operations that workers make, for every scene and every number of   *)
(* clicks: at most one worker holds the mutex of the scene, the document,  *)
(* the jobs and the three lists stay well formed and the tree sound, while  *)
(* a worker holds the mutex no mesh changes and no node leaves but the hulls *)
(* of a graph that is no longer shown, and for a user who waits and keeps   *)
(* the graph nothing fails and the scene is what the list of executed       *)
(* operations makes of the loaded one.                                      *)
(*                                                                         *)
(* The last needs the past and the future: the executed operations lead,    *)
(* one after the other, from the picture (parents and meshes) of the loaded *)
(* scene to the present one, the undone ones lead on from it, and the one   *)
(* operation that may be under way was made from the present picture.       *)
(***************************************************************************)
EXTENDS MeshOperations, ItemTreeProofs

(* Every job is a record of its phase, its kind and its operation.           *)
JobShape ==
  /\ job = [c \in Click |-> job[c]]
  /\ \A c \in Click : job[c] = Job(job[c].phase, job[c].kind, job[c].operation)

(* At most one worker is between lock and unlock. *)
OneHolder == \A c, d \in Click : Holds(c) /\ Holds(d) => c = d

IInv == JobShape /\ OneHolder

(* One job changes. *)
LEMMA OneJobChanges ==
  ASSUME JobShape, NEW c \in Click, NEW p, NEW k, NEW op, job' = [job EXCEPT ![c] = Job(p, k, op)]
  PROVE  /\ JobShape'
         /\ job'[c].phase = p /\ job'[c].kind = k /\ job'[c].operation = op
         /\ \A d \in Click \ {c} : Holds(d)' <=> Holds(d)
<1>1. job' = [d \in Click |-> IF d = c THEN Job(p, k, op) ELSE job[d]]
  BY DEF JobShape
<1>2. job'[c] = Job(p, k, op) /\ \A d \in Click \ {c} : job'[d] = job[d]
  BY <1>1
<1>3. JobShape'
  <2>1. job' = [d \in Click |-> job'[d]]
    BY <1>1
  <2>2. ASSUME NEW d \in Click
        PROVE  job'[d] = Job(job'[d].phase, job'[d].kind, job'[d].operation)
    BY <1>2 DEF JobShape, Job
  <2> QED
    BY <2>1, <2>2 DEF JobShape
<1> QED
  BY <1>2, <1>3 DEF Job, Holds

(* Jobs whose phase alone changes, and not to "reading". *)
LEMMA TornKeeps ==
  ASSUME IInv, job' = Torn
  PROVE  IInv'
<1>1. \A c \in Click : job'[c] = Job(TornPhase(job[c].phase), job[c].kind, job[c].operation)
  BY DEF Torn
<1>2. JobShape'
  BY <1>1 DEF JobShape, Job, Torn
<1>3. ASSUME NEW c \in Click, Holds(c)' PROVE Holds(c)
  <2>1. /\ job'[c].phase = TornPhase(job[c].phase)
        /\ job'[c].kind = job[c].kind /\ job'[c].operation = job[c].operation
    <3>1. job'[c] = Job(TornPhase(job[c].phase), job[c].kind, job[c].operation)
      BY <1>1
    <3> QED
      BY <3>1 DEF Job
  <2>2. job[c].phase = "reading"
    BY <1>3, <2>1 DEF Holds, TornPhase
  <2> QED
    BY <1>3, <2>1, <2>2 DEF Holds
<1> QED
  BY <1>2, <1>3 DEF IInv, OneHolder

LEMMA ReleaseKeeps ==
  ASSUME IInv, NEW c \in Click, NEW p, p # "reading", NEW k, NEW op,
         job' = [job EXCEPT ![c] = Job(p, k, op)]
  PROVE  IInv'
<1>1. JobShape' /\ job'[c].phase = p /\ \A d \in Click \ {c} : Holds(d)' <=> Holds(d)
  BY OneJobChanges DEF IInv
<1>2. ~Holds(c)'
  BY <1>1 DEF Holds
<1> QED
  BY <1>1, <1>2 DEF IInv, OneHolder

LEMMA AskKeeps ==
  ASSUME IInv, NEW c \in Click, NEW kind, Ask(c, kind)
  PROVE  IInv'
<1>1. job' = [job EXCEPT ![c] = Job("asked", kind, job[c].operation)]
  BY DEF Ask
<1> QED
  BY <1>1, ReleaseKeeps

LEMMA StartKeeps ==
  ASSUME IInv, NEW c \in Click, Start(c)
  PROVE  IInv'
<1>1. PICK p, k, op : /\ k = job[c].kind /\ job' = [job EXCEPT ![c] = Job(p, k, op)]
                      /\ op.selectionBefore = doc.selection
  <2>1. PICK order \in Orders :
          job' = [job EXCEPT ![c] = Job("reading", job[c].kind,
                    [kind |-> job[c].kind, click |-> c, entries |-> Entries(c, job[c].kind, order),
                     selectionBefore |-> doc.selection])]
    BY DEF Start
  <2>2. PICK op : op = [kind |-> job[c].kind, click |-> c,
                        entries |-> Entries(c, job[c].kind, order),
                        selectionBefore |-> doc.selection]
    OBVIOUS
  <2>3. op.selectionBefore = doc.selection
    BY <2>2
  <2>4. job' = [job EXCEPT ![c] = Job("reading", job[c].kind, op)]
    BY <2>1, <2>2
  <2> QED BY <2>3, <2>4
<1>2. JobShape /\ job' = [job EXCEPT ![c] = Job(p, k, op)]
  BY <1>1 DEF IInv
<1>3. /\ JobShape' /\ job'[c].kind = k /\ job'[c].operation = op
      /\ \A d \in Click \ {c} : Holds(d)' <=> Holds(d)
  BY <1>2, OneJobChanges
<1>4. Holds(c)' => \A d \in Click : ~Holds(d)
  BY <1>1, <1>3 DEF Start, Holds, Locked
<1> QED
  BY <1>3, <1>4 DEF IInv, OneHolder

LEMMA PushKeeps ==
  ASSUME IInv, NEW c \in Click, Push(c)
  PROVE  IInv'
<1>1. job' = [job EXCEPT ![c] = Job("done", job[c].kind, Nothing)]
  BY DEF Push
<1> QED
  BY <1>1, ReleaseKeeps

(* Torn keeps the jobs, and then one of them is released. *)
LEMMA FinishKeeps ==
  ASSUME IInv, NEW c \in Click, Finish(c)
  PROVE  IInv'
<1>1. PICK p \in {"torn", "pushing"} :
        job' = [Torn EXCEPT ![c] = Job(p, Torn[c].kind, Torn[c].operation)]
  BY DEF Finish
<1>2. PICK k, op :
        job' = [d \in Click |-> IF d = c THEN Job(p, k, op)
                                ELSE Job(TornPhase(job[d].phase), job[d].kind, job[d].operation)]
  BY <1>1 DEF Torn
<1>3. /\ job'[c] = Job(p, k, op)
      /\ \A d \in Click \ {c} :
           job'[d] = Job(TornPhase(job[d].phase), job[d].kind, job[d].operation)
  BY <1>2
<1>4. JobShape'
  BY <1>2, <1>3 DEF JobShape, Job
<1>5. ~Holds(c)'
  BY <1>1, <1>3 DEF Holds, Job
<1>6. ASSUME NEW d \in Click \ {c}, Holds(d)' PROVE Holds(d)
  <2>1. job'[d] = Job(TornPhase(job[d].phase), job[d].kind, job[d].operation)
    BY <1>3
  <2>2. /\ job'[d].phase = TornPhase(job[d].phase)
        /\ job'[d].kind = job[d].kind /\ job'[d].operation = job[d].operation
    BY <2>1 DEF Job
  <2>3. job[d].phase = "reading"
    BY <1>6, <2>2 DEF Holds, TornPhase
  <2> QED
    BY <1>6, <2>2, <2>3 DEF Holds
<1> QED
  BY <1>4, <1>5, <1>6 DEF IInv, OneHolder

(* A job begins to read only when none holds the mutex: make_entries() of two *)
(* workers never run at once.                                               *)
THEOREM AtMostOneHolds == Spec => []OneHolder
<1>1. Init => IInv
  BY DEF Init, IInv, JobShape, OneHolder, Holds, Job
<1>2. IInv /\ [Next]_vars => IInv'
  <2> SUFFICES ASSUME IInv, [Next]_vars PROVE IInv'
    OBVIOUS
  <2>1. CASE job' = job
    BY <2>1 DEF IInv, JobShape, OneHolder, Holds
  <2>2. CASE job' = Torn
    BY <2>2, TornKeeps
  <2>3. CASE User
    BY <2>1, <2>2, <2>3, AskKeeps DEF User, Select, RemoveOne, UndoCommand, RedoCommand
  <2>4. CASE Update
    BY <2>1, <2>2, <2>4 DEF Update, BeginUpdate, ExecuteNext, EndUpdate
  <2>5. CASE Worker
    BY <2>5, StartKeeps, FinishKeeps, PushKeeps DEF Worker
  <2>6. CASE UNCHANGED vars
    BY <2>1, <2>6 DEF vars
  <2>7. CASE Rebuild
    BY <2>1, <2>7 DEF Rebuild, EmptyHulls, AddHull
  <2> QED
    BY <2>3, <2>4, <2>5, <2>6, <2>7 DEF Next
<1>3. IInv => OneHolder
  BY DEF IInv
<1> QED
  BY <1>1, <1>2, <1>3, PTL DEF Spec

-----------------------------------------------------------------------------
(* The documents and the operations so far, along parent changes in order.   *)
Carried(a, r) == Done(r.doc, Append(a.op, r.op))

ReparentTrail(R, n, d, ops) ==
  /\ R[0] = Done(d, << >>)
  /\ \A k \in 1 .. n :
       R[k] = Carried(R[k - 1], IF R[k - 1].doc.fault = "none"
                                THEN ExecuteReparent(R[k - 1].doc, ops[k])
                                ELSE Done(R[k - 1].doc, ops[k]))

UnparentTrail(R, n, d, ops) ==
  /\ R[0] = Done(d, << >>)
  /\ \A k \in 1 .. n :
       R[k] = Carried(R[k - 1], IF R[k - 1].doc.fault = "none"
                                THEN UndoReparent(R[k - 1].doc, ops[k])
                                ELSE Done(R[k - 1].doc, ops[k]))

(* execute() of parent changes goes along such a trail. *)
LEMMA ReparentsGoAlong ==
  ASSUME NEW d, NEW ops, NEW n \in Nat, Len(ops) = n
  PROVE  \E R : ReparentTrail(R, n, d, ops) /\ ExecuteReparents(d, ops) = R[n]
<1> DEFINE Run(a, op) == Carried(a, IF a.doc.fault = "none" THEN ExecuteReparent(a.doc, op)
                                    ELSE Done(a.doc, op))
           Body(g, k) == IF k = 0 THEN Done(d, << >>) ELSE Run(g[k - 1], ops[k])
           Part(m, g) == g = [k \in 0 .. m |-> Body(g, k)]
           after == CHOOSE g : g = [k \in 0 .. n |-> Body(g, k)]
           P == {m \in Nat : \E g : Part(m, g)}
<1>1. ExecuteReparents(d, ops) = after[n]
  BY DEF InOrder, ExecuteReparents, Carried
<1> HIDE DEF Run
<1>2. 0 \in P
  <2>1. Part(0, [k \in 0 .. 0 |-> Done(d, << >>)])
    OBVIOUS
  <2> HIDE DEF Part
  <2> QED BY <2>1
<1>3. ASSUME NEW m \in P PROVE m + 1 \in P
  <2>1. m \in Nat /\ \E g : Part(m, g)
    OBVIOUS
  <2>2. PICK g : Part(m, g)
    BY <2>1
  <2> DEFINE h == [k \in 0 .. m + 1 |-> IF k = m + 1 THEN Run(g[m], ops[m + 1]) ELSE g[k]]
  <2>3. ASSUME NEW k \in 0 .. m + 1 PROVE h[k] = Body(h, k)
    <3>1. CASE k = 0
      BY <2>1, <2>2, <3>1
    <3>2. CASE k \in 1 .. m
      <4>1. h[k] = g[k] /\ h[k - 1] = g[k - 1] /\ k \in 0 .. m /\ k # 0
        BY <2>1, <3>2
      <4> HIDE DEF h
      <4>2. g[k] = Body(g, k)
        BY <2>2, <4>1
      <4> QED BY <4>1, <4>2
    <3>3. CASE k = m + 1
      <4>1. h[k] = Run(g[m], ops[k]) /\ h[k - 1] = g[m] /\ k # 0
        BY <2>1, <3>3
      <4> HIDE DEF h
      <4> QED BY <4>1
    <3> QED BY <2>1, <3>1, <3>2, <3>3
  <2>4. h = [k \in 0 .. m + 1 |-> h[k]]
    OBVIOUS
  <2> HIDE DEF h, Body
  <2>5. Part(m + 1, h)
    BY <2>3, <2>4, Zenon
  <2> HIDE DEF Part
  <2> QED BY <2>1, <2>5
<1>4. P \in SUBSET Nat
  OBVIOUS
<1> HIDE DEF P
<1>5. P = Nat
  BY <1>2, <1>3, <1>4, NatSetInduction
<1>6. \E g : Part(n, g)
  BY <1>5 DEF P
<1>7. after = [k \in 0 .. n |-> Body(after, k)]
  <2> HIDE DEF Body
  <2> QED BY <1>6, Zenon
<1> HIDE DEF after, Body
<1>8. ASSUME NEW k \in 0 .. n PROVE after[k] = Body(after, k)
  BY <1>7, Zenon
<1>9. after[0] = Done(d, << >>)
  BY <1>8 DEF Body
<1>10. ASSUME NEW k \in 1 .. n PROVE after[k] = Run(after[k - 1], ops[k])
  <2>1. k \in 0 .. n /\ k # 0
    OBVIOUS
  <2> QED BY <1>8, <2>1 DEF Body
<1>11. ReparentTrail(after, n, d, ops)
  BY <1>9, <1>10, Zenon DEF ReparentTrail, Run
<1> QED BY <1>1, <1>11
(* And so does undo(), over the changes in reverse order. *)
LEMMA UnparentsGoAlong ==
  ASSUME NEW d, NEW ops, NEW n \in Nat, Len(ops) = n
  PROVE  \E R : UnparentTrail(R, n, d, ops) /\ InOrder(UndoReparent, d, ops) = R[n]
<1> DEFINE Run(a, op) == Carried(a, IF a.doc.fault = "none" THEN UndoReparent(a.doc, op)
                                    ELSE Done(a.doc, op))
           Body(g, k) == IF k = 0 THEN Done(d, << >>) ELSE Run(g[k - 1], ops[k])
           Part(m, g) == g = [k \in 0 .. m |-> Body(g, k)]
           after == CHOOSE g : g = [k \in 0 .. n |-> Body(g, k)]
           P == {m \in Nat : \E g : Part(m, g)}
<1>1. InOrder(UndoReparent, d, ops) = after[n]
  BY DEF InOrder, Carried
<1> HIDE DEF Run
<1>2. 0 \in P
  <2>1. Part(0, [k \in 0 .. 0 |-> Done(d, << >>)])
    OBVIOUS
  <2> HIDE DEF Part
  <2> QED BY <2>1
<1>3. ASSUME NEW m \in P PROVE m + 1 \in P
  <2>1. m \in Nat /\ \E g : Part(m, g)
    OBVIOUS
  <2>2. PICK g : Part(m, g)
    BY <2>1
  <2> DEFINE h == [k \in 0 .. m + 1 |-> IF k = m + 1 THEN Run(g[m], ops[m + 1]) ELSE g[k]]
  <2>3. ASSUME NEW k \in 0 .. m + 1 PROVE h[k] = Body(h, k)
    <3>1. CASE k = 0
      BY <2>1, <2>2, <3>1
    <3>2. CASE k \in 1 .. m
      <4>1. h[k] = g[k] /\ h[k - 1] = g[k - 1] /\ k \in 0 .. m /\ k # 0
        BY <2>1, <3>2
      <4> HIDE DEF h
      <4>2. g[k] = Body(g, k)
        BY <2>2, <4>1
      <4> QED BY <4>1, <4>2
    <3>3. CASE k = m + 1
      <4>1. h[k] = Run(g[m], ops[k]) /\ h[k - 1] = g[m] /\ k # 0
        BY <2>1, <3>3
      <4> HIDE DEF h
      <4> QED BY <4>1
    <3> QED BY <2>1, <3>1, <3>2, <3>3
  <2>4. h = [k \in 0 .. m + 1 |-> h[k]]
    OBVIOUS
  <2> HIDE DEF h, Body
  <2>5. Part(m + 1, h)
    BY <2>3, <2>4, Zenon
  <2> HIDE DEF Part
  <2> QED BY <2>1, <2>5
<1>4. P \in SUBSET Nat
  OBVIOUS
<1> HIDE DEF P
<1>5. P = Nat
  BY <1>2, <1>3, <1>4, NatSetInduction
<1>6. \E g : Part(n, g)
  BY <1>5 DEF P
<1>7. after = [k \in 0 .. n |-> Body(after, k)]
  <2> HIDE DEF Body
  <2> QED BY <1>6, Zenon
<1> HIDE DEF after, Body
<1>8. ASSUME NEW k \in 0 .. n PROVE after[k] = Body(after, k)
  BY <1>7, Zenon
<1>9. after[0] = Done(d, << >>)
  BY <1>8 DEF Body
<1>10. ASSUME NEW k \in 1 .. n PROVE after[k] = Run(after[k - 1], ops[k])
  <2>1. k \in 0 .. n /\ k # 0
    OBVIOUS
  <2> QED BY <1>8, <2>1 DEF Body
<1>11. UnparentTrail(after, n, d, ops)
  BY <1>9, <1>10, Zenon DEF UnparentTrail, Run
<1> QED BY <1>1, <1>11

(* An operation of one step runs that step, and undoes it. *)
LEMMA OneStepRuns ==
  ASSUME NEW d, NEW r, d.fault = "none"
  PROVE  Execute(d, << r >>) = Done(ExecuteStep(d, r).doc, << ExecuteStep(d, r).op >>)
<1> DEFINE ops == << r >>
           Run(a, op) == LET e == IF a.doc.fault = "none" THEN ExecuteStep(a.doc, op)
                                  ELSE Done(a.doc, op)
                         IN  Done(e.doc, Append(a.op, e.op))
           Body(g, k) == IF k = 0 THEN Done(d, << >>) ELSE Run(g[k - 1], ops[k])
           after == CHOOSE g : g = [k \in 0 .. Len(ops) |-> Body(g, k)]
           V == [k \in 0 .. Len(ops) |-> IF k = 0 THEN Done(d, << >>)
                                         ELSE Run(Done(d, << >>), r)]
<1>1. Execute(d, << r >>) = after[1]
  BY DEF InOrder, Execute
<1>2. Len(ops) = 1 /\ ops[1] = r
  OBVIOUS
<1>3. Run(Done(d, << >>), r) = Done(ExecuteStep(d, r).doc, << ExecuteStep(d, r).op >>)
  <2>1. Done(d, << >>).doc = d /\ Done(d, << >>).op = << >>
    BY DEF Done
  <2>2. Append(<< >>, ExecuteStep(d, r).op) = << ExecuteStep(d, r).op >>
    OBVIOUS
  <2> QED BY <2>1, <2>2
<1> HIDE DEF Run, ops
<1>4. V = [k \in 0 .. Len(ops) |-> Body(V, k)]
  <2>1. ASSUME NEW k \in 0 .. Len(ops) PROVE V[k] = Body(V, k)
    <3>1. CASE k = 0
      BY <3>1
    <3>2. CASE k = 1
      <4>1. V[1] = Run(Done(d, << >>), r) /\ V[0] = Done(d, << >>)
        BY <1>2
      <4> HIDE DEF V
      <4> QED BY <1>2, <3>2, <4>1
    <3> QED BY <1>2, <3>1, <3>2
  <2>2. V = [k \in 0 .. Len(ops) |-> V[k]]
    OBVIOUS
  <2> HIDE DEF V, Body
  <2> QED BY <2>1, <2>2, Zenon
<1>5. after = [k \in 0 .. Len(ops) |-> Body(after, k)]
  <2> HIDE DEF V, Body
  <2> QED BY <1>4, Zenon
<1> HIDE DEF after, V
<1>6. after[0] = Done(d, << >>)
  BY <1>2, <1>5
<1>7. after[1] = Run(after[0], ops[1])
  BY <1>2, <1>5
<1> QED BY <1>1, <1>2, <1>3, <1>6, <1>7


(* ... and so it is with undo().                                            *)
LEMMA OneStepUnruns ==
  ASSUME NEW d, NEW r, d.fault = "none"
  PROVE  Undo(d, << r >>) = Done(UndoStep(d, r).doc, << UndoStep(d, r).op >>)
<1> DEFINE ops == << r >>
           Run(a, op) == LET e == IF a.doc.fault = "none" THEN UndoStep(a.doc, op)
                                  ELSE Done(a.doc, op)
                         IN  Done(e.doc, Append(a.op, e.op))
           Body(g, k) == IF k = 0 THEN Done(d, << >>) ELSE Run(g[k - 1], ops[k])
           after == CHOOSE g : g = [k \in 0 .. Len(ops) |-> Body(g, k)]
           V == [k \in 0 .. Len(ops) |-> IF k = 0 THEN Done(d, << >>)
                                         ELSE Run(Done(d, << >>), r)]
<1>1. Undo(d, << r >>) = Done(after[1].doc, Reverse(after[1].op))
  <2>1. Reverse(ops) = ops
    BY DEF Reverse
  <2>2. InOrder(UndoStep, d, ops) = after[1]
    BY DEF InOrder
  <2>3. Undo(d, ops) = Done(InOrder(UndoStep, d, ops).doc, Reverse(InOrder(UndoStep, d, ops).op))
    BY <2>1 DEF Undo, InReverse
  <2> QED BY <2>2, <2>3
<1>2. Len(ops) = 1 /\ ops[1] = r
  OBVIOUS
<1>3. Run(Done(d, << >>), r) = Done(UndoStep(d, r).doc, << UndoStep(d, r).op >>)
  <2>1. Done(d, << >>).doc = d /\ Done(d, << >>).op = << >>
    BY DEF Done
  <2>2. Append(<< >>, UndoStep(d, r).op) = << UndoStep(d, r).op >>
    OBVIOUS
  <2> QED BY <2>1, <2>2
<1> HIDE DEF Run, ops
<1>4. V = [k \in 0 .. Len(ops) |-> Body(V, k)]
  <2>1. ASSUME NEW k \in 0 .. Len(ops) PROVE V[k] = Body(V, k)
    <3>1. CASE k = 0
      BY <3>1
    <3>2. CASE k = 1
      <4>1. V[1] = Run(Done(d, << >>), r) /\ V[0] = Done(d, << >>)
        BY <1>2
      <4> HIDE DEF V
      <4> QED BY <1>2, <3>2, <4>1
    <3> QED BY <1>2, <3>1, <3>2
  <2>2. V = [k \in 0 .. Len(ops) |-> V[k]]
    OBVIOUS
  <2> HIDE DEF V, Body
  <2> QED BY <2>1, <2>2, Zenon
<1>5. after = [k \in 0 .. Len(ops) |-> Body(after, k)]
  <2> HIDE DEF V, Body
  <2> QED BY <1>4, Zenon
<1> HIDE DEF after, V
<1>6. after[0] = Done(d, << >>)
  BY <1>2, <1>5
<1>7. after[1] = Run(after[0], ops[1])
  BY <1>2, <1>5
<1>8. after[1] = Done(UndoStep(d, r).doc, << UndoStep(d, r).op >>)
  BY <1>2, <1>3, <1>6, <1>7
<1>9. /\ after[1].doc = UndoStep(d, r).doc
      /\ Reverse(after[1].op) = << UndoStep(d, r).op >>
  BY <1>8 DEF Done, Reverse
<1> QED BY <1>1, <1>9

(* Nodes are placed one after another. *)
PlacesTrail(R, n, d, entries, where) ==
  R[0] = d /\ \A k \in 1 .. n : R[k] = Placed(R[k - 1], entries[k], where)

(* What the nodes of an operation do, one after another.                    *)
LEMMA PlacesGoAlong ==
  ASSUME NEW d, NEW entries, NEW where, NEW n \in Nat, DOMAIN entries = 1 .. n
  PROVE  \E R : PlacesTrail(R, n, d, entries, where) /\ PlacedInOrder(d, entries, where) = R[n]
<1> DEFINE Run(a, k) == Placed(a, entries[k], where)
           Body(g, s) == IF s = {} THEN d
                         ELSE LET x == Max(s) IN Run(g[s \ {x}], x)
           Part(m, g) == g = [s \in SUBSET (1 .. m) |-> Body(g, s)]
           iter == CHOOSE g : g = [s \in SUBSET (1 .. n) |-> Body(g, s)]
           P == {m \in Nat : \E g : Part(m, g)}
<1>1. PlacedInOrder(d, entries, where) = iter[1 .. n]
  BY DEF PlacedInOrder, FoldLeft, MapThenFoldSet
<1> HIDE DEF Run
<1>13. ASSUME NEW k \in Nat, NEW s \in SUBSET (1 .. k), k \in s PROVE Max(s) = k
  <2>1. k \in s /\ \A y \in s : k >= y
    BY <1>13
  <2>2. \A x \in s : x \in Int
    OBVIOUS
  <2>3. \A x \in s : (\A y \in s : x >= y) => x = k
    BY <2>1, <2>2
  <2>4. PICK z : z = Max(s)
    OBVIOUS
  <2>5. z \in s /\ \A y \in s : z >= y
    BY <2>1, <2>4 DEF Max
  <2> QED BY <2>3, <2>4, <2>5
<1>2. 0 \in P
  <2> DEFINE g == [s \in SUBSET (1 .. 0) |-> d]
  <2>2. ASSUME NEW s \in SUBSET (1 .. 0) PROVE g[s] = Body(g, s)
    <3>1. s = {}
      OBVIOUS
    <3> QED BY <3>1
  <2>3. g = [s \in SUBSET (1 .. 0) |-> g[s]]
    OBVIOUS
  <2> HIDE DEF g, Body
  <2>1. Part(0, g)
    BY <2>2, <2>3, Zenon
  <2> HIDE DEF Part
  <2> QED BY <2>1
<1>3. ASSUME NEW m \in P PROVE m + 1 \in P
  <2>1. m \in Nat /\ \E g : Part(m, g)
    OBVIOUS
  <2>2. PICK g : Part(m, g)
    BY <2>1
  <2> DEFINE h == [s \in SUBSET (1 .. m + 1) |->
                     IF m + 1 \in s THEN Run(g[s \ {m + 1}], m + 1) ELSE g[s]]
  <2>3. ASSUME NEW s \in SUBSET (1 .. m + 1) PROVE h[s] = Body(h, s)
    <3>1. CASE m + 1 \in s
      <4>1. s # {} /\ Max(s) = m + 1
        BY <1>13, <2>1, <3>1, m + 1 \in Nat
      <4>2. s \ {m + 1} \in SUBSET (1 .. m + 1) /\ m + 1 \notin s \ {m + 1}
        OBVIOUS
      <4>3. h[s \ {m + 1}] = g[s \ {m + 1}]
        BY <4>2
      <4>4. h[s] = Run(g[s \ {m + 1}], m + 1)
        BY <3>1
      <4> HIDE DEF h
      <4> QED BY <4>1, <4>3, <4>4
    <3>2. CASE m + 1 \notin s
      <4>1. s \in SUBSET (1 .. m)
        BY <2>1, <3>2
      <4>2. h[s] = g[s]
        BY <3>2
      <4>3. g[s] = Body(g, s)
        <5> HIDE DEF Body
        <5> QED BY <2>2, <4>1
      <4>5. ASSUME NEW x PROVE h[s \ {x}] = g[s \ {x}]
        <5>1. s \ {x} \in SUBSET (1 .. m + 1) /\ m + 1 \notin s \ {x}
          BY <3>2
        <5> QED BY <5>1
      <4> HIDE DEF h
      <4> QED BY <4>2, <4>3, <4>5
    <3> QED BY <3>1, <3>2
  <2>4. h = [s \in SUBSET (1 .. m + 1) |-> h[s]]
    OBVIOUS
  <2> HIDE DEF h, Body
  <2>5. Part(m + 1, h)
    BY <2>3, <2>4, Zenon
  <2> HIDE DEF Part
  <2> QED BY <2>1, <2>5
<1>4. P \in SUBSET Nat
  OBVIOUS
<1> HIDE DEF P
<1>5. P = Nat
  BY <1>2, <1>3, <1>4, NatSetInduction
<1>6. \E g : Part(n, g)
  BY <1>5 DEF P
<1>7. iter = [s \in SUBSET (1 .. n) |-> Body(iter, s)]
  <2> HIDE DEF Body
  <2> QED BY <1>6, Zenon
<1> HIDE DEF iter, Body
<1>8. ASSUME NEW s \in SUBSET (1 .. n) PROVE iter[s] = Body(iter, s)
  BY <1>7, Zenon
<1> DEFINE R == [k \in 0 .. n |-> iter[1 .. k]]
<1>9. R[0] = d
  <2>1. {} \in SUBSET (1 .. n) /\ 1 .. 0 = {}
    OBVIOUS
  <2>2. iter[{}] = Body(iter, {})
    BY <1>8, <2>1
  <2>3. iter[{}] = d
    BY <2>2 DEF Body
  <2> QED BY <2>1, <2>3
<1>10. ASSUME NEW k \in 1 .. n PROVE R[k] = Run(R[k - 1], k)
  <2>1. PICK j \in Nat : k = j + 1
    BY k - 1 \in Nat
  <2>5. k \in Nat /\ k \in 1 .. k /\ 1 .. k \in SUBSET (1 .. k)
    OBVIOUS
  <2>6. Max(1 .. k) = k
    BY <1>13, <2>5
  <2>9. \A i \in 1 .. k : i \in 1 .. n
    BY <2>5
  <2>7. 1 .. k \in SUBSET (1 .. n) /\ 1 .. k # {}
    BY <2>5, <2>9
  <2>8. (1 .. k) \ {k} = 1 .. k - 1
    OBVIOUS
  <2>2. /\ 1 .. k \in SUBSET (1 .. n) /\ 1 .. k # {} /\ Max(1 .. k) = k
        /\ (1 .. k) \ {k} = 1 .. k - 1
    BY <2>6, <2>7, <2>8
  <2>3. R[k] = iter[1 .. k] /\ R[k - 1] = iter[1 .. k - 1]
    OBVIOUS
  <2>4. iter[1 .. k] = Run(iter[1 .. k - 1], k)
    <3>1. iter[1 .. k] = Body(iter, 1 .. k)
      BY <1>8, <2>2
    <3> QED BY <2>2, <3>1 DEF Body
  <2> QED BY <2>3, <2>4
<1>14. R[n] = iter[1 .. n]
  OBVIOUS
<1> HIDE DEF R
<1>11. PlacesTrail(R, n, d, entries, where)
  BY <1>9, <1>10 DEF PlacesTrail, Run
<1> QED BY <1>1, <1>11, <1>14

(* A node moves without taking a part of the scene out of it. *)
LEMMA SceneGrows ==
  ASSUME NEW t, t.parent \in [Item -> ItemOrNone], NEW u, AcyclicIn(u),
         NEW x \in Item, NEW p \in ItemOrNone, u.parent = [t.parent EXCEPT ![x] = p],
         x \in InScene(t) => x = Root \/ p \in InScene(t)
  PROVE  InScene(t) \subseteq InScene(u)
<1> DEFINE T == InScene(t) \ InScene(u)
<1>1. u.parent \in [Item -> ItemOrNone]
  OBVIOUS
<1>2. /\ Root \in InScene(u)
      /\ \A y \in Item : u.parent[y] \in InScene(u) => y \in InScene(u)
      /\ InScene(t) \in SUBSET Item
      /\ \A y \in InScene(t) : y # Root => t.parent[y] \in InScene(t)
  BY <1>1, RootAssumption, SubtreeClosed DEF InScene
<1>3. ASSUME NEW y \in T PROVE u.parent[y] \in T
  <2>1. y \in Item /\ y # Root /\ y \in InScene(t) /\ u.parent[y] \notin InScene(u)
    BY <1>2
  <2>2. u.parent[y] \in InScene(t)
    <3> HIDE DEF T
    <3> QED BY <1>2, <2>1
  <2> QED BY <2>1, <2>2
<1>4. T \in SUBSET Item
  BY <1>2
<1>5. T = {}
  <2> HIDE DEF T
  <2> QED BY <1>3, <1>4 DEF AcyclicIn
<1> QED BY <1>5

(* A node outside of the scene moves to another place outside, or the root   *)
(* moves, with all of the scene.                                            *)
LEMMA SceneStays ==
  ASSUME NEW t, t.parent \in [Item -> ItemOrNone], NEW u, AcyclicIn(u),
         NEW x \in Item, NEW p \in ItemOrNone, u.parent = [t.parent EXCEPT ![x] = p],
         x = Root \/ {x, p} \cap InScene(t) = {}
  PROVE  InScene(u) \subseteq InScene(t)
<1> DEFINE T == InScene(u) \ InScene(t)
<1>1. u.parent \in [Item -> ItemOrNone]
  OBVIOUS
<1>2. /\ Root \in InScene(t)
      /\ \A y \in Item : t.parent[y] \in InScene(t) => y \in InScene(t)
      /\ InScene(u) \in SUBSET Item
      /\ \A y \in InScene(u) : y # Root => u.parent[y] \in InScene(u)
  BY <1>1, RootAssumption, SubtreeClosed DEF InScene
<1>3. ASSUME NEW y \in T PROVE u.parent[y] \in T
  <2>1. y \in Item /\ y # Root /\ u.parent[y] \in InScene(u) /\ t.parent[y] \notin InScene(t)
    BY <1>2
  <2>2. u.parent[y] \notin InScene(t)
    <3> HIDE DEF T
    <3> QED BY <2>1
  <2> QED BY <2>1, <2>2
<1>4. T \in SUBSET Item
  BY <1>2
<1>5. T = {}
  <2> HIDE DEF T
  <2> QED BY <1>3, <1>4 DEF AcyclicIn
<1> QED BY <1>5

(* The scene depends on the parents alone. *)
LEMMA SameScene ==
  ASSUME NEW t, NEW u, t.parent = u.parent
  PROVE  InScene(t) = InScene(u)
BY DEF InScene, Subtree, IsAncestor, UpwardClosed

-----------------------------------------------------------------------------
(* The document is well formed and its tree is sound. *)
Good(d) == d \in Document /\ Sane(d.tree)

(* Documents that differ in one part.                                       *)
LEMMA WithTree ==
  ASSUME NEW d, Good(d), NEW u, Sane(u)
  PROVE  /\ Good([d EXCEPT !.tree = u]) /\ [d EXCEPT !.tree = u].tree = u
         /\ [d EXCEPT !.tree = u].fault = d.fault
         /\ [d EXCEPT !.tree = u].selection = d.selection
BY DEF Good, Document, Sane, Consistent

LEMMA FailGood ==
  ASSUME NEW d, Good(d), NEW why \in Fault
  PROVE  /\ Good(FailWith(d, why)) /\ FailWith(d, why).tree = d.tree
         /\ FailWith(d, why).fault = why
BY DEF Good, Document, FailWith

LEMMA SelectGood ==
  ASSUME NEW d, Good(d), NEW S \in SUBSET Item
  PROVE  /\ Good([d EXCEPT !.selection = S]) /\ [d EXCEPT !.selection = S].tree = d.tree
         /\ [d EXCEPT !.selection = S].fault = d.fault
         /\ [d EXCEPT !.selection = S].selection = S
BY DEF Good, Document

(* The document with another selection.                                      *)
Selecting(d, S, e) == Good(e) /\ e.tree = d.tree /\ e.fault = d.fault /\ e.selection = S

LEMMA SelectedGood ==
  ASSUME NEW d, Good(d), NEW S \in SUBSET Item, NEW e, e = [d EXCEPT !.selection = S]
  PROVE  Selecting(d, S, e)
BY SelectGood DEF Selecting

LEMMA GoodTree ==
  ASSUME NEW d, Good(d)
  PROVE  /\ Sane(d.tree) /\ AcyclicIn(d.tree)
         /\ d.tree.parent \in [Item -> ItemOrNone]
         /\ d.tree.children \in [Item -> Seq(Item)]
         /\ d.fault \in Fault /\ d.selection \in SUBSET Item
<1>1. d \in Document /\ Consistent(d.tree) /\ AcyclicIn(d.tree) /\ Sane(d.tree)
  BY DEF Good, Sane
<1> QED BY <1>1, ConsistentElim DEF Document

(* One call of set_parent(). *)
HangsWell(d, x, p, e) ==
  /\ Good(e) /\ e.selection = d.selection
  /\ \/ e.tree = d.tree /\ e.fault # "none"
     \/ MayAdopt(d.tree, p, x) /\ e.tree.parent = [d.tree.parent EXCEPT ![x] = p] /\ e.fault = d.fault
  /\ (x \in InScene(d.tree) => x = Root \/ p \in InScene(d.tree)) => InScene(d.tree) \subseteq InScene(e.tree)
  /\ (x = Root \/ {x, p} \cap InScene(d.tree) = {}) => InScene(e.tree) \subseteq InScene(d.tree)

LEMMA HangGood ==
  ASSUME NEW d, Good(d), NEW x \in Item, NEW p \in ItemOrNone, NEW position \in Nat
  PROVE  HangsWell(d, x, p, Hang(d, x, p, position))
<1>0. Sane(d.tree) /\ d.tree.parent \in [Item -> ItemOrNone]
  BY GoodTree
<1>1. CASE p # x /\ MayAdopt(d.tree, p, x)
  <2>1. PICK u : u = SetParent(d.tree, x, p, position)
    OBVIOUS
  <2>2. Sane(u) /\ AcyclicIn(u) /\ u.parent = [d.tree.parent EXCEPT ![x] = p]
    BY <1>0, <1>1, <2>1, SetParentSane DEF Sane
  <2>3. PICK e : e = [d EXCEPT !.tree = u]
    OBVIOUS
  <2>6. Hang(d, x, p, position) = e
    BY <1>1, <2>1, <2>3 DEF Hang
  <2>4. Good(e) /\ e.tree = u /\ e.fault = d.fault /\ e.selection = d.selection
    BY <2>2, <2>3, WithTree
  <2>5. /\ (x \in InScene(d.tree) => x = Root \/ p \in InScene(d.tree)) => InScene(d.tree) \subseteq InScene(u)
        /\ (x = Root \/ {x, p} \cap InScene(d.tree) = {}) => InScene(u) \subseteq InScene(d.tree)
    <3>1. ASSUME x \in InScene(d.tree) => x = Root \/ p \in InScene(d.tree)
          PROVE InScene(d.tree) \subseteq InScene(u)
      BY <1>0, <2>2, <3>1, SceneGrows
    <3>2. ASSUME x = Root \/ {x, p} \cap InScene(d.tree) = {}
          PROVE InScene(u) \subseteq InScene(d.tree)
      BY <1>0, <2>2, <3>2, SceneStays
    <3> QED BY <3>1, <3>2
  <2> QED BY <1>1, <2>2, <2>4, <2>5, <2>6 DEF HangsWell
<1>2. CASE ~(p # x /\ MayAdopt(d.tree, p, x))
  <2>1. PICK why \in {"verify", "cycle"} : Hang(d, x, p, position) = FailWith(d, why)
    BY <1>2 DEF Hang
  <2>4. why \in Fault /\ why # "none"
    BY DEF Fault
  <2>2. PICK e : e = FailWith(d, why)
    OBVIOUS
  <2>3. Good(e) /\ e.tree = d.tree /\ e.fault # "none" /\ e.selection = d.selection
    BY <2>2, <2>4, FailGood DEF FailWith, Good, Document
  <2> QED BY <2>1, <2>2, <2>3 DEF HangsWell
<1> QED BY <1>1, <1>2

(* A node that is taken out and put back leaves the tree sound.             *)
LEMMA ReattachedSane ==
  ASSUME NEW t, Sane(t), NEW x \in Item
  PROVE  Sane(Reattached(t, x)) /\ Reattached(t, x).parent = t.parent
<1>1. /\ t.parent \in [Item -> ItemOrNone]
      /\ t.children \in [Item -> Seq(Item)]
      /\ t.depth \in [Item -> Nat]
      /\ t = [parent |-> t.parent, children |-> t.children, depth |-> t.depth]
      /\ \A q \in Item : /\ Injective(t.children[q])
                        /\ ToSet(t.children[q]) = {y \in Item : t.parent[y] = q}
  BY ConsistentElim DEF Sane
<1>2. CASE t.parent[x] = NoItem
  BY <1>2 DEF Reattached
<1>3. CASE t.parent[x] # NoItem
  <2>1. PICK p \in Item : p = t.parent[x]
    BY <1>1, <1>3 DEF ItemOrNone
  <2>2. PICK r : r = RemoveFirst(t.children[p], x)
    OBVIOUS
  <2>3. r \in Seq(Item) /\ Injective(r) /\ ToSet(r) = ToSet(t.children[p]) \ {x}
    BY <1>1, <2>2, RemoveFirstInjective
  <2>4. PICK s : s = Append(r, x)
    OBVIOUS
  <2>5. s \in Seq(Item) /\ Injective(s) /\ ToSet(s) = ToSet(r) \cup {x}
    BY <2>3, <2>4, AppendNew
  <2>6. ToSet(s) = {y \in Item : t.parent[y] = p}
    BY <1>1, <2>1, <2>3, <2>5
  <2>7. PICK u : u = [parent |-> t.parent, children |-> [t.children EXCEPT ![p] = s],
                      depth |-> t.depth]
    OBVIOUS
  <2>8. Reattached(t, x) = u
    <3>1. Reattached(t, x) = [t EXCEPT !.children = [t.children EXCEPT ![p] = s]]
      BY <1>1, <1>3, <2>1, <2>2, <2>4 DEF Reattached
    <3> QED BY <1>1, <2>7, <3>1
  <2>9. /\ u.parent = t.parent /\ u.depth = t.depth
        /\ u.children = [t.children EXCEPT ![p] = s]
        /\ u = [parent |-> u.parent, children |-> u.children, depth |-> u.depth]
    BY <2>7
  <2>10. u.children \in [Item -> Seq(Item)]
    BY <1>1, <2>5, <2>9
  <2>11. \A q \in Item : /\ Injective(u.children[q])
                        /\ ToSet(u.children[q]) = {y \in Item : u.parent[y] = q}
    BY <1>1, <2>5, <2>6, <2>9
  <2>12. Consistent(u)
    BY <1>1, <2>9, <2>10, <2>11, ConsistentIntro
  <2>13. AcyclicIn(u) /\ DepthIsDistanceIn(u)
    BY <2>9 DEF Sane, AcyclicIn, DepthIsDistanceIn
  <2> QED BY <2>8, <2>9, <2>12, <2>13 DEF Sane
<1> QED BY <1>2, <1>3

LEMMA AtEndType == AtEnd \in Nat
BY ItemsAssumption, FS_CardinalityType DEF AtEnd

Where == {"same", "out", "back"}

(* Placing a node keeps the document sound. *)
PlacesWell(d, e) == Good(e) /\ e.selection = d.selection

LEMMA PlacedGood ==
  ASSUME NEW d, Good(d), NEW e \in Entry, NEW where \in Where
  PROVE  PlacesWell(d, Placed(d, e, where))
<1>1. e.item \in Item /\ e.parent \in ItemOrNone /\ NoItem \in ItemOrNone
  BY DEF Entry, ItemOrNone
<1>2. CASE where = "same"
  <2>1. PICK u : u = Reattached(d.tree, e.item)
    OBVIOUS
  <2>2. Sane(u)
    BY <1>1, <2>1, GoodTree, ReattachedSane
  <2>3. Placed(d, e, where) = [d EXCEPT !.tree = u]
    BY <1>2, <2>1 DEF Placed
  <2> QED BY <2>2, <2>3, WithTree DEF PlacesWell
<1>3. CASE where = "out"
  <2>1. PICK f : f = Hang(d, e.item, NoItem, AtEnd)
    OBVIOUS
  <2>2. HangsWell(d, e.item, NoItem, f)
    BY <1>1, <2>1, AtEndType, HangGood
  <2>3. Placed(d, e, where) = f
    BY <1>3, <2>1 DEF Placed
  <2> QED BY <2>2, <2>3 DEF HangsWell, PlacesWell
<1>4. CASE where = "back"
  <2>1. PICK f : f = Hang(d, e.item, e.parent, AtEnd)
    OBVIOUS
  <2>2. HangsWell(d, e.item, e.parent, f)
    BY <1>1, <2>1, AtEndType, HangGood
  <2>3. Placed(d, e, where) = f
    BY <1>4, <2>1 DEF Placed
  <2> QED BY <2>2, <2>3 DEF HangsWell, PlacesWell
<1> QED BY <1>2, <1>3, <1>4 DEF Where

LEMMA PlacedInOrderGood ==
  ASSUME NEW d, Good(d), NEW entries \in Seq(Entry), NEW where \in Where
  PROVE  PlacesWell(d, PlacedInOrder(d, entries, where))
<1>1. PICK n \in Nat : n = Len(entries) /\ DOMAIN entries = 1 .. n
  BY LenProperties
<1>2. \A k \in 1 .. n : entries[k] \in Entry
  BY <1>1
<1>3. PICK R : PlacesTrail(R, n, d, entries, where) /\ PlacedInOrder(d, entries, where) = R[n]
  BY <1>1, PlacesGoAlong
<1> DEFINE P == {k \in Nat : k \in 0 .. n => PlacesWell(d, R[k])}
<1>4. 0 \in P
  BY <1>3 DEF PlacesTrail, PlacesWell
<1>5. ASSUME NEW k \in P PROVE k + 1 \in P
  <2>1. k \in Nat /\ (k \in 0 .. n => PlacesWell(d, R[k]))
    OBVIOUS
  <2>2. ASSUME k + 1 \in 0 .. n PROVE PlacesWell(d, R[k + 1])
    <3>1. k + 1 \in 1 .. n /\ (k + 1) - 1 = k /\ PlacesWell(d, R[k])
      BY <2>1, <2>2
    <3>2. R[k + 1] = Placed(R[k], entries[k + 1], where) /\ entries[k + 1] \in Entry
      BY <1>2, <1>3, <3>1 DEF PlacesTrail
    <3>3. PlacesWell(R[k], R[k + 1])
      BY <3>1, <3>2, PlacedGood DEF PlacesWell
    <3> QED BY <3>1, <3>3 DEF PlacesWell
  <2> QED BY <2>1, <2>2
<1>6. P \in SUBSET Nat
  OBVIOUS
<1> HIDE DEF P
<1>7. n \in P
  BY <1>4, <1>5, <1>6, NatSetInduction
<1> QED BY <1>3, <1>7 DEF P

-----------------------------------------------------------------------------
(* The parent changes of a removal: of nodes below x that go below p. *)
Change(x, p) == {g \in ReparentStep : g.from = x /\ g.to = p /\ g.before = NoItem /\ g.after = NoItem}

(* The removals of a single item, as the constructor leaves them and as they *)
(* are once they have run.                                                  *)
RemovalStep ==
  {r \in InsertRemoveStep : /\ r.kind = "remove"
                            /\ r.changes \in Seq(Change(r.item, r.from))
                            /\ r.changes # << >> => r.from # NoItem}

(* A parent change of a removal, done.                                      *)
LEMMA ReparentGood ==
  ASSUME NEW d, Good(d), NEW x \in Item, NEW p \in ItemOrNone, d.tree.parent[x] = p,
         NEW g \in Change(x, p)
  PROVE  LET r == ExecuteReparent(d, g)
         IN  /\ Good(r.doc) /\ r.doc.selection = d.selection /\ r.doc.tree.parent[x] = p
             /\ r.op \in Change(x, p)
             /\ x \notin InScene(d.tree) => InScene(r.doc.tree) = InScene(d.tree)
<1>1. /\ g \in ReparentStep /\ g.item \in Item /\ g.from = x /\ g.to = p
      /\ g.before = NoItem /\ g.after = NoItem
  BY DEF Change, ReparentStep
<1>2. /\ Sane(d.tree) /\ AcyclicIn(d.tree) /\ d.tree.parent \in [Item -> ItemOrNone]
      /\ d.tree.children \in [Item -> Seq(Item)] /\ Consistent(d.tree)
  BY GoodTree DEF Sane
<1>3. CASE d.tree.parent[g.item] # x
  <2>1. PICK e : e = FailWith(d, "verify")
    OBVIOUS
  <2>2. ExecuteReparent(d, g) = Done(e, g)
    BY <1>1, <1>3, <2>1 DEF ExecuteReparent
  <2>3. Good(e) /\ e.tree = d.tree /\ e.selection = d.selection
    <3>1. "verify" \in Fault
      BY DEF Fault
    <3> QED BY <2>1, <3>1, FailGood DEF FailWith, Good, Document
  <2> QED BY <2>2, <2>3 DEF Done
<1>4. CASE d.tree.parent[g.item] = x
  <2>1. PICK position \in Nat : position = IF p = NoItem THEN AtEnd ELSE Len(d.tree.children[p])
    <3>1. CASE p = NoItem
      BY <3>1, AtEndType
    <3>2. CASE p # NoItem
      <4>1. d.tree.children[p] \in Seq(Item)
        BY <1>2, <3>2 DEF ItemOrNone
      <4> QED BY <3>2, <4>1, LenProperties
    <3> QED BY <3>1, <3>2
  <2>2. PICK i \in Nat : i = IndexInParent(d.tree, g.item)
    BY <1>1, <1>2, IndexFacts
  <2>3. PICK e : e = Hang(d, g.item, p, position)
    OBVIOUS
  <2>4. HangsWell(d, g.item, p, e)
    BY <1>1, <2>3, HangGood
  <2>5. ExecuteReparent(d, g) = Done(e, [g EXCEPT !.index = i])
    BY <1>1, <1>4, <2>1, <2>2, <2>3 DEF ExecuteReparent
  <2>6. [g EXCEPT !.index = i] \in Change(x, p)
    BY <1>1 DEF Change, ReparentStep
  <2>7. g.item # x
    <3>1. SUFFICES ASSUME d.tree.parent[x] = x PROVE FALSE
      BY <1>4
    <3>2. {x} \in SUBSET Item /\ {x} # {}
      OBVIOUS
    <3> QED BY <1>2, <3>1, <3>2 DEF AcyclicIn
  <2>8. e.tree.parent[x] = p
    BY <1>2, <2>4, <2>7 DEF HangsWell
  <2>9. ASSUME x \notin InScene(d.tree) PROVE InScene(e.tree) = InScene(d.tree)
    <3>1. /\ \A y \in Item : d.tree.parent[y] \in InScene(d.tree) => y \in InScene(d.tree)
          /\ \A y \in InScene(d.tree) : y # Root => d.tree.parent[y] \in InScene(d.tree)
      BY <1>2, RootAssumption, SubtreeClosed DEF InScene
    <3>2. p \notin InScene(d.tree)
      BY <2>9, <3>1
    <3>3. g.item \in InScene(d.tree) => g.item = Root
      BY <1>4, <2>9, <3>1
    <3>4. CASE g.item \notin InScene(d.tree)
      BY <2>4, <3>2, <3>4 DEF HangsWell
    <3>5. CASE g.item = Root
      BY <1>1, <2>4, <3>2, <3>5 DEF HangsWell
    <3> QED BY <3>3, <3>4, <3>5
  <2> QED BY <2>4, <2>5, <2>6, <2>8, <2>9 DEF HangsWell, Done
<1> QED BY <1>3, <1>4

(* The parent changes of a removal that runs outside of the scene leave the  *)
(* scene alone.                                                             *)
HandedOn(d, x, p, a) ==
  /\ Good(a.doc) /\ a.doc.selection = d.selection /\ a.doc.tree.parent[x] = p
  /\ a.op \in Seq(Change(x, p))
  /\ x \notin InScene(d.tree) => InScene(a.doc.tree) = InScene(d.tree)

LEMMA ReparentsGood ==
  ASSUME NEW d, Good(d), NEW x \in Item, NEW p \in ItemOrNone, d.tree.parent[x] = p,
         NEW ops \in Seq(Change(x, p))
  PROVE  HandedOn(d, x, p, ExecuteReparents(d, ops)) /\ (ops = << >> => ExecuteReparents(d, ops) = Done(d, << >>))
<1>1. PICK n \in Nat : n = Len(ops)
  BY LenProperties
<1>2. \A k \in 1 .. n : ops[k] \in Change(x, p)
  BY <1>1
<1>3. PICK R : ReparentTrail(R, n, d, ops) /\ ExecuteReparents(d, ops) = R[n]
  BY <1>1, ReparentsGoAlong
<1> DEFINE P == {k \in Nat : k \in 0 .. n => HandedOn(d, x, p, R[k])}
<1>4. R[0] = Done(d, << >>) /\ HandedOn(d, x, p, R[0])
  <2>1. R[0] = Done(d, << >>)
    BY <1>3 DEF ReparentTrail
  <2>2. R[0].doc = d /\ R[0].op = << >> /\ << >> \in Seq(Change(x, p))
    BY <2>1 DEF Done
  <2> QED BY <2>1, <2>2 DEF HandedOn
<1>5. ASSUME NEW k \in P PROVE k + 1 \in P
  <2>1. k \in Nat /\ (k \in 0 .. n => HandedOn(d, x, p, R[k]))
    OBVIOUS
  <2>2. ASSUME k + 1 \in 0 .. n PROVE HandedOn(d, x, p, R[k + 1])
    <3>1. k + 1 \in 1 .. n /\ (k + 1) - 1 = k /\ HandedOn(d, x, p, R[k]) /\ ops[k + 1] \in Change(x, p)
      BY <1>2, <2>1, <2>2
    <3>2. PICK e, g : e = R[k].doc /\ g = ops[k + 1]
      OBVIOUS
    <3>3. PICK r : r = IF e.fault = "none" THEN ExecuteReparent(e, g) ELSE Done(e, g)
      OBVIOUS
    <3>4. R[k + 1] = Carried(R[k], r)
      BY <1>3, <3>1, <3>2, <3>3 DEF ReparentTrail
    <3>5. Good(e) /\ e.selection = d.selection /\ e.tree.parent[x] = p /\ g \in Change(x, p)
      BY <3>1, <3>2 DEF HandedOn
    <3>6. /\ Good(r.doc) /\ r.doc.selection = d.selection /\ r.doc.tree.parent[x] = p
          /\ r.op \in Change(x, p)
          /\ x \notin InScene(e.tree) => InScene(r.doc.tree) = InScene(e.tree)
      <4>1. CASE e.fault = "none"
        <5>1. r = ExecuteReparent(e, g)
          BY <3>3, <4>1
        <5> QED BY <3>5, <5>1, ReparentGood
      <4>2. CASE e.fault # "none"
        BY <3>3, <3>5, <4>2 DEF Done
      <4> QED BY <4>1, <4>2
    <3>7. R[k + 1].doc = r.doc /\ R[k + 1].op = Append(R[k].op, r.op)
      BY <3>4 DEF Carried, Done
    <3>8. Append(R[k].op, r.op) \in Seq(Change(x, p))
      BY <3>1, <3>6 DEF HandedOn
    <3> QED BY <3>1, <3>2, <3>6, <3>7, <3>8 DEF HandedOn
  <2> QED BY <2>1, <2>2
<1>6. P \in SUBSET Nat
  OBVIOUS
<1>9. 0 \in P
  BY <1>4
<1> HIDE DEF P
<1>7. n \in P
  BY <1>5, <1>6, <1>9, NatSetInduction
<1>8. ops = << >> => n = 0
  BY <1>1
<1> QED BY <1>3, <1>4, <1>7, <1>8 DEF P

(* undo() of a parent change, where x hangs below p again.                   *)
(* The undo of a parent change of a removal takes nothing out of the scene. *)
UnparentsWell(d, x, p, r) ==
  /\ Good(r.doc) /\ r.doc.selection = d.selection /\ r.doc.tree.parent[x] = p
  /\ InScene(d.tree) \subseteq InScene(r.doc.tree)

LEMMA UnparentGood ==
  ASSUME NEW d, Good(d), NEW x \in Item, NEW p \in Item, d.tree.parent[x] = p,
         NEW g \in Change(x, p)
  PROVE  UnparentsWell(d, x, p, UndoReparent(d, g))
<1>1. /\ g \in ReparentStep /\ g.item \in Item /\ g.from = x /\ g.to = p /\ g.index \in Nat
  BY DEF Change, ReparentStep
<1>2. /\ Sane(d.tree) /\ d.tree.parent \in [Item -> ItemOrNone] /\ x \in ItemOrNone
  BY GoodTree DEF ItemOrNone
<1>3. CASE d.tree.parent[g.item] # p
  <2>1. PICK e : e = FailWith(d, "verify")
    OBVIOUS
  <2>2. UndoReparent(d, g) = Done(e, g)
    BY <1>1, <1>3, <2>1 DEF UndoReparent
  <2>3. Good(e) /\ e.tree = d.tree /\ e.selection = d.selection
    <3>1. "verify" \in Fault
      BY DEF Fault
    <3> QED BY <2>1, <3>1, FailGood DEF FailWith, Good, Document
  <2> QED BY <1>2, <1>3, <2>2, <2>3 DEF Done, UnparentsWell
<1>4. CASE d.tree.parent[g.item] = p
  <2>3. PICK e : e = Hang(d, g.item, x, g.index)
    OBVIOUS
  <2>4. HangsWell(d, g.item, x, e)
    BY <1>1, <1>2, <2>3, HangGood
  <2>5. UndoReparent(d, g) = Done(e, g)
    BY <1>1, <1>4, <2>3 DEF UndoReparent
  <2>8. e.tree.parent[x] = p
    <3>1. CASE g.item = x
      <4>1. e = FailWith(d, "verify") /\ "verify" \in Fault
        BY <2>3, <3>1 DEF Hang, Fault
      <4> QED BY <4>1, FailGood
    <3>2. CASE g.item # x
      BY <1>2, <2>4, <3>2 DEF HangsWell
    <3> QED BY <3>1, <3>2
  <2>9. InScene(d.tree) \subseteq InScene(e.tree)
    <3>1. /\ \A y \in Item : d.tree.parent[y] \in InScene(d.tree) => y \in InScene(d.tree)
          /\ \A y \in InScene(d.tree) : y # Root => d.tree.parent[y] \in InScene(d.tree)
      BY <1>2, RootAssumption, SubtreeClosed DEF InScene
    <3>2. g.item \in InScene(d.tree) => g.item = Root \/ x \in InScene(d.tree)
      BY <1>4, <3>1
    <3> QED BY <2>4, <3>2 DEF HangsWell
  <2> QED BY <2>4, <2>5, <2>8, <2>9 DEF HangsWell, Done, UnparentsWell
<1> QED BY <1>3, <1>4

HandedBack(d, x, p, a) ==
  /\ Good(a.doc) /\ a.doc.selection = d.selection
  /\ a.doc.fault # "none" \/ a.doc.tree.parent[x] = p
  /\ InScene(d.tree) \subseteq InScene(a.doc.tree)

LEMMA UnparentsGood ==
  ASSUME NEW d, Good(d), NEW x \in Item, NEW p \in ItemOrNone,
         d.fault # "none" \/ d.tree.parent[x] = p,
         NEW ops \in Seq(Change(x, p)), ops # << >> => p # NoItem
  PROVE  HandedBack(d, x, p, UndoReparents(d, ops))
<1>1. PICK n \in Nat : n = Len(ops)
  BY LenProperties
<1>10. PICK back : back = Reverse(ops)
  OBVIOUS
<1>11. back \in Seq(Change(x, p)) /\ Len(back) = n
  BY <1>1, <1>10, ReverseFacts
<1>2. \A k \in 1 .. n : back[k] \in Change(x, p)
  BY <1>11
<1>3. PICK R : UnparentTrail(R, n, d, back) /\ InOrder(UndoReparent, d, back) = R[n]
  BY <1>11, UnparentsGoAlong
<1> DEFINE P == {k \in Nat : k \in 0 .. n => HandedBack(d, x, p, R[k])}
<1>4. 0 \in P
  <2>1. R[0] = Done(d, << >>)
    BY <1>3 DEF UnparentTrail
  <2>2. R[0].doc = d
    BY <2>1 DEF Done
  <2>3. HandedBack(d, x, p, R[0])
    BY <2>2 DEF HandedBack
  <2> QED BY <2>3
<1>5. ASSUME NEW k \in P PROVE k + 1 \in P
  <2>1. k \in Nat /\ (k \in 0 .. n => HandedBack(d, x, p, R[k]))
    OBVIOUS
  <2>2. ASSUME k + 1 \in 0 .. n PROVE HandedBack(d, x, p, R[k + 1])
    <3>1. k + 1 \in 1 .. n /\ (k + 1) - 1 = k /\ HandedBack(d, x, p, R[k]) /\ back[k + 1] \in Change(x, p)
      BY <1>2, <2>1, <2>2
    <3>9. p \in Item
      <4>1. ops # << >>
        BY <1>1, <3>1
      <4> QED BY <4>1 DEF ItemOrNone
    <3>2. PICK e, g : e = R[k].doc /\ g = back[k + 1]
      OBVIOUS
    <3>3. PICK r : r = IF e.fault = "none" THEN UndoReparent(e, g) ELSE Done(e, g)
      OBVIOUS
    <3>4. R[k + 1] = Carried(R[k], r)
      BY <1>3, <3>1, <3>2, <3>3 DEF UnparentTrail
    <3>5. /\ Good(e) /\ e.selection = d.selection /\ g \in Change(x, p)
          /\ e.fault # "none" \/ e.tree.parent[x] = p
          /\ InScene(d.tree) \subseteq InScene(e.tree)
      BY <3>1, <3>2 DEF HandedBack
    <3>6. /\ Good(r.doc) /\ r.doc.selection = d.selection
          /\ r.doc.fault # "none" \/ r.doc.tree.parent[x] = p
          /\ InScene(e.tree) \subseteq InScene(r.doc.tree)
      <4>1. CASE e.fault = "none"
        <5>1. r = UndoReparent(e, g) /\ e.tree.parent[x] = p
          BY <3>3, <3>5, <4>1
        <5>3. Good(e) /\ e.tree.parent[x] = p /\ g \in Change(x, p)
          BY <3>5, <5>1
        <5>4. /\ Good(UndoReparent(e, g).doc)
              /\ UndoReparent(e, g).doc.selection = e.selection
              /\ UndoReparent(e, g).doc.tree.parent[x] = p
              /\ InScene(e.tree) \subseteq InScene(UndoReparent(e, g).doc.tree)
          <6>1. UnparentsWell(e, x, p, UndoReparent(e, g))
            BY ONLY <3>9, <5>3, x \in Item, UnparentGood
          <6> QED BY <6>1 DEF UnparentsWell
        <5>2. /\ Good(r.doc) /\ r.doc.selection = e.selection /\ r.doc.tree.parent[x] = p
              /\ InScene(e.tree) \subseteq InScene(r.doc.tree)
          BY <5>1, <5>4
        <5> QED BY <3>5, <5>2
      <4>2. CASE e.fault # "none"
        BY <3>3, <3>5, <4>2 DEF Done
      <4> QED BY <4>1, <4>2
    <3>7. R[k + 1].doc = r.doc
      BY <3>4 DEF Carried, Done
    <3> QED BY <3>5, <3>6, <3>7 DEF HandedBack
  <2> QED BY <2>1, <2>2
<1>6. P \in SUBSET Nat
  OBVIOUS
<1> HIDE DEF P
<1>7. n \in P
  BY <1>4, <1>5, <1>6, NatSetInduction
<1>8. UndoReparents(d, ops).doc = R[n].doc
  BY <1>3, <1>10 DEF UndoReparents, InReverse, Done
<1>9. HandedBack(d, x, p, R[n])
  BY <1>7 DEF P
<1> QED BY <1>8, <1>9 DEF HandedBack

(* What a removal, run or undone, may do: outside of the scene it takes      *)
(* nothing out of it.                                                       *)
RunsWell(d, op, r) ==
  /\ Good(r.doc) /\ r.op \in RemovalStep /\ r.op.item = op.item
  /\ op.item \notin InScene(d.tree) => InScene(d.tree) \subseteq InScene(r.doc.tree)

(* A removal with what it captured is a removal again.                      *)
LEMMA RemovalRecord ==
  ASSUME NEW op \in RemovalStep
  PROVE  /\ op.kind = "remove" /\ op.item \in Item /\ op.from \in ItemOrNone
         /\ op.to \in ItemOrNone /\ op.index \in Nat
         /\ op.changes \in Seq(Change(op.item, op.from))
         /\ op.changes # << >> => op.from # NoItem
         /\ op.selectionBefore \in SUBSET Item /\ op.selectionAfter \in SUBSET Item
BY DEF RemovalStep, InsertRemoveStep

(* A removal that has run: where it found its node and what it moved. *)
CapturedAs(op, p, i, changes, o) ==
  o = [op EXCEPT !.from = p, !.index = i, !.changes = changes]

LEMMA RemovalCaptured ==
  ASSUME NEW op \in RemovalStep, NEW p \in ItemOrNone, NEW i \in Nat,
         NEW changes \in Seq(Change(op.item, p)), changes # << >> => p # NoItem,
         NEW o, CapturedAs(op, p, i, changes, o)
  PROVE  /\ o \in RemovalStep /\ o.item = op.item /\ o.from = p /\ o.to = op.to
         /\ o.changes = changes /\ o.selectionBefore = op.selectionBefore
         /\ o.selectionAfter = op.selectionAfter
<1>1. Change(op.item, p) \subseteq ReparentStep
  BY DEF Change
<1>2. changes \in Seq(ReparentStep)
  <2>1. \A k \in 1 .. Len(changes) : changes[k] \in ReparentStep
    BY <1>1
  <2>2. changes = [k \in 1 .. Len(changes) |-> changes[k]] /\ Len(changes) \in Nat
    OBVIOUS
  <2> QED BY <2>1, <2>2
<1> QED BY <1>2 DEF RemovalStep, InsertRemoveStep, CapturedAs

(* A removal that runs, and one that is undone.                             *)
LEMMA RemoveGood ==
  ASSUME NEW d, Good(d), NEW op \in RemovalStep
  PROVE  RunsWell(d, op, ExecuteRemove(d, op))
<1> DEFINE t == d.tree
           x == op.item
           p == t.parent[x]
           c == t.children[x]
           i == IndexInParent(t, x)
           ops == [k \in 1 .. Len(c) |-> Reparent(t, c[k], p, NoItem, NoItem)]
           moved == ExecuteReparents(d, ops)
           gone == Hang(moved.doc, x, op.to, i)
           e == [gone EXCEPT !.selection = op.selectionAfter]
           o == [op EXCEPT !.from = p, !.index = i, !.changes = moved.op]
<1>1. /\ x \in Item /\ p \in ItemOrNone /\ op.to \in ItemOrNone /\ i \in Nat
      /\ op.selectionAfter \in SUBSET Item /\ Sane(t) /\ c \in Seq(Item)
      /\ \A y \in Item : y \in ToSet(c) <=> t.parent[y] = x
  <2>1. x \in Item /\ op.to \in ItemOrNone /\ op.selectionAfter \in SUBSET Item
    BY RemovalRecord
  <2>2. Sane(t) /\ Consistent(t) /\ t.parent \in [Item -> ItemOrNone] /\ t.children \in [Item -> Seq(Item)]
    BY GoodTree DEF Sane
  <2>3. i \in Nat
    BY <2>1, <2>2, IndexFacts
  <2>4. \A y \in Item : y \in ToSet(c) <=> t.parent[y] = x
    BY <2>1, <2>2 DEF Consistent, LinksAgreeIn
  <2> QED BY <2>1, <2>2, <2>3, <2>4
<1>2. CASE p = NoItem /\ c # << >>
  <2>1. ExecuteRemove(d, op) = Done(FailWith(d, "null"), op)
    BY <1>2 DEF ExecuteRemove
  <2>2. "null" \in Fault
    BY DEF Fault
  <2>3. PICK f : f = FailWith(d, "null")
    OBVIOUS
  <2>4. Good(f) /\ f.tree = d.tree
    BY <2>2, <2>3, FailGood
  <2>5. Done(f, op).doc = f /\ Done(f, op).op = op
    BY DEF Done
  <2> QED BY <2>1, <2>3, <2>4, <2>5 DEF RunsWell
<1>3. CASE ~(p = NoItem /\ c # << >>)
  <2>1. ExecuteRemove(d, op) = Done(e, o)
    BY <1>3 DEF ExecuteRemove
  <2>2. ops \in Seq(Change(x, p))
    <3>1. ASSUME NEW k \in 1 .. Len(c) PROVE Reparent(t, c[k], p, NoItem, NoItem) \in Change(x, p)
      <4>1. c[k] \in Item /\ c[k] \in ToSet(c)
        BY <1>1, ElementOfSeq, ToSetDef
      <4>2. t.parent[c[k]] = x
        BY <1>1, <4>1
      <4> HIDE DEF t, x, p, c
      <4> QED BY <1>1, <4>1, <4>2 DEF Reparent, Change, ReparentStep, ItemOrNone
    <3>2. Len(c) \in Nat
      BY <1>1, LenProperties
    <3> HIDE DEF t, x, p, c
    <3> QED BY <3>1, <3>2
  <2>3. HandedOn(d, x, p, moved) /\ (ops = << >> => moved = Done(d, << >>))
    <3> HIDE DEF x, ops
    <3> QED BY <1>1, <2>2, ReparentsGood
  <2>4. moved.op \in Seq(Change(x, p)) /\ (moved.op # << >> => p # NoItem)
    <3>1. p = NoItem => ops = << >>
      BY <1>3
    <3>2. p = NoItem => moved.op = << >>
      <4> HIDE DEF moved, ops, p
      <4> QED BY <2>3, <3>1 DEF Done
    <3> HIDE DEF moved
    <3> QED BY <2>3, <3>2 DEF HandedOn
  <2>5. HangsWell(moved.doc, x, op.to, gone)
    <3> HIDE DEF moved, x, i
    <3> QED BY <1>1, <2>3, HangGood DEF HandedOn
  <2> HIDE DEF gone, moved, i, c
  <2>6. Good(e) /\ e.tree = gone.tree
    BY <1>1, <2>5, SelectGood DEF HangsWell
  <2>7. o \in RemovalStep /\ o.item = x
    <3>1. PICK q, h : q = p /\ h = moved.op
      OBVIOUS
    <3>2. CapturedAs(op, q, i, h, o)
      BY <3>1 DEF CapturedAs
    <3>3. q \in ItemOrNone /\ i \in Nat /\ h \in Seq(Change(op.item, q)) /\ (h # << >> => q # NoItem)
      BY <1>1, <2>4, <3>1
    <3> HIDE DEF o, p, i
    <3>4. op \in RemovalStep
      OBVIOUS
    <3>5. o \in RemovalStep /\ o.item = op.item
      BY <3>2, <3>3, <3>4, RemovalCaptured
    <3> QED BY <3>5
  <2>8. ASSUME x \notin InScene(d.tree) PROVE InScene(d.tree) \subseteq InScene(gone.tree)
    BY <2>3, <2>5, <2>8 DEF HandedOn, HangsWell
  <2>9. Done(e, o).doc = e /\ Done(e, o).op = o
    BY DEF Done
  <2> HIDE DEF e, o
  <2> QED BY <2>1, <2>6, <2>7, <2>8, <2>9 DEF RunsWell
<1> QED BY <1>2, <1>3

LEMMA UnremoveGood ==
  ASSUME NEW d, Good(d), NEW op \in RemovalStep
  PROVE  RunsWell(d, op, UndoInsertRemove(d, op))
<1> DEFINE x == op.item
           p == op.from
           back == Hang(d, x, p, op.index)
           restored == UndoReparents(back, op.changes)
           e == [restored.doc EXCEPT !.selection = op.selectionBefore]
           o == [op EXCEPT !.to = d.tree.parent[x]]
<1>1. /\ x \in Item /\ p \in ItemOrNone /\ op.index \in Nat /\ op.kind = "remove"
      /\ op.changes \in Seq(Change(x, p)) /\ (op.changes # << >> => p # NoItem)
      /\ op.selectionBefore \in SUBSET Item
  BY RemovalRecord
<1>2. UndoInsertRemove(d, op) = Done(e, o)
  BY <1>1 DEF UndoInsertRemove
<1>3. HangsWell(d, x, p, back)
  BY <1>1, HangGood
<1>4. Good(back) /\ (back.fault # "none" \/ back.tree.parent[x] = p)
  <2>1. d.tree.parent \in [Item -> ItemOrNone]
    BY GoodTree
  <2> HIDE DEF back
  <2> QED BY <1>1, <1>3, <2>1 DEF HangsWell
<1>5. HandedBack(back, x, p, restored)
  <2> HIDE DEF back, x, p
  <2> QED BY <1>1, <1>4, UnparentsGood
<1>6. Good(e) /\ e.tree = restored.doc.tree
  <2> HIDE DEF restored
  <2> QED BY <1>1, <1>5, SelectGood DEF HandedBack
<1>7. o \in RemovalStep /\ o.item = x
  <2>1. d.tree.parent[x] \in ItemOrNone
    BY <1>1, GoodTree
  <2> QED BY <2>1 DEF RemovalStep, InsertRemoveStep
<1>8. ASSUME x \notin InScene(d.tree) PROVE InScene(d.tree) \subseteq InScene(restored.doc.tree)
  <2>1. InScene(d.tree) \subseteq InScene(back.tree)
    BY <1>3, <1>8 DEF HangsWell
  <2> HIDE DEF back, restored
  <2> QED BY <1>5, <2>1 DEF HandedBack
<1>9. Done(e, o).doc = e /\ Done(e, o).op = o
  BY DEF Done
<1> HIDE DEF e, o, restored
<1> QED BY <1>2, <1>6, <1>7, <1>8, <1>9 DEF RunsWell

(* Operations as they are made, with nodes that have a mesh.                 *)
MeshEntry == {e \in Entry : e.item \in HasMesh}
MeshOps == [kind : {"edit", "merge"}, click : Click, entries : Seq(MeshEntry),
            selectionBefore : SUBSET Item]
RemovalOps == {[kind |-> "remove", steps |-> << r >>] : r \in RemovalStep}
Ops == MeshOps \cup RemovalOps

(* A document and the meshes, well formed.                                  *)
GoodState(s) ==
  /\ s = [doc |-> s.doc, mesh |-> s.mesh]
  /\ Good(s.doc) /\ s.mesh \in [HasMesh -> Content]

(* The parts of an entry, and of a list of entries.                         *)
LEMMA MeshEntryFields ==
  ASSUME NEW e \in MeshEntry
  PROVE  /\ e \in Entry /\ e.item \in HasMesh /\ e.item \in Item /\ e.parent \in ItemOrNone
         /\ e["before"] \in Content /\ e["after"] \in Content
         /\ e.before = e["before"] /\ e.after = e["after"]
BY DEF MeshEntry, Entry

LEMMA EntriesType ==
  ASSUME NEW entries \in Seq(MeshEntry)
  PROVE  entries \in Seq(Entry) /\ \A e \in ToSet(entries) : e \in MeshEntry
<1>1. \A k \in 1 .. Len(entries) : entries[k] \in MeshEntry
  OBVIOUS
<1>2. entries = [k \in 1 .. Len(entries) |-> entries[k]] /\ Len(entries) \in Nat
  OBVIOUS
<1>3. entries \in Seq(Entry)
  <2>1. \A k \in 1 .. Len(entries) : entries[k] \in Entry
    BY <1>1 DEF MeshEntry
  <2> QED BY <1>2, <2>1
<1>4. ASSUME NEW e \in ToSet(entries) PROVE e \in MeshEntry
  <2>1. \E k \in 1 .. Len(entries) : entries[k] = e
    BY ToSetDef
  <2> QED BY <1>1, <2>1
<1> QED BY <1>3, <1>4

(* The operations on meshes keep a state well formed.                       *)
LEMMA EditedGood ==
  ASSUME NEW s, GoodState(s), NEW entries \in Seq(MeshEntry), NEW which \in {"before", "after"}
  PROVE  /\ GoodState(Edited(s, entries, which))
         /\ Edited(s, entries, which).doc = PlacedInOrder(s.doc, entries, "same")
         /\ Edited(s, entries, which).doc.selection = s.doc.selection
<1>1. PICK d : d = PlacedInOrder(s.doc, entries, "same")
  OBVIOUS
<1>2. Good(d) /\ d.selection = s.doc.selection
  BY <1>1, EntriesType, PlacedInOrderGood DEF GoodState, PlacesWell, Where
<1>3. PICK m : m = [x \in HasMesh |->
                      IF \E e \in ToSet(entries) : e.item = x
                      THEN (CHOOSE e \in ToSet(entries) : e.item = x)[which] ELSE s.mesh[x]]
  OBVIOUS
<1>4. m \in [HasMesh -> Content]
  <2>1. ASSUME NEW x \in HasMesh PROVE m[x] \in Content
    <3>1. CASE \E e \in ToSet(entries) : e.item = x
      <4>1. PICK e : e = CHOOSE f \in ToSet(entries) : f.item = x
        OBVIOUS
      <4>2. e \in ToSet(entries)
        BY <3>1, <4>1
      <4>3. e[which] \in Content
        BY <4>2, EntriesType, MeshEntryFields
      <4>4. m[x] = e[which]
        BY <1>3, <3>1, <4>1
      <4> QED BY <4>3, <4>4
    <3>2. CASE ~(\E e \in ToSet(entries) : e.item = x)
      BY <1>3, <3>2 DEF GoodState
    <3> QED BY <3>1, <3>2
  <2> QED BY <1>3, <2>1
<1>5. Edited(s, entries, which) = [doc |-> d, mesh |-> m]
  BY <1>1, <1>3 DEF Edited
<1> QED BY <1>1, <1>2, <1>4, <1>5 DEF GoodState

LEMMA FailedGood ==
  ASSUME NEW s, GoodState(s), NEW why \in Fault
  PROVE  /\ GoodState(Failed(s, why)) /\ Failed(s, why).doc.tree = s.doc.tree
         /\ Failed(s, why).mesh = s.mesh
<1>1. PICK e : e = FailWith(s.doc, why)
  OBVIOUS
<1>2. Good(e) /\ e.tree = s.doc.tree
  BY <1>1, FailGood DEF GoodState
<1>3. Failed(s, why) = [doc |-> e, mesh |-> s.mesh]
  BY <1>1 DEF Failed, GoodState
<1> QED BY <1>2, <1>3 DEF GoodState

LEMMA EditGood ==
  ASSUME NEW s, GoodState(s), NEW op \in MeshOps
  PROVE  GoodState(ExecuteEdit(s, op)) /\ GoodState(UndoEdit(s, op))
<1>1. op.entries \in Seq(MeshEntry)
  BY DEF MeshOps
<1>2. "verify" \in Fault
  BY DEF Fault
<1> QED BY <1>1, <1>2, EditedGood, FailedGood DEF ExecuteEdit, UndoEdit

LEMMA MergeGood ==
  ASSUME NEW s, GoodState(s), NEW op \in MeshOps
  PROVE  GoodState(ExecuteMerge(s, op)) /\ GoodState(UndoMerge(s, op))
<1>1. op.entries \in Seq(MeshEntry) /\ op.selectionBefore \in SUBSET Item
  BY DEF MeshOps
<1>2. CASE ~Hosted(s, op)
  BY <1>2 DEF ExecuteMerge, UndoMerge
<1>3. CASE Hosted(s, op)
  <2>1. op.entries # << >>
    BY <1>3 DEF Hosted
  <2>2. PICK one, rest : one = << op.entries[1] >> /\ rest = Tail(op.entries)
    OBVIOUS
  <2>3. /\ one \in Seq(MeshEntry) /\ rest \in Seq(MeshEntry) /\ rest \in Seq(Entry)
        /\ op.entries[1].item \in Item
    <3>1. op.entries[1] \in MeshEntry /\ Tail(op.entries) \in Seq(MeshEntry)
      BY <1>1, <2>1
    <3>2. op.entries[1].item \in Item
      BY <3>1, MeshEntryFields
    <3> QED BY <2>2, <3>1, <3>2, EntriesType
  <2>4. GoodState(ExecuteMerge(s, op))
    <3>1. PICK f : f = Edited(s, one, "after")
      OBVIOUS
    <3>2. GoodState(f)
      BY <2>3, <3>1, EditedGood
    <3>3. PICK e : e = PlacedInOrder(f.doc, rest, "out")
      OBVIOUS
    <3>4. Good(e)
      BY <2>3, <3>2, <3>3, PlacedInOrderGood DEF GoodState, PlacesWell, Where
    <3>5. PICK g : g = [e EXCEPT !.selection = {op.entries[1].item}]
      OBVIOUS
    <3>6. Good(g)
      BY <2>3, <3>4, <3>5, SelectGood
    <3>7. ExecuteMerge(s, op) = [f EXCEPT !.doc = g]
      BY <1>3, <2>2, <3>1, <3>3, <3>5 DEF ExecuteMerge
    <3> QED BY <3>2, <3>6, <3>7 DEF GoodState
  <2>5. GoodState(UndoMerge(s, op))
    <3>1. PICK f : f = Edited(s, one, "before")
      OBVIOUS
    <3>2. GoodState(f)
      BY <2>3, <3>1, EditedGood
    <3>3. PICK e : e = PlacedInOrder(f.doc, rest, "back")
      OBVIOUS
    <3>4. Good(e)
      BY <2>3, <3>2, <3>3, PlacedInOrderGood DEF GoodState, PlacesWell, Where
    <3>5. PICK g : g = [e EXCEPT !.selection = op.selectionBefore]
      OBVIOUS
    <3>6. Good(g)
      BY <1>1, <3>4, <3>5, SelectGood
    <3>7. UndoMerge(s, op) = [f EXCEPT !.doc = g]
      BY <1>3, <2>2, <3>1, <3>3, <3>5 DEF UndoMerge
    <3> QED BY <3>2, <3>6, <3>7 DEF GoodState
  <2> QED BY <2>4, <2>5
<1> QED BY <1>2, <1>3

(* A removal on the stack of operations. *)
Returned(s, q) ==
  [state |-> [doc |-> q.doc, mesh |-> s.mesh], op |-> [kind |-> "remove", steps |-> << q.op >>]]

(* An operation with one step runs as that step.                            *)
LEMMA RemovalRuns ==
  ASSUME NEW s, GoodState(s), s.doc.fault = "none", NEW r \in RemovalStep,
         NEW op, op = [kind |-> "remove", steps |-> << r >>]
  PROVE  /\ ExecuteRemoval(s, op) = Returned(s, ExecuteRemove(s.doc, r))
         /\ UndoRemoval(s, op) = Returned(s, UndoInsertRemove(s.doc, r))
<1>1. Good(s.doc) /\ s = [doc |-> s.doc, mesh |-> s.mesh]
  BY DEF GoodState
<1>2. r.kind = "remove"
  BY RemovalRecord
<1>3. op.steps = << r >>
  OBVIOUS
<1>4. ExecuteRemoval(s, op) = Returned(s, ExecuteRemove(s.doc, r))
  <2>1. PICK q : q = ExecuteRemove(s.doc, r)
    OBVIOUS
  <2>3. ExecuteStep(s.doc, r) = q
    BY <1>2, <2>1 DEF ExecuteStep
  <2>4. Execute(s.doc, << r >>) = Done(q.doc, << q.op >>)
    BY <2>3, OneStepRuns
  <2>5. PICK e : e = Execute(s.doc, op.steps)
    OBVIOUS
  <2>6. e.doc = q.doc /\ e.op = << q.op >>
    BY <1>3, <2>4, <2>5 DEF Done
  <2>7. ExecuteRemoval(s, op) = [state |-> [s EXCEPT !.doc = e.doc], op |-> [op EXCEPT !.steps = e.op]]
    BY <2>5 DEF ExecuteRemoval
  <2>8. [s EXCEPT !.doc = e.doc] = [doc |-> q.doc, mesh |-> s.mesh]
    BY <1>1, <2>6
  <2>9. [op EXCEPT !.steps = e.op] = [kind |-> "remove", steps |-> << q.op >>]
    BY <2>6
  <2> QED BY <2>1, <2>7, <2>8, <2>9 DEF Returned
<1>5. UndoRemoval(s, op) = Returned(s, UndoInsertRemove(s.doc, r))
  <2>1. PICK q : q = UndoInsertRemove(s.doc, r)
    OBVIOUS
  <2>3. UndoStep(s.doc, r) = q
    BY <1>2, <2>1 DEF UndoStep
  <2>4. Undo(s.doc, << r >>) = Done(q.doc, << q.op >>)
    BY <2>3, OneStepUnruns
  <2>5. PICK e : e = Undo(s.doc, op.steps)
    OBVIOUS
  <2>6. e.doc = q.doc /\ e.op = << q.op >>
    BY <1>3, <2>4, <2>5 DEF Done
  <2>7. UndoRemoval(s, op) = [state |-> [s EXCEPT !.doc = e.doc], op |-> [op EXCEPT !.steps = e.op]]
    BY <2>5 DEF UndoRemoval
  <2>8. [s EXCEPT !.doc = e.doc] = [doc |-> q.doc, mesh |-> s.mesh]
    BY <1>1, <2>6
  <2>9. [op EXCEPT !.steps = e.op] = [kind |-> "remove", steps |-> << q.op >>]
    BY <2>6
  <2> QED BY <2>1, <2>7, <2>8, <2>9 DEF Returned
<1> QED BY <1>4, <1>5

(* What any operation returns: a sound state and itself, as it is then. *)
ReturnsWell(r) == GoodState(r.state) /\ r.op \in Ops

(* Each operation keeps a state well formed, and itself.                    *)
LEMMA OpKinds ==
  ASSUME NEW op \in Ops
  PROVE  \/ op \in MeshOps /\ op.kind \in {"edit", "merge"}
         \/ op.kind = "remove" /\ \E r \in RemovalStep : op = [kind |-> "remove", steps |-> << r >>]
BY DEF Ops, MeshOps, RemovalOps

LEMMA AnyGood ==
  ASSUME NEW s, GoodState(s), s.doc.fault = "none", NEW op \in Ops
  PROVE  ReturnsWell(ExecuteAny(s, op)) /\ ReturnsWell(UndoAny(s, op))
<1>1. CASE op \in MeshOps /\ op.kind = "edit"
  <2>1. /\ ExecuteAny(s, op) = [state |-> ExecuteEdit(s, op), op |-> op]
        /\ UndoAny(s, op) = [state |-> UndoEdit(s, op), op |-> op]
    BY <1>1 DEF ExecuteAny, UndoAny
  <2> QED BY <1>1, <2>1, EditGood DEF ReturnsWell
<1>2. CASE op \in MeshOps /\ op.kind = "merge"
  <2>1. /\ ExecuteAny(s, op) = [state |-> ExecuteMerge(s, op), op |-> op]
        /\ UndoAny(s, op) = [state |-> UndoMerge(s, op), op |-> op]
    BY <1>2 DEF ExecuteAny, UndoAny
  <2> QED BY <1>2, <2>1, MergeGood DEF ReturnsWell
<1>3. ASSUME NEW r \in RemovalStep, op = [kind |-> "remove", steps |-> << r >>]
      PROVE  ReturnsWell(ExecuteAny(s, op)) /\ ReturnsWell(UndoAny(s, op))
  <2>1. ExecuteAny(s, op) = ExecuteRemoval(s, op) /\ UndoAny(s, op) = UndoRemoval(s, op)
    BY <1>3 DEF ExecuteAny, UndoAny
  <2>2. PICK q : q = ExecuteRemove(s.doc, r)
    OBVIOUS
  <2>3. PICK u : u = UndoInsertRemove(s.doc, r)
    OBVIOUS
  <2>6. Good(s.doc)
    BY DEF GoodState
  <2>7. RunsWell(s.doc, r, q) /\ RunsWell(s.doc, r, u)
    BY <2>2, <2>3, <2>6, RemoveGood, UnremoveGood
  <2>8. ExecuteAny(s, op) = Returned(s, q) /\ UndoAny(s, op) = Returned(s, u)
    BY <1>3, <2>1, <2>2, <2>3, RemovalRuns
  <2>4. ReturnsWell(ExecuteAny(s, op))
    BY <2>7, <2>8 DEF ReturnsWell, Returned, RunsWell, GoodState, Ops, RemovalOps
  <2>5. ReturnsWell(UndoAny(s, op))
    BY <2>7, <2>8 DEF ReturnsWell, Returned, RunsWell, GoodState, Ops, RemovalOps
  <2> QED BY <2>4, <2>5
<1> QED BY <1>1, <1>2, <1>3, OpKinds

(* An operation that needs no lock takes nothing out of the scene. *)
LEMMA UnlockedKeepsScene ==
  ASSUME Good(doc), mesh \in [HasMesh -> Content], Alive, NEW op \in Ops, ~NeedsLock(op)
  PROVE  /\ InScene(doc.tree) \subseteq InScene(ExecuteAny(State, op).state.doc.tree)
         /\ InScene(doc.tree) \subseteq InScene(UndoAny(State, op).state.doc.tree)
<1>0. PICK s : s = State
  OBVIOUS
<1>1. GoodState(s) /\ s.doc = doc /\ s.doc.fault = "none"
  BY <1>0 DEF GoodState, State, Alive
<1>2. CASE op.kind = "edit"
  <2>1. ~Hosted(s, op)
    BY <1>0, <1>2 DEF NeedsLock
  <2>2. /\ ExecuteAny(s, op).state = Failed(s, "verify")
        /\ UndoAny(s, op).state = Failed(s, "verify")
    BY <1>2, <2>1 DEF ExecuteAny, UndoAny, ExecuteEdit, UndoEdit
  <2>3. Failed(s, "verify").doc.tree = doc.tree
    BY <1>1, FailedGood DEF Fault
  <2> QED BY <1>0, <2>2, <2>3
<1>3. CASE op.kind = "merge"
  <2>1. ~Hosted(s, op)
    BY <1>0, <1>3 DEF NeedsLock
  <2>2. ExecuteAny(s, op).state = s /\ UndoAny(s, op).state = s
    BY <1>3, <2>1 DEF ExecuteAny, UndoAny, ExecuteMerge, UndoMerge
  <2> QED BY <1>0, <1>1, <2>2
<1>4. ASSUME NEW r \in RemovalStep, op = [kind |-> "remove", steps |-> << r >>]
      PROVE  /\ InScene(doc.tree) \subseteq InScene(ExecuteAny(State, op).state.doc.tree)
             /\ InScene(doc.tree) \subseteq InScene(UndoAny(State, op).state.doc.tree)
  <2>1. ExecuteAny(s, op) = ExecuteRemoval(s, op) /\ UndoAny(s, op) = UndoRemoval(s, op)
    BY <1>4 DEF ExecuteAny, UndoAny
  <2>2. PICK q : q = ExecuteRemove(s.doc, r)
    OBVIOUS
  <2>3. PICK u : u = UndoInsertRemove(s.doc, r)
    OBVIOUS
  <2>6. RunsWell(s.doc, r, q) /\ RunsWell(s.doc, r, u)
    BY <1>1, <2>2, <2>3, RemoveGood, UnremoveGood
  <2>7. ExecuteAny(s, op) = Returned(s, q) /\ UndoAny(s, op) = Returned(s, u)
    BY <1>1, <1>4, <2>1, <2>2, <2>3, RemovalRuns
  <2>4. r.item \notin InScene(doc.tree)
    BY <1>4 DEF NeedsLock
  <2>5. /\ ExecuteAny(s, op).state.doc = q.doc /\ UndoAny(s, op).state.doc = u.doc
    BY <2>7 DEF Returned
  <2> QED BY <1>0, <1>1, <2>4, <2>5, <2>6 DEF RunsWell
<1> QED BY <1>2, <1>3, <1>4, OpKinds

-----------------------------------------------------------------------------
(* The types, with what makes them inductive: the tree is sound, a job that  *)
(* has started has an operation, and operations have the parts they need.   *)
JobRecord == [phase : Phase, kind : {"edit", "merge"}, operation : MeshOps \cup {Nothing}]

JobsTyped ==
  /\ job \in [Click -> JobRecord]
  /\ \A c \in Click : job[c].phase \in {"reading", "pushing", "torn"} => job[c].operation \in MeshOps

PassTyped ==
  /\ pass = [at |-> pass.at, end |-> pass.end] /\ pass.at \in Nat /\ pass.end \in Nat
  /\ pass.at <= pass.end + 1 /\ pass.end <= Len(queued)

TypedInv ==
  /\ Good(doc) /\ mesh \in [HasMesh -> Content]
  /\ JobsTyped
  /\ queued \in Seq(Ops) /\ executed \in Seq(Ops) /\ undone \in Seq(Ops)
  /\ PassTyped
  /\ calm \in BOOLEAN

(* The first state, and the changes of one job or all jobs.                 *)
LEMMA StateIsGood ==
  ASSUME Good(doc), mesh \in [HasMesh -> Content]
  PROVE  GoodState(State) /\ State.doc = doc /\ State.mesh = mesh
BY DEF State, GoodState

LEMMA ContentOne ==
  ASSUME NEW x \in HasMesh
  PROVE  << x >> \in Content
<1>1. x \in Item \cup Click
  BY HasMeshAssumption
<1> QED BY <1>1 DEF Content

LEMMA TypedInit ==
  ASSUME Init
  PROVE  TypedInv
<1>1. PICK t \in InitialTrees : doc = [tree |-> t, selection |-> {}, fault |-> "none"]
  BY DEF Init
<1>2. Sane(t)
  BY InitialTreesAssumption DEF Sane, Consistent
<1>3. Good(doc)
  BY <1>1, <1>2 DEF Good, Document, Fault, Sane, Consistent
<1>4. mesh \in [HasMesh -> Content]
  BY ContentOne DEF Init
<1>5. job \in [Click -> JobRecord] /\ \A c \in Click : job[c].phase = "none"
  BY DEF Init, Job, JobRecord, Phase
<1>6. JobsTyped
  BY <1>5 DEF JobsTyped
<1>7. queued = << >> /\ executed = << >> /\ undone = << >> /\ pass = Idle /\ calm = TRUE
  BY DEF Init
<1>8. PassTyped
  BY <1>7 DEF PassTyped, Idle
<1> QED BY <1>3, <1>4, <1>6, <1>7, <1>8 DEF TypedInv

LEMMA TornTyped ==
  ASSUME JobsTyped, job' = Torn
  PROVE  JobsTyped'
<1>1. ASSUME NEW c \in Click
      PROVE  /\ job'[c] \in JobRecord
             /\ job'[c].phase \in {"reading", "pushing", "torn"} => job'[c].operation \in MeshOps
  <2>1. job'[c] = Job(TornPhase(job[c].phase), job[c].kind, job[c].operation)
    BY DEF Torn
  <2>2. job[c] \in JobRecord
    BY DEF JobsTyped
  <2> QED BY <2>1, <2>2 DEF Job, TornPhase, JobRecord, Phase, JobsTyped
<1> QED BY <1>1 DEF JobsTyped, Torn

LEMMA OneJobTyped ==
  ASSUME JobsTyped, NEW c \in Click, NEW p \in Phase, NEW k \in {"edit", "merge"},
         NEW op \in MeshOps \cup {Nothing}, p \in {"reading", "pushing", "torn"} => op \in MeshOps,
         NEW J, J = job \/ J = Torn, job' = [J EXCEPT ![c] = Job(p, k, op)]
  PROVE  JobsTyped'
<1>1. /\ J \in [Click -> JobRecord]
      /\ \A d \in Click : J[d].phase \in {"reading", "pushing", "torn"} => J[d].operation \in MeshOps
  <2>1. CASE J = job
    BY <2>1 DEF JobsTyped
  <2>2. CASE J = Torn
    <3>1. ASSUME NEW d \in Click
          PROVE  /\ J[d] \in JobRecord
                 /\ J[d].phase \in {"reading", "pushing", "torn"} => J[d].operation \in MeshOps
      <4>1. J[d] = Job(TornPhase(job[d].phase), job[d].kind, job[d].operation)
        BY <2>2 DEF Torn
      <4>2. job[d] \in JobRecord
        BY DEF JobsTyped
      <4> QED BY <4>1, <4>2 DEF Job, TornPhase, JobRecord, Phase, JobsTyped
    <3> QED BY <2>2, <3>1 DEF Torn
  <2> QED BY <2>1, <2>2
<1>2. Job(p, k, op) \in JobRecord /\ Job(p, k, op).phase = p /\ Job(p, k, op).operation = op
  BY DEF Job, JobRecord
<1>3. job' \in [Click -> JobRecord]
  BY <1>1, <1>2
<1>4. ASSUME NEW d \in Click, job'[d].phase \in {"reading", "pushing", "torn"}
      PROVE  job'[d].operation \in MeshOps
  <2>1. CASE d = c
    BY <1>1, <1>2, <1>4, <2>1
  <2>2. CASE d # c
    BY <1>1, <1>4, <2>2
  <2> QED BY <2>1, <2>2
<1> QED BY <1>3, <1>4 DEF JobsTyped

(* The selected nodes that have a mesh, one after another. *)
MeshTrail(R, n, order) ==
  /\ R[0] = << >>
  /\ \A k \in 1 .. n : R[k] = IF order[k] \in HasMesh THEN Append(R[k - 1], order[k]) ELSE R[k - 1]

LEMMA MeshesGoAlong ==
  ASSUME NEW order, NEW n \in Nat, DOMAIN order = 1 .. n
  PROVE  \E R : MeshTrail(R, n, order) /\ WithMesh(order) = R[n]
<1> DEFINE Run(a, k) == IF order[k] \in HasMesh THEN Append(a, order[k]) ELSE a
           Body(g, s) == IF s = {} THEN << >>
                         ELSE LET x == Max(s) IN Run(g[s \ {x}], x)
           Part(m, g) == g = [s \in SUBSET (1 .. m) |-> Body(g, s)]
           iter == CHOOSE g : g = [s \in SUBSET (1 .. n) |-> Body(g, s)]
           P == {m \in Nat : \E g : Part(m, g)}
<1>1. WithMesh(order) = iter[1 .. n]
  BY DEF WithMesh, FoldLeft, MapThenFoldSet
<1> HIDE DEF Run
<1>13. ASSUME NEW k \in Nat, NEW s \in SUBSET (1 .. k), k \in s PROVE Max(s) = k
  <2>1. k \in s /\ \A y \in s : k >= y
    BY <1>13
  <2>2. \A x \in s : x \in Int
    OBVIOUS
  <2>3. \A x \in s : (\A y \in s : x >= y) => x = k
    BY <2>1, <2>2
  <2>4. PICK z : z = Max(s)
    OBVIOUS
  <2>5. z \in s /\ \A y \in s : z >= y
    BY <2>1, <2>4 DEF Max
  <2> QED BY <2>3, <2>4, <2>5
<1>2. 0 \in P
  <2> DEFINE g == [s \in SUBSET (1 .. 0) |-> << >>]
  <2>2. ASSUME NEW s \in SUBSET (1 .. 0) PROVE g[s] = Body(g, s)
    <3>1. s = {}
      OBVIOUS
    <3> QED BY <3>1
  <2>3. g = [s \in SUBSET (1 .. 0) |-> g[s]]
    OBVIOUS
  <2> HIDE DEF g, Body
  <2>1. Part(0, g)
    BY <2>2, <2>3, Zenon
  <2> HIDE DEF Part
  <2> QED BY <2>1
<1>3. ASSUME NEW m \in P PROVE m + 1 \in P
  <2>1. m \in Nat /\ \E g : Part(m, g)
    OBVIOUS
  <2>2. PICK g : Part(m, g)
    BY <2>1
  <2> DEFINE h == [s \in SUBSET (1 .. m + 1) |->
                     IF m + 1 \in s THEN Run(g[s \ {m + 1}], m + 1) ELSE g[s]]
  <2>3. ASSUME NEW s \in SUBSET (1 .. m + 1) PROVE h[s] = Body(h, s)
    <3>1. CASE m + 1 \in s
      <4>1. s # {} /\ Max(s) = m + 1
        BY <1>13, <2>1, <3>1, m + 1 \in Nat
      <4>2. s \ {m + 1} \in SUBSET (1 .. m + 1) /\ m + 1 \notin s \ {m + 1}
        OBVIOUS
      <4>3. h[s \ {m + 1}] = g[s \ {m + 1}]
        BY <4>2
      <4>4. h[s] = Run(g[s \ {m + 1}], m + 1)
        BY <3>1
      <4> HIDE DEF h
      <4> QED BY <4>1, <4>3, <4>4
    <3>2. CASE m + 1 \notin s
      <4>1. s \in SUBSET (1 .. m)
        BY <2>1, <3>2
      <4>2. h[s] = g[s]
        BY <3>2
      <4>3. g[s] = Body(g, s)
        <5> HIDE DEF Body
        <5> QED BY <2>2, <4>1
      <4>5. ASSUME NEW x PROVE h[s \ {x}] = g[s \ {x}]
        <5>1. s \ {x} \in SUBSET (1 .. m + 1) /\ m + 1 \notin s \ {x}
          BY <3>2
        <5> QED BY <5>1
      <4> HIDE DEF h
      <4> QED BY <4>2, <4>3, <4>5
    <3> QED BY <3>1, <3>2
  <2>4. h = [s \in SUBSET (1 .. m + 1) |-> h[s]]
    OBVIOUS
  <2> HIDE DEF h, Body
  <2>5. Part(m + 1, h)
    BY <2>3, <2>4, Zenon
  <2> HIDE DEF Part
  <2> QED BY <2>1, <2>5
<1>4. P \in SUBSET Nat
  OBVIOUS
<1> HIDE DEF P
<1>5. P = Nat
  BY <1>2, <1>3, <1>4, NatSetInduction
<1>6. \E g : Part(n, g)
  BY <1>5 DEF P
<1>7. iter = [s \in SUBSET (1 .. n) |-> Body(iter, s)]
  <2> HIDE DEF Body
  <2> QED BY <1>6, Zenon
<1> HIDE DEF iter, Body
<1>8. ASSUME NEW s \in SUBSET (1 .. n) PROVE iter[s] = Body(iter, s)
  BY <1>7, Zenon
<1> DEFINE R == [k \in 0 .. n |-> iter[1 .. k]]
<1>9. R[0] = << >>
  <2>1. {} \in SUBSET (1 .. n) /\ 1 .. 0 = {}
    OBVIOUS
  <2>2. iter[{}] = Body(iter, {})
    BY <1>8, <2>1
  <2>3. iter[{}] = << >>
    BY <2>2 DEF Body
  <2> QED BY <2>1, <2>3
<1>10. ASSUME NEW k \in 1 .. n PROVE R[k] = Run(R[k - 1], k)
  <2>1. PICK j \in Nat : k = j + 1
    BY k - 1 \in Nat
  <2>5. k \in Nat /\ k \in 1 .. k /\ 1 .. k \in SUBSET (1 .. k)
    OBVIOUS
  <2>6. Max(1 .. k) = k
    BY <1>13, <2>5
  <2>9. \A i \in 1 .. k : i \in 1 .. n
    BY <2>5
  <2>7. 1 .. k \in SUBSET (1 .. n) /\ 1 .. k # {}
    BY <2>5, <2>9
  <2>8. (1 .. k) \ {k} = 1 .. k - 1
    OBVIOUS
  <2>2. /\ 1 .. k \in SUBSET (1 .. n) /\ 1 .. k # {} /\ Max(1 .. k) = k
        /\ (1 .. k) \ {k} = 1 .. k - 1
    BY <2>6, <2>7, <2>8
  <2>3. R[k] = iter[1 .. k] /\ R[k - 1] = iter[1 .. k - 1]
    OBVIOUS
  <2>4. iter[1 .. k] = Run(iter[1 .. k - 1], k)
    <3>1. iter[1 .. k] = Body(iter, 1 .. k)
      BY <1>8, <2>2
    <3> QED BY <2>2, <3>1 DEF Body
  <2> QED BY <2>3, <2>4
<1>14. R[n] = iter[1 .. n]
  OBVIOUS
<1> HIDE DEF R
<1>11. MeshTrail(R, n, order)
  BY <1>9, <1>10 DEF MeshTrail, Run
<1> QED BY <1>1, <1>11, <1>14

(* The places of the nodes in the selection, in that order. *)
Picks(s, order, n) ==
  /\ s \in Seq(HasMesh)
  /\ \A i \in 1 .. Len(s) : \E a \in 1 .. n : s[i] = order[a]
  /\ \A a \in 1 .. n : order[a] \in HasMesh => \E i \in 1 .. Len(s) : s[i] = order[a]
  /\ \A i, j \in 1 .. Len(s) : i < j => \E a, b \in 1 .. n : a < b /\ s[i] = order[a] /\ s[j] = order[b]

LEMMA PicksNone ==
  ASSUME NEW order
  PROVE  Picks(<< >>, order, 0)
<1>1. << >> \in Seq(HasMesh) /\ 1 .. Len(<< >>) = {} /\ 1 .. 0 = {}
  OBVIOUS
<1> QED BY <1>1 DEF Picks

LEMMA PicksOn ==
  ASSUME NEW order, NEW n \in Nat, NEW s, Picks(s, order, n), order[n + 1] \notin HasMesh
  PROVE  Picks(s, order, n + 1)
<1>1. \A a \in 1 .. n : a \in 1 .. n + 1
  OBVIOUS
<1>2. \A a \in 1 .. n + 1 : a \in 1 .. n \/ a = n + 1
  OBVIOUS
<1> QED BY <1>1, <1>2 DEF Picks

LEMMA PicksOne ==
  ASSUME NEW order, NEW n \in Nat, NEW s, Picks(s, order, n), order[n + 1] \in HasMesh
  PROVE  Picks(Append(s, order[n + 1]), order, n + 1)
<1>1. PICK u : u = Append(s, order[n + 1])
  OBVIOUS
<1>2. s \in Seq(HasMesh)
  BY DEF Picks
<1>3. PICK m \in Nat : m = Len(s)
  BY <1>2, LenProperties
<1>4. /\ u \in Seq(HasMesh) /\ Len(u) = m + 1 /\ u[m + 1] = order[n + 1]
      /\ \A i \in 1 .. m : u[i] = s[i]
  BY <1>1, <1>2, <1>3
<1>5. \A a \in 1 .. n : a \in 1 .. n + 1 /\ a < n + 1
  OBVIOUS
<1>6. n + 1 \in 1 .. n + 1 /\ m + 1 \in 1 .. m + 1
  OBVIOUS
<1>7. \A i \in 1 .. m + 1 : i \in 1 .. m \/ i = m + 1
  BY <1>3
<1>8. \A a \in 1 .. n + 1 : a \in 1 .. n \/ a = n + 1
  OBVIOUS
<1>9. /\ \A i \in 1 .. m : \E a \in 1 .. n : s[i] = order[a]
      /\ \A a \in 1 .. n : order[a] \in HasMesh => \E i \in 1 .. m : s[i] = order[a]
      /\ \A i, j \in 1 .. m : i < j => \E a, b \in 1 .. n : a < b /\ s[i] = order[a] /\ s[j] = order[b]
  BY <1>3 DEF Picks
<1>10. ASSUME NEW i \in 1 .. m + 1 PROVE \E a \in 1 .. n + 1 : u[i] = order[a]
  <2>1. CASE i \in 1 .. m
    <3>1. PICK a \in 1 .. n : s[i] = order[a]
      BY <1>9, <2>1
    <3>2. a \in 1 .. n + 1 /\ u[i] = order[a]
      BY <1>4, <1>5, <2>1, <3>1
    <3> QED BY <3>2
  <2>2. CASE i = m + 1
    BY <1>4, <1>6, <2>2
  <2> QED BY <1>7, <2>1, <2>2
<1>11. ASSUME NEW a \in 1 .. n + 1, order[a] \in HasMesh PROVE \E i \in 1 .. m + 1 : u[i] = order[a]
  <2>1. CASE a \in 1 .. n
    <3>1. PICK i \in 1 .. m : s[i] = order[a]
      BY <1>9, <1>11, <2>1
    <3>2. i \in 1 .. m + 1 /\ u[i] = order[a]
      BY <1>4, <3>1
    <3> QED BY <3>2
  <2>2. CASE a = n + 1
    BY <1>4, <1>6, <2>2
  <2> QED BY <1>8, <2>1, <2>2
<1>12. ASSUME NEW i \in 1 .. m + 1, NEW j \in 1 .. m + 1, i < j
       PROVE  \E a, b \in 1 .. n + 1 : a < b /\ u[i] = order[a] /\ u[j] = order[b]
  <2>1. i \in 1 .. m
    BY <1>12
  <2>2. CASE j \in 1 .. m
    <3>1. PICK a \in 1 .. n, b \in 1 .. n : a < b /\ s[i] = order[a] /\ s[j] = order[b]
      BY <1>9, <1>12, <2>1, <2>2
    <3> QED BY <1>4, <1>5, <2>1, <2>2, <3>1
  <2>3. CASE j = m + 1
    <3>1. PICK a \in 1 .. n : s[i] = order[a]
      BY <1>9, <2>1
    <3>2. a \in 1 .. n + 1 /\ a < n + 1 /\ n + 1 \in 1 .. n + 1
      BY <3>1
    <3>3. u[i] = order[a] /\ u[j] = order[n + 1]
      BY <1>4, <2>1, <2>3, <3>1
    <3> QED BY <3>2, <3>3
  <2> QED BY <1>7, <2>2, <2>3
<1>13. Picks(u, order, n + 1)
  BY <1>4, <1>10, <1>11, <1>12 DEF Picks
<1> QED BY <1>1, <1>13

LEMMA WithMeshPicks ==
  ASSUME NEW order, NEW n \in Nat, DOMAIN order = 1 .. n
  PROVE  Picks(WithMesh(order), order, n)
<1>1. PICK R : MeshTrail(R, n, order) /\ WithMesh(order) = R[n]
  BY MeshesGoAlong
<1> DEFINE P == {k \in Nat : k \in 0 .. n => Picks(R[k], order, k)}
<1>2. 0 \in P
  <2>1. R[0] = << >>
    BY <1>1 DEF MeshTrail
  <2> QED BY <2>1, PicksNone
<1>3. ASSUME NEW k \in P PROVE k + 1 \in P
  <2>1. k \in Nat /\ (k \in 0 .. n => Picks(R[k], order, k))
    OBVIOUS
  <2>2. ASSUME k + 1 \in 0 .. n PROVE Picks(R[k + 1], order, k + 1)
    <3>1. k + 1 \in 1 .. n /\ (k + 1) - 1 = k /\ Picks(R[k], order, k)
      BY <2>1, <2>2
    <3>2. R[k + 1] = IF order[k + 1] \in HasMesh THEN Append(R[k], order[k + 1]) ELSE R[k]
      BY <1>1, <3>1 DEF MeshTrail
    <3> QED BY <2>1, <3>1, <3>2, PicksOn, PicksOne
  <2> QED BY <2>1, <2>2
<1>4. P \in SUBSET Nat
  OBVIOUS
<1> HIDE DEF P
<1>5. n \in P
  BY <1>2, <1>3, <1>4, NatSetInduction
<1> QED BY <1>1, <1>5 DEF P

(* What a job makes of the selection: entries of nodes with a mesh. *)
LEMMA OrdersTyped ==
  ASSUME Good(doc), NEW order \in Orders
  PROVE  /\ order \in Seq(Item) /\ DOMAIN order = 1 .. Len(order) /\ Len(order) \in Nat
         /\ Injective(order) /\ ToSet(order) = doc.selection
<1>1. doc.selection \in SUBSET Item
  BY GoodTree
<1>2. IsFiniteSet(doc.selection)
  BY <1>1, ItemsAssumption, FS_Subset
<1>3. order \in SetToSeqs(doc.selection)
  BY DEF Orders
<1>4. order \in Seq(doc.selection) /\ Injective(order) /\ ToSet(order) = doc.selection
  BY <1>2, <1>3, SetToSeqsFacts
<1>5. order \in Seq(Item)
  BY <1>1, <1>4
<1> QED BY <1>4, <1>5, LenProperties

(* What make_entries() and Merge_operation() build.                         *)
LEMMA EntryForTyped ==
  ASSUME Good(doc), mesh \in [HasMesh -> Content], NEW x \in HasMesh, NEW after \in Content
  PROVE  EntryFor(x, after) \in MeshEntry
<1>1. doc.tree.parent \in [Item -> ItemOrNone]
  BY GoodTree
<1>2. x \in Item
  BY HasMeshAssumption
<1> QED BY <1>1, <1>2 DEF EntryFor, MeshEntry, Entry

LEMMA EditEntriesTyped ==
  ASSUME Good(doc), mesh \in [HasMesh -> Content], NEW order \in Orders, NEW c \in Click
  PROVE  EditEntries(c, order) \in Seq(MeshEntry)
<1>1. PICK s : s = WithMesh(order)
  OBVIOUS
<1>2. s \in Seq(HasMesh)
  BY <1>1, OrdersTyped, WithMeshPicks DEF Picks
<1>3. PICK n \in Nat : n = Len(s) /\ DOMAIN s = 1 .. n /\ \A i \in 1 .. n : s[i] \in HasMesh
  BY <1>2, LenProperties
<1>4. ASSUME NEW i \in 1 .. n PROVE EntryFor(s[i], Append(mesh[s[i]], c)) \in MeshEntry
  <2>1. mesh[s[i]] \in Seq(Item \cup Click)
    BY <1>3 DEF Content
  <2>2. Append(mesh[s[i]], c) \in Content
    BY <2>1 DEF Content
  <2> QED BY <1>3, <2>2, EntryForTyped
<1>5. EditEntries(c, order) = [i \in 1 .. n |-> EntryFor(s[i], Append(mesh[s[i]], c))]
  BY <1>1, <1>3 DEF EditEntries
<1> QED BY <1>4, <1>5

LEMMA MergeEntriesTyped ==
  ASSUME Good(doc), mesh \in [HasMesh -> Content], NEW order \in Orders, NEW c \in Click
  PROVE  MergeEntries(c, order) \in Seq(MeshEntry)
<1>1. PICK s : s = WithMesh(order)
  OBVIOUS
<1>2. s \in Seq(HasMesh)
  BY <1>1, OrdersTyped, WithMeshPicks DEF Picks
<1>3. PICK n \in Nat : n = Len(s) /\ DOMAIN s = 1 .. n /\ \A i \in 1 .. n : s[i] \in HasMesh
  BY <1>2, LenProperties
<1>4. PICK ss : ss = [i \in 1 .. n |-> mesh[s[i]]]
  OBVIOUS
<1>5. PICK all : all = FlattenSeq(ss)
  OBVIOUS
<1>6. all \in Seq(Item \cup Click)
  <2>1. \A i \in 1 .. n : mesh[s[i]] \in Seq(Item \cup Click)
    BY <1>3 DEF Content
  <2>2. ss \in Seq(Seq(Item \cup Click))
    BY <1>4, <2>1
  <2> QED BY <1>5, <2>2, FlattenSeqType
<1>7. ASSUME NEW i \in 1 .. n
      PROVE  EntryFor(s[i], IF i = 1 THEN Append(all, c) ELSE mesh[s[i]]) \in MeshEntry
  <2>1. Append(all, c) \in Content
    BY <1>6 DEF Content
  <2>2. mesh[s[i]] \in Content
    BY <1>3
  <2>3. (IF i = 1 THEN Append(all, c) ELSE mesh[s[i]]) \in Content
    BY <2>1, <2>2
  <2> QED BY <1>3, <2>3, EntryForTyped
<1>8. MergeEntries(c, order) =
        IF Len(s) < 2 THEN << >>
        ELSE [i \in 1 .. n |-> EntryFor(s[i], IF i = 1 THEN Append(all, c) ELSE mesh[s[i]])]
  BY <1>1, <1>3, <1>4, <1>5 DEF MergeEntries
<1>9. << >> \in Seq(MeshEntry)
  OBVIOUS
<1> QED BY <1>7, <1>8, <1>9

-----------------------------------------------------------------------------
(* Every action keeps what makes the types inductive.                       *)
LEMMA JobFields ==
  ASSUME JobsTyped, NEW c \in Click
  PROVE  /\ job[c].phase \in Phase /\ job[c].kind \in {"edit", "merge"}
         /\ job[c].operation \in MeshOps \cup {Nothing}
         /\ job[c].phase \in {"reading", "pushing", "torn"} => job[c].operation \in MeshOps
<1>1. job[c] \in JobRecord
  BY DEF JobsTyped
<1> QED BY <1>1 DEF JobRecord, JobsTyped

LEMMA SelectTyped ==
  ASSUME TypedInv, NEW S \in SUBSET Item, Select(S)
  PROVE  TypedInv'
<1>1. Good(doc')
  <2>1. "race" \in Fault
    BY DEF Fault
  <2>2. Good([doc EXCEPT !.selection = S]) /\ Good(FailWith(doc, "race"))
    BY <2>1, SelectGood, FailGood DEF TypedInv
  <2> QED BY <2>2 DEF Select
<1>2. JobsTyped' /\ PassTyped'
  BY DEF Select, TypedInv, JobsTyped, PassTyped
<1>3. calm' \in BOOLEAN
  BY DEF Select
<1> QED BY <1>1, <1>2, <1>3 DEF Select, TypedInv

LEMMA AskTyped ==
  ASSUME TypedInv, NEW c \in Click, NEW kind \in {"edit", "merge"}, Ask(c, kind)
  PROVE  TypedInv'
<1>1. JobsTyped'
  <2>1. job[c].operation \in MeshOps \cup {Nothing}
    BY JobFields DEF TypedInv
  <2>2. job' = [job EXCEPT ![c] = Job("asked", kind, job[c].operation)]
    BY DEF Ask
  <2>3. "asked" \in Phase
    BY DEF Phase
  <2> QED BY <2>1, <2>2, <2>3, OneJobTyped DEF TypedInv
<1>2. PassTyped'
  BY DEF Ask, TypedInv, PassTyped
<1>3. calm' \in BOOLEAN
  BY DEF Ask
<1> QED BY <1>1, <1>2, <1>3 DEF Ask, TypedInv

LEMMA RemoveOneTyped ==
  ASSUME TypedInv, NEW x \in Item, RemoveOne(x)
  PROVE  TypedInv'
<1>1. Removal(doc, x) \in RemovalStep
  <2>1. doc.selection \in SUBSET Item
    BY GoodTree DEF TypedInv
  <2>2. Removal(doc, x) \in InsertRemoveStep
    BY <2>1 DEF Removal, InsertRemoveStep, ItemOrNone
  <2>3. Removal(doc, x).kind = "remove" /\ Removal(doc, x).changes = << >>
    BY DEF Removal
  <2>4. << >> \in Seq(Change(Removal(doc, x).item, Removal(doc, x).from))
    OBVIOUS
  <2> QED BY <2>2, <2>3, <2>4 DEF RemovalStep
<1>2. [kind |-> "remove", steps |-> << Removal(doc, x) >>] \in Ops
  BY <1>1 DEF Ops, RemovalOps
<1>3. queued' \in Seq(Ops) /\ Len(queued') = Len(queued) + 1
  BY <1>2 DEF RemoveOne, TypedInv
<1>4. JobsTyped'
  BY TornTyped DEF RemoveOne, TypedInv
<1>5. Len(queued) \in Nat
  BY LenProperties DEF TypedInv
<1>6. PassTyped'
  BY <1>3, <1>5 DEF RemoveOne, TypedInv, PassTyped
<1>7. calm' \in BOOLEAN
  BY DEF RemoveOne
<1> QED BY <1>3, <1>4, <1>6, <1>7 DEF RemoveOne, TypedInv

LEMMA LastFront ==
  ASSUME NEW X, NEW s \in Seq(X), s # << >>
  PROVE  Last(s) \in X /\ Front(s) \in Seq(X)
BY DEF Last, Front

LEMMA UndoTyped ==
  ASSUME TypedInv, UndoCommand
  PROVE  TypedInv'
<1>1. PICK r : r = UndoAny(State, Last(executed))
  OBVIOUS
<1>2. Last(executed) \in Ops /\ Front(executed) \in Seq(Ops)
  BY LastFront DEF UndoCommand, TypedInv
<1>3. ReturnsWell(r)
  BY <1>1, <1>2, StateIsGood, AnyGood DEF UndoCommand, Command, Alive, TypedInv
<1>4. Good(r.state.doc) /\ r.state.mesh \in [HasMesh -> Content] /\ r.op \in Ops
  BY <1>3 DEF ReturnsWell, GoodState
<1>5. doc' = r.state.doc /\ mesh' = r.state.mesh /\ undone' = Append(undone, r.op)
  BY <1>1 DEF UndoCommand
<1>6. JobsTyped' /\ PassTyped'
  BY DEF UndoCommand, TypedInv, JobsTyped, PassTyped
<1>7. calm' \in BOOLEAN
  BY DEF UndoCommand
<1>8. undone' \in Seq(Ops) /\ executed' \in Seq(Ops) /\ queued' = queued
  BY <1>2, <1>4, <1>5 DEF UndoCommand, TypedInv
<1> QED BY <1>4, <1>5, <1>6, <1>7, <1>8 DEF TypedInv

LEMMA RedoTyped ==
  ASSUME TypedInv, RedoCommand
  PROVE  TypedInv'
<1>1. PICK r : r = ExecuteAny(State, Last(undone))
  OBVIOUS
<1>2. Last(undone) \in Ops /\ Front(undone) \in Seq(Ops)
  BY LastFront DEF RedoCommand, TypedInv
<1>3. ReturnsWell(r)
  BY <1>1, <1>2, StateIsGood, AnyGood DEF RedoCommand, Command, Alive, TypedInv
<1>4. Good(r.state.doc) /\ r.state.mesh \in [HasMesh -> Content] /\ r.op \in Ops
  BY <1>3 DEF ReturnsWell, GoodState
<1>5. doc' = r.state.doc /\ mesh' = r.state.mesh /\ executed' = Append(executed, r.op)
  BY <1>1 DEF RedoCommand
<1>6. JobsTyped' /\ PassTyped'
  BY DEF RedoCommand, TypedInv, JobsTyped, PassTyped
<1>7. calm' \in BOOLEAN
  BY DEF RedoCommand
<1>8. undone' \in Seq(Ops) /\ executed' \in Seq(Ops) /\ queued' = queued
  BY <1>2, <1>4, <1>5 DEF RedoCommand, TypedInv
<1> QED BY <1>4, <1>5, <1>6, <1>7, <1>8 DEF TypedInv

LEMMA BeginTyped ==
  ASSUME TypedInv, BeginUpdate
  PROVE  TypedInv'
<1>1. JobsTyped'
  BY TornTyped DEF BeginUpdate, TypedInv
<1>2. PassTyped'
  <2>1. Len(queued) \in Nat /\ queued' = queued /\ (queued # << >> => Len(queued) >= 1)
    BY DEF BeginUpdate, TypedInv
  <2>2. pass' = IF queued = << >> THEN [at |-> 0, end |-> 0] ELSE [at |-> 1, end |-> Len(queued)]
    BY DEF BeginUpdate, Idle
  <2> QED BY <2>1, <2>2 DEF PassTyped
<1>3. calm' \in BOOLEAN
  BY DEF BeginUpdate
<1> QED BY <1>1, <1>2, <1>3 DEF BeginUpdate, TypedInv

LEMMA ExecuteNextTyped ==
  ASSUME TypedInv, ExecuteNext
  PROVE  TypedInv'
<1>1. PICK r : r = ExecuteAny(State, queued[pass.at])
  OBVIOUS
<1>2. queued[pass.at] \in Ops
  <2>1. pass.at \in 1 .. Len(queued)
    <3>1. Len(queued) \in Nat
      BY LenProperties DEF TypedInv
    <3> QED BY <3>1 DEF ExecuteNext, TypedInv, PassTyped
  <2> QED BY <2>1 DEF TypedInv
<1>3. ReturnsWell(r)
  BY <1>1, <1>2, StateIsGood, AnyGood DEF ExecuteNext, Alive, TypedInv
<1>4. Good(r.state.doc) /\ r.state.mesh \in [HasMesh -> Content] /\ r.op \in Ops
  BY <1>3 DEF ReturnsWell, GoodState
<1>5. doc' = r.state.doc /\ mesh' = r.state.mesh /\ executed' = Append(executed, r.op)
  BY <1>1 DEF ExecuteNext
<1>6. JobsTyped'
  BY DEF ExecuteNext, TypedInv, JobsTyped
<1>7. PassTyped'
  <2>1. pass' = [pass EXCEPT !.at = pass.at + 1] /\ queued' = queued
    BY DEF ExecuteNext
  <2>2. pass' = [at |-> pass.at + 1, end |-> pass.end]
    BY <2>1 DEF TypedInv, PassTyped
  <2>3. pass.at <= pass.end
    BY DEF ExecuteNext, TypedInv, PassTyped
  <2> QED BY <2>1, <2>2, <2>3 DEF TypedInv, PassTyped
<1>8. executed' \in Seq(Ops) /\ undone' = undone /\ queued' = queued /\ calm' = calm
  BY <1>4, <1>5 DEF ExecuteNext, TypedInv
<1> QED BY <1>4, <1>5, <1>6, <1>7, <1>8 DEF TypedInv

LEMMA EndTyped ==
  ASSUME TypedInv, EndUpdate
  PROVE  TypedInv'
<1>1. JobsTyped'
  BY DEF EndUpdate, TypedInv, JobsTyped
<1>2. queued' = << >> /\ undone' = << >> /\ pass' = [at |-> 0, end |-> 0]
  BY DEF EndUpdate, Idle
<1>3. PassTyped'
  BY <1>2 DEF PassTyped
<1> QED BY <1>1, <1>2, <1>3 DEF EndUpdate, TypedInv

LEMMA StartTyped ==
  ASSUME TypedInv, NEW c \in Click, Start(c)
  PROVE  TypedInv'
<1>1. PICK order \in Orders :
        /\ doc' = IF MayBuild(job[c].kind, order) THEN doc ELSE FailWith(doc, "verify")
        /\ job' = [job EXCEPT ![c] = Job("reading", job[c].kind,
                     [kind |-> job[c].kind, click |-> c, entries |-> Entries(c, job[c].kind, order),
                      selectionBefore |-> doc.selection])]
  BY DEF Start
<1>2. PICK k : k = job[c].kind
  OBVIOUS
<1>3. k \in {"edit", "merge"}
  BY <1>2, JobFields DEF TypedInv
<1>4. Entries(c, k, order) \in Seq(MeshEntry)
  BY <1>3, EditEntriesTyped, MergeEntriesTyped DEF Entries, TypedInv
<1>5. PICK op : op = [kind |-> k, click |-> c, entries |-> Entries(c, k, order),
                      selectionBefore |-> doc.selection]
  OBVIOUS
<1>6. op \in MeshOps
  <2>1. doc.selection \in SUBSET Item
    BY GoodTree DEF TypedInv
  <2> QED BY <1>3, <1>4, <1>5, <2>1 DEF MeshOps
<1>7. JobsTyped'
  <2>1. job' = [job EXCEPT ![c] = Job("reading", k, op)]
    BY <1>1, <1>2, <1>5
  <2>2. "reading" \in Phase
    BY DEF Phase
  <2> QED BY <1>3, <1>6, <2>1, <2>2, OneJobTyped DEF TypedInv
<1>8. Good(doc')
  <2>1. "verify" \in Fault
    BY DEF Fault
  <2> QED BY <1>1, <2>1, FailGood DEF TypedInv
<1>9. PassTyped'
  BY DEF Start, TypedInv, PassTyped
<1> QED BY <1>7, <1>8, <1>9 DEF Start, TypedInv

LEMMA FinishTyped ==
  ASSUME TypedInv, NEW c \in Click, Finish(c)
  PROVE  TypedInv'
<1>1. job[c].phase = "reading"
  BY DEF Finish
<1>2. job[c].kind \in {"edit", "merge"} /\ job[c].operation \in MeshOps
  BY <1>1, JobFields DEF TypedInv
<1>3. PICK p \in {"torn", "pushing"} :
        job' = [Torn EXCEPT ![c] = Job(p, Torn[c].kind, Torn[c].operation)]
  BY DEF Finish
<1>4. Torn[c].kind = job[c].kind /\ Torn[c].operation = job[c].operation
  BY DEF Torn, Job
<1>5. JobsTyped'
  BY <1>2, <1>3, <1>4, OneJobTyped DEF TypedInv, Phase
<1>6. PassTyped'
  BY DEF Finish, TypedInv, PassTyped
<1>7. calm' \in BOOLEAN
  BY DEF Finish
<1> QED BY <1>5, <1>6, <1>7 DEF Finish, TypedInv

LEMMA PushTyped ==
  ASSUME TypedInv, NEW c \in Click, Push(c)
  PROVE  TypedInv'
<1>1. job[c].phase \in {"pushing", "torn"}
  BY DEF Push, Pushing, InPhase
<1>2. job[c].kind \in {"edit", "merge"} /\ job[c].operation \in MeshOps
  BY <1>1, JobFields DEF TypedInv
<1>3. job' = [job EXCEPT ![c] = Job("done", job[c].kind, Nothing)]
  BY DEF Push
<1>4. JobsTyped'
  BY <1>2, <1>3, OneJobTyped DEF TypedInv, Phase
<1>5. job[c].operation \in Ops
  BY <1>2 DEF Ops
<1>6. queued' \in Seq(Ops) /\ Len(queued') \in Nat /\ Len(queued') >= Len(queued) /\ Len(queued) \in Nat
  <2>1. queued \in Seq(Ops)
    BY DEF TypedInv
  <2>2. queued' = Append(queued, job[c].operation) \/ queued' = queued
    BY DEF Push
  <2>3. /\ Append(queued, job[c].operation) \in Seq(Ops) /\ Len(queued) \in Nat
        /\ Len(Append(queued, job[c].operation)) = Len(queued) + 1
    BY <1>5, <2>1
  <2> QED BY <2>1, <2>2, <2>3
<1>7. PassTyped'
  BY <1>6 DEF Push, TypedInv, PassTyped
<1>8. Good(doc')
  <2>1. "race" \in Fault
    BY DEF Fault
  <2> QED BY <2>1, FailGood DEF Push, TypedInv
<1> QED BY <1>4, <1>6, <1>7, <1>8 DEF Push, TypedInv

(* The hulls of the old graph leave, and those of the new one come. *)
LEMMA EmptyTyped ==
  ASSUME TypedInv, EmptyHulls
  PROVE  TypedInv'
<1>1. Good(doc) /\ Hulls \in Item
  BY HullsAssumption DEF TypedInv
<1>2. Sane(RemoveChildrenFromTree(doc.tree, Hulls))
  BY <1>1, GoodTree, RemovalsSane
<1>3. Good([doc EXCEPT !.tree = RemoveChildrenFromTree(doc.tree, Hulls)])
  BY <1>1, <1>2, WithTree
<1>4. Good(doc')
  BY <1>3 DEF EmptyHulls
<1>5. JobsTyped' /\ PassTyped' /\ calm' \in BOOLEAN
  BY DEF EmptyHulls, TypedInv, JobsTyped, PassTyped
<1> QED BY <1>4, <1>5 DEF EmptyHulls, TypedInv

LEMMA AddTyped ==
  ASSUME TypedInv, NEW x \in NewHulls, AddHull(x)
  PROVE  TypedInv'
<1>1. Good(doc) /\ x \in Item /\ Hulls \in ItemOrNone /\ AtEnd \in Nat
  BY HasMeshAssumption, HullsAssumption, AtEndType DEF TypedInv, ItemOrNone
<1>2. HangsWell(doc, x, Hulls, Hang(doc, x, Hulls, AtEnd))
  BY <1>1, HangGood
<1>3. Good(doc')
  BY <1>2 DEF AddHull, HangsWell
<1>4. JobsTyped' /\ PassTyped'
  BY DEF AddHull, TypedInv, JobsTyped, PassTyped
<1> QED BY <1>3, <1>4 DEF AddHull, TypedInv

LEMMA TypedNext ==
  ASSUME TypedInv, [Next]_vars
  PROVE  TypedInv'
<1>1. ASSUME NEW S \in Selections, Select(S) PROVE TypedInv'
  <2>1. S \in SUBSET Item
    BY <1>1 DEF Select, InScene, Subtree
  <2> QED BY <1>1, <2>1, SelectTyped
<1>2. ASSUME UNCHANGED vars PROVE TypedInv'
  BY <1>2 DEF vars, TypedInv, JobsTyped, PassTyped
<1> QED
  BY <1>1, <1>2, AskTyped, RemoveOneTyped, UndoTyped, RedoTyped, BeginTyped, ExecuteNextTyped,
     EndTyped, EmptyTyped, AddTyped, StartTyped, FinishTyped, PushTyped
     DEF Next, User, Update, Rebuild, Worker

LEMMA InitHulls ==
  ASSUME Init
  PROVE  hulls = [unmade |-> NewHulls, coming |-> {}]
BY DEF Init

(* The hulls that are to come are new ones. *)
HullsTyped == hulls \in [unmade : SUBSET NewHulls, coming : SUBSET NewHulls]

LEMMA HullsNext ==
  ASSUME HullsTyped, [Next]_vars
  PROVE  HullsTyped'
<1>1. CASE hulls' = hulls
  BY <1>1 DEF HullsTyped
<1>2. CASE EmptyHulls
  BY <1>2 DEF EmptyHulls, HullsTyped
<1>3. ASSUME NEW x, AddHull(x) PROVE HullsTyped'
  BY <1>3 DEF AddHull, HullsTyped
<1>4. CASE User
  BY <1>1, <1>4 DEF User, Select, Ask, RemoveOne, UndoCommand, RedoCommand
<1>5. CASE Update
  BY <1>1, <1>5 DEF Update, BeginUpdate, ExecuteNext, EndUpdate
<1>6. CASE Worker
  BY <1>1, <1>6 DEF Worker, Start, Finish, Push
<1>7. CASE UNCHANGED vars
  BY <1>1, <1>7 DEF vars
<1> QED BY <1>2, <1>3, <1>4, <1>5, <1>6, <1>7 DEF Next, Rebuild

(* What is inductive gives the types.                                       *)
LEMMA RemovalSteps ==
  ASSUME NEW r \in RemovalStep
  PROVE  << r >> \in Operation
<1>1. r \in Step
  BY DEF RemovalStep, Step
<1> QED BY <1>1 DEF Operation

LEMMA OpsAreOperations ==
  ASSUME NEW op \in Ops
  PROVE  MeshOperation(op) \/ RemoveOperation(op)
<1>1. CASE op \in MeshOps
  <2>1. /\ op.kind \in {"edit", "merge"} /\ op.click \in Click /\ op.entries \in Seq(MeshEntry)
        /\ op.selectionBefore \in SUBSET Item
    BY <1>1 DEF MeshOps
  <2>2. \A i \in DOMAIN op.entries : op.entries[i] \in Entry
    BY <2>1, EntriesType
  <2> QED BY <2>1, <2>2 DEF MeshOperation
<1>2. ASSUME NEW r \in RemovalStep, op = [kind |-> "remove", steps |-> << r >>]
      PROVE  RemoveOperation(op)
  BY <1>2, RemovalSteps DEF RemoveOperation
<1> QED BY <1>1, <1>2 DEF Ops, RemovalOps

LEMMA ListTyped ==
  ASSUME NEW ops \in Seq(Ops)
  PROVE  \A i \in DOMAIN ops : MeshOperation(ops[i]) \/ RemoveOperation(ops[i])
<1>1. \A i \in DOMAIN ops : ops[i] \in Ops
  OBVIOUS
<1> QED BY <1>1, OpsAreOperations

LEMMA TypedGives ==
  ASSUME TypedInv, HullsTyped
  PROVE  TypeOK
<1>1. doc \in Document /\ mesh \in [HasMesh -> Content] /\ calm \in BOOLEAN
  BY DEF TypedInv, Good
<1>2. ASSUME NEW c \in Click
      PROVE  /\ job[c].phase \in Phase /\ job[c].kind \in {"edit", "merge"}
             /\ job[c].operation # Nothing => MeshOperation(job[c].operation)
  <2>1. /\ job[c].phase \in Phase /\ job[c].kind \in {"edit", "merge"}
        /\ job[c].operation \in MeshOps \cup {Nothing}
    BY JobFields DEF TypedInv
  <2>2. ASSUME NEW op \in MeshOps PROVE MeshOperation(op)
    <3>1. op \in Ops /\ op.kind # "remove"
      BY DEF Ops, MeshOps
    <3> QED BY <3>1, OpsAreOperations DEF RemoveOperation
  <2> QED BY <2>1, <2>2
<1>3. \A ops \in {queued, executed, undone} : \A i \in DOMAIN ops :
        MeshOperation(ops[i]) \/ RemoveOperation(ops[i])
  BY ListTyped DEF TypedInv
<1>4. pass.at \in 0 .. pass.end + 1 /\ pass.end \in 0 .. Len(queued)
  <2>1. Len(queued) \in Nat
    BY LenProperties DEF TypedInv
  <2> QED BY <2>1 DEF TypedInv, PassTyped
<1> QED BY <1>1, <1>2, <1>3, <1>4 DEF TypeOK, HullsTyped

(* The document, the jobs, the three lists and the place in the queue are   *)
(* well formed in every state, for every scene and every number of clicks.  *)
THEOREM MeshesStayTyped == Spec => []TypeOK
<1>1. Init => TypedInv /\ HullsTyped
  <2> SUFFICES ASSUME Init PROVE TypedInv /\ HullsTyped
    OBVIOUS
  <2> QED BY TypedInit, InitHulls DEF HullsTyped
<1>2. TypedInv /\ HullsTyped /\ [Next]_vars => TypedInv' /\ HullsTyped'
  BY TypedNext, HullsNext
<1>3. TypedInv /\ HullsTyped => TypeOK
  BY TypedGives
<1> QED BY <1>1, <1>2, <1>3, PTL DEF Spec

-----------------------------------------------------------------------------
(* A step while a worker holds the mutex: the scene loses nothing, unless    *)
(* the hulls leave.                                                         *)
SceneKept == InScene(doc.tree) \subseteq InScene(doc.tree')

HullsGone(t, u) ==
  /\ u.children[Hulls] = << >>
  /\ \A x \in InScene(t) \ InScene(u) : IsAncestor(t, Hulls, x)

(* What is not below Hulls keeps its ancestors when Hulls loses its children. *)
LEMMA RemovalLeavesOthers ==
  ASSUME NEW t, Sane(t)
  PROVE  HullsGone(t, RemoveChildrenFromTree(t, Hulls))
<1> DEFINE u == RemoveChildrenFromTree(t, Hulls)
<1>1. Hulls \in Item /\ Root \in Item /\ NoItem \notin Item /\ t.parent \in [Item -> ItemOrNone]
  BY HullsAssumption, RootAssumption, NoItemAssumption, SaneElim
<1>2. /\ u.children[Hulls] = << >>
      /\ \A y \in Item : ~IsAncestor(t, Hulls, y) => u.parent[y] = t.parent[y]
  BY <1>1 DEF RemoveChildrenFromTree, Dismantled, Subtree
<1>3. ASSUME NEW y \in Item, ~IsAncestor(t, Hulls, y), t.parent[y] # NoItem
      PROVE  t.parent[y] \in Item /\ ~IsAncestor(t, Hulls, t.parent[y])
  <2>1. t.parent[y] \in Item
    BY <1>1, <1>3 DEF ItemOrNone
  <2>2. ASSUME IsAncestor(t, Hulls, t.parent[y]) PROVE FALSE
    <3>1. \A S \in SUBSET Item : UpwardClosed(t, S) /\ t.parent[y] \in S => Hulls \in S
      BY <2>1, <2>2 DEF IsAncestor, UpwardClosed
    <3> QED BY <1>3, <3>1 DEF IsAncestor
  <2> QED BY <2>1, <2>2
<1>4. ASSUME NEW x \in InScene(t), ~IsAncestor(t, Hulls, x), x # Root
      PROVE  IsAncestor(u, Root, x)
  <2>1. x \in Item /\ IsAncestor(t, Root, x)
    BY <1>4 DEF InScene, Subtree
  <2>2. u.parent[x] = t.parent[x] /\ t.parent[x] # NoItem
    BY <1>2, <1>4, <2>1 DEF IsAncestor
  <2>3. ASSUME NEW S \in SUBSET Item, UpwardClosed(u, S), u.parent[x] \in S
        PROVE  Root \in S
    <3>1. PICK T : T = {y \in S : ~IsAncestor(t, Hulls, y)}
      OBVIOUS
    <3>2. t.parent[x] \in T
      BY <1>3, <1>4, <2>1, <2>2, <2>3, <3>1
    <3>3. UpwardClosed(t, T)
      <4> HIDE DEF u
      <4> QED BY <1>2, <1>3, <2>3, <3>1 DEF UpwardClosed
    <3>4. T \in SUBSET Item
      BY <3>1
    <3>5. Root \in T
      BY <2>1, <3>2, <3>3, <3>4 DEF IsAncestor
    <3> QED BY <3>1, <3>5
  <2> HIDE DEF u
  <2> QED BY <2>2, <2>3 DEF IsAncestor
<1>5. ASSUME NEW x \in InScene(t), ~IsAncestor(t, Hulls, x) PROVE x \in InScene(u)
  <2>1. x \in Item
    BY DEF InScene, Subtree
  <2> HIDE DEF u
  <2> QED BY <1>4, <1>5, <2>1 DEF InScene, Subtree
<1> QED BY <1>2, <1>5 DEF HullsGone

LEMMA LockedStepKeepsScene ==
  ASSUME TypedInv, Next, Locked
  PROVE  SceneKept \/ HullsGone(doc.tree, doc.tree')
<1>1. Good(doc) /\ mesh \in [HasMesh -> Content]
  BY DEF TypedInv
<1>2. ASSUME NEW d, d.tree = doc.tree, doc' = d PROVE SceneKept
  BY <1>2 DEF SceneKept
<1>3. ASSUME NEW why \in Fault, doc' = FailWith(doc, why) PROVE SceneKept
  <2>1. FailWith(doc, why).tree = doc.tree
    BY <1>1, FailGood
  <2> QED BY <1>2, <1>3, <2>1
<1>4. ASSUME UNCHANGED doc PROVE SceneKept
  BY <1>2, <1>4
<1>5. "race" \in Fault /\ "verify" \in Fault
  BY DEF Fault
<1>6. ASSUME NEW S \in Selections, Select(S)
      PROVE  SceneKept
  <2>1. S \in SUBSET Item
    BY <1>6 DEF Select, InScene, Subtree
  <2>2. [doc EXCEPT !.selection = S].tree = doc.tree
    BY <1>1, <2>1, SelectGood
  <2>3. doc' = [doc EXCEPT !.selection = S] \/ doc' = FailWith(doc, "race")
    BY <1>6 DEF Select
  <2> QED BY <1>2, <1>3, <1>5, <2>2, <2>3
<1>7. ASSUME NEW op \in Ops, MayRun(op), Alive
      PROVE  /\ InScene(doc.tree) \subseteq InScene(ExecuteAny(State, op).state.doc.tree)
             /\ InScene(doc.tree) \subseteq InScene(UndoAny(State, op).state.doc.tree)
  BY <1>1, <1>7, UnlockedKeepsScene DEF MayRun
<1>8. CASE UndoCommand
  <2>1. Last(executed) \in Ops
    BY <1>8, LastFront DEF UndoCommand, TypedInv
  <2>2. doc' = UndoAny(State, Last(executed)).state.doc /\ MayRun(Last(executed)) /\ Alive
    BY <1>8 DEF UndoCommand, Command
  <2> QED BY <1>7, <2>1, <2>2 DEF SceneKept
<1>9. CASE RedoCommand
  <2>1. Last(undone) \in Ops
    BY <1>9, LastFront DEF RedoCommand, TypedInv
  <2>2. doc' = ExecuteAny(State, Last(undone)).state.doc /\ MayRun(Last(undone)) /\ Alive
    BY <1>9 DEF RedoCommand, Command
  <2> QED BY <1>7, <2>1, <2>2 DEF SceneKept
<1>10. CASE ExecuteNext
  <2>1. pass.at \in 1 .. Len(queued)
    <3>1. Len(queued) \in Nat
      BY LenProperties DEF TypedInv
    <3> QED BY <1>10, <3>1 DEF ExecuteNext, TypedInv, PassTyped
  <2>2. queued[pass.at] \in Ops
    BY <2>1 DEF TypedInv
  <2>3. /\ doc' = ExecuteAny(State, queued[pass.at]).state.doc
        /\ MayRun(queued[pass.at]) /\ Alive
    BY <1>10 DEF ExecuteNext
  <2> QED BY <1>7, <2>2, <2>3 DEF SceneKept
<1>11. ASSUME NEW c \in Click, Start(c) PROVE SceneKept
  <2>1. doc' = doc \/ doc' = FailWith(doc, "verify")
    BY <1>11 DEF Start
  <2> QED BY <1>3, <1>4, <1>5, <2>1
<1>12. ASSUME NEW c \in Click, Push(c) PROVE SceneKept
  <2>1. doc' = doc \/ doc' = FailWith(doc, "race")
    BY <1>12 DEF Push
  <2> QED BY <1>3, <1>4, <1>5, <2>1
<1>13. ASSUME NEW c \in Click, NEW kind, Ask(c, kind) PROVE SceneKept
  BY <1>4, <1>13 DEF Ask
<1>14. ASSUME NEW x, RemoveOne(x) PROVE SceneKept
  BY <1>4, <1>14 DEF RemoveOne
<1>15. CASE BeginUpdate \/ EndUpdate
  BY <1>4, <1>15 DEF BeginUpdate, EndUpdate
<1>16. ASSUME NEW c \in Click, Finish(c) PROVE SceneKept
  BY <1>4, <1>16 DEF Finish
<1>17. CASE EmptyHulls
  <2>1. PICK u : u = RemoveChildrenFromTree(doc.tree, Hulls)
    OBVIOUS
  <2>2. Sane(doc.tree) /\ Hulls \in Item
    BY <1>1, GoodTree, HullsAssumption
  <2>3. doc' = [doc EXCEPT !.tree = u] /\ Sane(u)
    BY <1>17, <2>1, <2>2, RemovalsSane DEF EmptyHulls
  <2>4. doc'.tree = u
    BY <1>1, <2>3, WithTree
  <2> QED BY <2>1, <2>2, <2>4, RemovalLeavesOthers
<1>18. ASSUME NEW x, AddHull(x) PROVE FALSE
  BY <1>18 DEF AddHull
<1> QED
  BY <1>6, <1>8, <1>9, <1>10, <1>11, <1>12, <1>13, <1>14, <1>15, <1>16, <1>17, <1>18
     DEF Next, User, Update, Rebuild, Worker

(* A call of set_parent() that is not refused. *)
HungOn(d, x, p, e) ==
  /\ Good(e) /\ e.selection = d.selection /\ e.fault = d.fault
  /\ e.tree.parent = [d.tree.parent EXCEPT ![x] = p]

(* A call of set_parent() that is not refused changes one parent.            *)
LEMMA HangMoves ==
  ASSUME NEW d, Good(d), NEW x \in Item, NEW p \in ItemOrNone, NEW position \in Nat,
         MayAdopt(d.tree, p, x)
  PROVE  HungOn(d, x, p, Hang(d, x, p, position))
<1>1. p # x
  BY NoItemAssumption DEF MayAdopt
<1>2. PICK u : u = SetParent(d.tree, x, p, position)
  OBVIOUS
<1>3. Sane(u) /\ u.parent = [d.tree.parent EXCEPT ![x] = p]
  BY <1>2, GoodTree, SetParentSane
<1>4. PICK e : e = [d EXCEPT !.tree = u]
  OBVIOUS
<1>5. Hang(d, x, p, position) = e
  BY <1>1, <1>2, <1>4 DEF Hang
<1>6. Good(e) /\ e.tree = u /\ e.fault = d.fault /\ e.selection = d.selection
  BY <1>3, <1>4, WithTree
<1> QED BY <1>3, <1>5, <1>6 DEF HungOn

(* The parents, with the items of X taken out. *)
LeftOut(p, X) == [y \in Item |-> IF y \in X THEN NoItem ELSE p[y]]

(* The nodes of a list of entries, or of parent changes.                     *)
Items(entries) == {entries[i].item : i \in 1 .. Len(entries)}

(* Documents that differ in parents only, and in the order of children. *)
Reparented(d, p, e) ==
  Good(e) /\ e.selection = d.selection /\ e.fault = d.fault /\ e.tree.parent = p

(* Putting nodes back where they were moves nothing. *)
LEMMA PlacedSame ==
  ASSUME NEW d, Good(d), NEW entries \in Seq(Entry)
  PROVE  Reparented(d, d.tree.parent, PlacedInOrder(d, entries, "same"))
<1>1. PICK n \in Nat : n = Len(entries) /\ DOMAIN entries = 1 .. n
  BY LenProperties
<1>2. \A k \in 1 .. n : entries[k] \in Entry
  BY <1>1
<1>3. PICK R : PlacesTrail(R, n, d, entries, "same") /\ PlacedInOrder(d, entries, "same") = R[n]
  BY <1>1, PlacesGoAlong
<1> DEFINE P == {k \in Nat : k \in 0 .. n => Reparented(d, d.tree.parent, R[k])}
<1>4. 0 \in P
  BY <1>3 DEF PlacesTrail, Reparented
<1>5. ASSUME NEW k \in P PROVE k + 1 \in P
  <2>1. k \in Nat /\ (k \in 0 .. n => Reparented(d, d.tree.parent, R[k]))
    OBVIOUS
  <2>2. ASSUME k + 1 \in 0 .. n PROVE Reparented(d, d.tree.parent, R[k + 1])
    <3>1. k + 1 \in 1 .. n /\ (k + 1) - 1 = k /\ Reparented(d, d.tree.parent, R[k])
      BY <2>1, <2>2
    <3>2. R[k + 1] = Placed(R[k], entries[k + 1], "same") /\ entries[k + 1] \in Entry
      BY <1>2, <1>3, <3>1 DEF PlacesTrail
    <3>3. entries[k + 1].item \in Item
      BY <3>2 DEF Entry
    <3>4. PICK c : c = R[k]
      OBVIOUS
    <3>5. PICK u : u = Reattached(c.tree, entries[k + 1].item)
      OBVIOUS
    <3>6. Good(c) /\ Sane(c.tree)
      BY <3>1, <3>4, GoodTree DEF Reparented
    <3>7. Sane(u) /\ u.parent = c.tree.parent
      BY <3>3, <3>5, <3>6, ReattachedSane
    <3>8. PICK e : e = [c EXCEPT !.tree = u]
      OBVIOUS
    <3>9. R[k + 1] = e
      BY <3>2, <3>4, <3>5, <3>8 DEF Placed
    <3>10. Good(e) /\ e.tree = u /\ e.fault = c.fault /\ e.selection = c.selection
      BY <3>6, <3>7, <3>8, WithTree
    <3> QED BY <3>1, <3>4, <3>7, <3>9, <3>10 DEF Reparented
  <2> QED BY <2>1, <2>2
<1>6. P \in SUBSET Nat
  OBVIOUS
<1> HIDE DEF P
<1>7. n \in P
  BY <1>4, <1>5, <1>6, NatSetInduction
<1> QED BY <1>3, <1>7 DEF P

(* Taking nodes out leaves the others where they are. *)
LEMMA PlacedOut ==
  ASSUME NEW d, Good(d), NEW entries \in Seq(Entry)
  PROVE  Reparented(d, LeftOut(d.tree.parent, Items(entries)), PlacedInOrder(d, entries, "out"))
<1> DEFINE q == d.tree.parent
           Some(k) == {entries[i].item : i \in 1 .. k}
<1>0. q \in [Item -> ItemOrNone]
  BY GoodTree
<1>1. PICK n \in Nat : n = Len(entries) /\ DOMAIN entries = 1 .. n
  BY LenProperties
<1>2. \A k \in 1 .. n : entries[k] \in Entry
  BY <1>1
<1>3. PICK R : PlacesTrail(R, n, d, entries, "out") /\ PlacedInOrder(d, entries, "out") = R[n]
  BY <1>1, PlacesGoAlong
<1> HIDE DEF q
<1> DEFINE P == {k \in Nat : k \in 0 .. n => Reparented(d, LeftOut(q, Some(k)), R[k])}
<1>4. 0 \in P
  <2>1. R[0] = d /\ Some(0) = {}
    BY <1>3 DEF PlacesTrail
  <2>2. LeftOut(q, {}) = q
    BY <1>0 DEF LeftOut
  <2>3. Reparented(d, LeftOut(q, Some(0)), R[0])
    BY <2>1, <2>2 DEF Reparented, q
  <2> QED BY <2>3
<1>5. ASSUME NEW k \in P PROVE k + 1 \in P
  <2>1. k \in Nat /\ (k \in 0 .. n => Reparented(d, LeftOut(q, Some(k)), R[k]))
    OBVIOUS
  <2>2. ASSUME k + 1 \in 0 .. n PROVE Reparented(d, LeftOut(q, Some(k + 1)), R[k + 1])
    <3>1. k + 1 \in 1 .. n /\ (k + 1) - 1 = k /\ Reparented(d, LeftOut(q, Some(k)), R[k])
      BY <2>1, <2>2
    <3>2. R[k + 1] = Placed(R[k], entries[k + 1], "out") /\ entries[k + 1] \in Entry
      BY <1>2, <1>3, <3>1 DEF PlacesTrail
    <3>3. PICK x \in Item : x = entries[k + 1].item
      BY <3>2 DEF Entry
    <3>4. PICK c : c = R[k]
      OBVIOUS
    <3>5. PICK e : e = Hang(c, x, NoItem, AtEnd)
      OBVIOUS
    <3>6. R[k + 1] = e /\ Good(c)
      BY <3>1, <3>2, <3>3, <3>4, <3>5 DEF Placed, Reparented
    <3>7. MayAdopt(c.tree, NoItem, x) /\ NoItem \in ItemOrNone
      BY DEF MayAdopt, ItemOrNone
    <3>8. HungOn(c, x, NoItem, e)
      BY <3>5, <3>6, <3>7, AtEndType, HangMoves
    <3>9. [LeftOut(q, Some(k)) EXCEPT ![x] = NoItem] = LeftOut(q, Some(k + 1))
      <4>1. \A i \in 1 .. k + 1 : i \in 1 .. k \/ i = k + 1
        BY <2>1
      <4>2. k + 1 \in 1 .. k + 1 /\ \A i \in 1 .. k : i \in 1 .. k + 1
        BY <2>1
      <4>3. Some(k + 1) = Some(k) \cup {x}
        BY <3>3, <4>1, <4>2
      <4> HIDE DEF Some
      <4> QED BY <4>3 DEF LeftOut
    <3> HIDE DEF Some
    <3> QED BY <3>1, <3>4, <3>6, <3>8, <3>9 DEF HungOn, Reparented
  <2> HIDE DEF Some
  <2> QED BY <2>1, <2>2
<1>6. P \in SUBSET Nat
  OBVIOUS
<1>8. Some(n) = Items(entries)
  BY <1>1 DEF Items
<1> HIDE DEF P, Some
<1>7. n \in P
  BY <1>4, <1>5, <1>6, NatSetInduction
<1> QED BY <1>1, <1>3, <1>7, <1>8 DEF P, q

-----------------------------------------------------------------------------
(* With fewer parents there are fewer ancestors. *)
LEMMA FewerAncestors ==
  ASSUME NEW a, a.parent \in [Item -> ItemOrNone], NEW t,
         \A y \in Item : t.parent[y] \in {a.parent[y], NoItem},
         NEW x \in Item, NEW y \in Item, IsAncestor(t, x, y)
  PROVE  IsAncestor(a, x, y)
<1>1. t.parent[y] # NoItem /\ a.parent[y] = t.parent[y]
  BY DEF IsAncestor
<1>2. ASSUME NEW V \in SUBSET Item, UpwardClosed(a, V), a.parent[y] \in V
      PROVE  x \in V
  <2>1. UpwardClosed(t, V)
    BY <1>2 DEF UpwardClosed
  <2> QED BY <1>1, <1>2, <2>1 DEF IsAncestor
<1> QED BY <1>1, <1>2 DEF IsAncestor

(* A node may come back below its parent while others are still out. *)
LEMMA MayComeBack ==
  ASSUME NEW a, a.parent \in [Item -> ItemOrNone], AcyclicIn(a), NEW t,
         \A y \in Item : t.parent[y] \in {a.parent[y], NoItem}, NEW x \in Item
  PROVE  MayAdopt(t, a.parent[x], x)
<1> SUFFICES ASSUME a.parent[x] # NoItem
             PROVE  a.parent[x] # x /\ ~IsAncestor(t, x, a.parent[x])
  BY DEF MayAdopt
<1>1. a.parent[x] \in Item
  BY DEF ItemOrNone
<1>2. MayAdopt(a, a.parent[x], x)
  BY MayReturn
<1>3. a.parent[x] # x /\ ~IsAncestor(a, x, a.parent[x])
  BY <1>2 DEF MayAdopt
<1> QED BY <1>1, <1>3, FewerAncestors

(* Nodes that were taken out come back below the parents they had. *)
LEMMA PlacedBack ==
  ASSUME NEW a, a.parent \in [Item -> ItemOrNone], AcyclicIn(a),
         NEW d, Good(d), NEW entries \in Seq(Entry),
         \A i \in 1 .. Len(entries) : entries[i].parent = a.parent[entries[i].item],
         d.tree.parent = LeftOut(a.parent, Items(entries))
  PROVE  Reparented(d, a.parent, PlacedInOrder(d, entries, "back"))
<1> DEFINE q == a.parent
           Rest(k) == Items(entries) \ {entries[i].item : i \in 1 .. k}
<1>0. q \in [Item -> ItemOrNone]
  OBVIOUS
<1>1. PICK n \in Nat : n = Len(entries) /\ DOMAIN entries = 1 .. n
  BY LenProperties
<1>2. \A k \in 1 .. n : entries[k] \in Entry
  BY <1>1
<1>3. PICK R : PlacesTrail(R, n, d, entries, "back") /\ PlacedInOrder(d, entries, "back") = R[n]
  BY <1>1, PlacesGoAlong
<1> DEFINE P == {k \in Nat : k \in 0 .. n => Reparented(d, LeftOut(q, Rest(k)), R[k])}
<1>4. 0 \in P
  <2>1. R[0] = d
    BY <1>3 DEF PlacesTrail
  <2>2. Rest(0) = Items(entries)
    OBVIOUS
  <2> HIDE DEF Rest
  <2>3. Reparented(d, LeftOut(q, Rest(0)), R[0])
    BY <2>1, <2>2 DEF Reparented
  <2> QED BY <2>3
<1>5. ASSUME NEW k \in P PROVE k + 1 \in P
  <2>1. k \in Nat /\ (k \in 0 .. n => Reparented(d, LeftOut(q, Rest(k)), R[k]))
    OBVIOUS
  <2>2. ASSUME k + 1 \in 0 .. n PROVE Reparented(d, LeftOut(q, Rest(k + 1)), R[k + 1])
    <3>1. k + 1 \in 1 .. n /\ (k + 1) - 1 = k /\ Reparented(d, LeftOut(q, Rest(k)), R[k])
      BY <2>1, <2>2
    <3>2. R[k + 1] = Placed(R[k], entries[k + 1], "back") /\ entries[k + 1] \in Entry
      BY <1>2, <1>3, <3>1 DEF PlacesTrail
    <3>3. PICK x \in Item : x = entries[k + 1].item
      BY <3>2 DEF Entry
    <3>10. entries[k + 1].parent = q[x] /\ q[x] \in ItemOrNone
      BY <1>0, <1>1, <3>1, <3>3
    <3>4. PICK c : c = R[k]
      OBVIOUS
    <3>5. PICK e : e = Hang(c, x, q[x], AtEnd)
      OBVIOUS
    <3>6. R[k + 1] = e /\ Good(c) /\ c.tree.parent = LeftOut(q, Rest(k))
      BY <3>1, <3>2, <3>3, <3>4, <3>5, <3>10 DEF Placed, Reparented
    <3>7. MayAdopt(c.tree, q[x], x)
      <4>1. \A y \in Item : c.tree.parent[y] \in {q[y], NoItem}
        BY <3>6 DEF LeftOut
      <4> QED BY <4>1, MayComeBack
    <3>8. HungOn(c, x, q[x], e)
      BY <3>5, <3>6, <3>7, <3>10, AtEndType, HangMoves
    <3>9. [LeftOut(q, Rest(k)) EXCEPT ![x] = q[x]] = LeftOut(q, Rest(k + 1))
      <4>1. \A i \in 1 .. k + 1 : i \in 1 .. k \/ i = k + 1
        BY <2>1
      <4>2. k + 1 \in 1 .. k + 1 /\ \A i \in 1 .. k : i \in 1 .. k + 1
        BY <2>1
      <4>3. Rest(k + 1) = Rest(k) \ {x}
        BY <3>3, <4>1, <4>2
      <4> HIDE DEF Rest
      <4> QED BY <1>0, <4>3 DEF LeftOut
    <3> HIDE DEF Rest
    <3> QED BY <3>1, <3>4, <3>6, <3>8, <3>9 DEF HungOn, Reparented
  <2> HIDE DEF Rest
  <2> QED BY <2>1, <2>2
<1>6. P \in SUBSET Nat
  OBVIOUS
<1>8. Rest(n) = {}
  BY <1>1 DEF Items
<1>9. LeftOut(q, {}) = q
  BY <1>0 DEF LeftOut
<1> HIDE DEF P, Rest
<1>7. n \in P
  BY <1>4, <1>5, <1>6, NatSetInduction
<1>10. n \in 0 .. n => Reparented(d, LeftOut(q, Rest(n)), R[n])
  <2> HIDE DEF q
  <2> QED BY <1>7 DEF P
<1>11. Reparented(d, q, R[n])
  <2> HIDE DEF q
  <2> QED BY <1>1, <1>8, <1>9, <1>10
<1> QED BY <1>3, <1>11

(* No node occurs twice.                                                     *)
Distinct(ops) == \A i, j \in 1 .. Len(ops) : ops[i].item = ops[j].item => i = j

(* The children, as the parents tell them.                                   *)
ChildrenOf(p, x) == {y \in Item : p[y] = x}

(* The parents, with the nodes of X below z. *)
MovedTo(p, X, z) == [y \in Item |-> IF y \in X THEN z ELSE p[y]]

(* The parents once x is taken out and what was below it hangs one higher. *)
HandedUp(p, x) == [y \in Item |-> IF y = x THEN NoItem ELSE IF p[y] = x THEN p[x] ELSE p[y]]

(* One node more moves.                                                      *)
LEMMA MovedOne ==
  ASSUME NEW c, NEW p, NEW X, NEW z, NEW x, NEW e,
         c.tree.parent = MovedTo(p, X, z), HungOn(c, x, z, e)
  PROVE  e.tree.parent = MovedTo(p, X \cup {x}, z)
<1>1. e.tree.parent = [MovedTo(p, X, z) EXCEPT ![x] = z]
  BY DEF HungOn
<1> QED BY <1>1 DEF MovedTo

(* One step more.                                                            *)
LEMMA Appended ==
  ASSUME NEW X, NEW s \in Seq(X), NEW e \in X
  PROVE  /\ Append(s, e) \in Seq(X) /\ Len(Append(s, e)) = Len(s) + 1
         /\ Append(s, e)[Len(s) + 1] = e
         /\ \A i \in 1 .. Len(s) : Append(s, e)[i] = s[i]
OBVIOUS

(* No node has moved yet.                                                    *)
LEMMA MovedNone ==
  ASSUME NEW p, p \in [Item -> ItemOrNone], NEW z
  PROVE  MovedTo(p, {}, z) = p
BY DEF MovedTo

(* What a parent change of a removal says.                                   *)
LEMMA ChangeFields ==
  ASSUME NEW x, NEW p, NEW g \in Change(x, p)
  PROVE  /\ g.item \in Item /\ g.from = x /\ g.to = p /\ g.before = NoItem /\ g.after = NoItem
         /\ g.index \in Nat
BY DEF Change, ReparentStep

(* A child of a removed node goes up to its parent. *)
LEMMA OneGoesUp ==
  ASSUME NEW d, Good(d), NEW x \in Item, NEW p \in Item, d.tree.parent[x] = p,
         NEW g \in Change(x, p), d.tree.parent[g.item] = x
  PROVE  /\ HungOn(d, g.item, p, ExecuteReparent(d, g).doc)
         /\ ExecuteReparent(d, g).op \in Change(x, p) /\ ExecuteReparent(d, g).op.item = g.item
<1>1. /\ g.item \in Item /\ g.from = x /\ g.to = p /\ g.before = NoItem /\ g.after = NoItem
      /\ p # NoItem /\ p \in ItemOrNone
  BY ChangeFields, NoItemAssumption DEF ItemOrNone
<1>2. /\ d.tree.parent \in [Item -> ItemOrNone] /\ d.tree.children \in [Item -> Seq(Item)]
      /\ AcyclicIn(d.tree)
  BY GoodTree
<1>3. PICK n \in Nat : n = Len(d.tree.children[p])
  BY <1>2, LenProperties
<1>4. MayAdopt(d.tree, p, g.item)
  <2>1. PICK t : t = d.tree
    OBVIOUS
  <2>2. t.parent[g.item] = x /\ t.parent[x] = p /\ t.parent[x] # NoItem
    BY <1>1, <2>1
  <2>3. MayAdopt(t, t.parent[x], g.item)
    BY <1>1, <1>2, <2>1, <2>2, ParentNotBelow
  <2> QED BY <2>1, <2>2, <2>3
<1>5. PICK e : e = Hang(d, g.item, p, n)
  OBVIOUS
<1>6. HungOn(d, g.item, p, e)
  BY <1>1, <1>4, <1>5, HangMoves
<1>7. ExecuteReparent(d, g) = Done(e, [g EXCEPT !.index = IndexInParent(d.tree, g.item)])
  BY <1>1, <1>3, <1>5 DEF ExecuteReparent
<1>8. ExecuteReparent(d, g).doc = e
  BY <1>7 DEF Done
<1>9. ExecuteReparent(d, g).op = [g EXCEPT !.index = IndexInParent(d.tree, g.item)]
  BY <1>7 DEF Done
<1>10. [g EXCEPT !.index = IndexInParent(d.tree, g.item)].item = g.item
  BY DEF Change, ReparentStep
<1>11. ExecuteReparent(d, g).op \in Change(x, p)
  BY <1>1, ReparentGood
<1> QED BY <1>6, <1>8, <1>9, <1>10, <1>11

(* What a chain of parent changes has moved, and what it remembers of it. *)
GoneUp(d, x, p, X, ops, k, a) ==
  /\ Reparented(d, MovedTo(d.tree.parent, X, p), a.doc)
  /\ a.op \in Seq(Change(x, p)) /\ Len(a.op) = k
  /\ \A i \in 1 .. k : a.op[i].item = ops[i].item

(* The nodes of the first k parent changes.                                  *)
FirstOf(ops, k) == {ops[i].item : i \in 1 .. k}

(* One node more.                                                            *)
LEMMA FirstGrows ==
  ASSUME NEW ops, NEW k \in Nat
  PROVE  FirstOf(ops, 0) = {} /\ FirstOf(ops, k + 1) = FirstOf(ops, k) \cup {ops[k + 1].item}
<1>1. \A i \in 1 .. k + 1 : i \in 1 .. k \/ i = k + 1
  OBVIOUS
<1>2. k + 1 \in 1 .. k + 1 /\ \A i \in 1 .. k : i \in 1 .. k + 1
  OBVIOUS
<1> QED BY <1>1, <1>2 DEF FirstOf

(* All children of a removed node go up.                                     *)
LEMMA ChildrenGoUp ==
  ASSUME NEW d, Good(d), d.fault = "none", NEW x \in Item, NEW p \in Item, d.tree.parent[x] = p,
         NEW ops \in Seq(Change(x, p)), Distinct(ops), Items(ops) \subseteq ChildrenOf(d.tree.parent, x)
  PROVE  GoneUp(d, x, p, Items(ops), ops, Len(ops), ExecuteReparents(d, ops))
<1>1. PICK n \in Nat : n = Len(ops)
  BY LenProperties
<1>2. \A k \in 1 .. n : ops[k] \in Change(x, p)
  BY <1>1
<1>3. PICK R : ReparentTrail(R, n, d, ops) /\ ExecuteReparents(d, ops) = R[n]
  BY <1>1, ReparentsGoAlong
<1>11. d.tree.parent \in [Item -> ItemOrNone] /\ AcyclicIn(d.tree)
  BY GoodTree
<1>12. \A i \in 1 .. n : d.tree.parent[ops[i].item] = x
  BY <1>1 DEF Items, ChildrenOf
<1>13. p # x
  <2>1. \E y \in {x} : d.tree.parent[y] \notin {x}
    BY <1>11 DEF AcyclicIn
  <2> QED BY <2>1
<1> DEFINE W(k) == GoneUp(d, x, p, FirstOf(ops, k), ops, k, R[k])
           P == {k \in Nat : k \in 0 .. n => W(k)}
<1>4. 0 \in P
  <2>1. R[0].doc = d /\ R[0].op = << >>
    BY <1>3 DEF ReparentTrail, Done
  <2>2. << >> \in Seq(Change(x, p)) /\ Len(<< >>) = 0
    OBVIOUS
  <2>4. FirstOf(ops, 0) = {} /\ MovedTo(d.tree.parent, {}, p) = d.tree.parent
    BY <1>11, MovedNone, FirstGrows
  <2>5. Reparented(d, MovedTo(d.tree.parent, FirstOf(ops, 0), p), R[0].doc)
    BY <2>1, <2>4 DEF Reparented
  <2>3. W(0)
    BY <2>1, <2>2, <2>5 DEF GoneUp
  <2> QED BY <2>3
<1>5. ASSUME NEW k \in P PROVE k + 1 \in P
  <2>1. k \in Nat /\ (k \in 0 .. n => W(k))
    OBVIOUS
  <2>2. ASSUME k + 1 \in 0 .. n PROVE W(k + 1)
    <3>1. k + 1 \in 1 .. n /\ (k + 1) - 1 = k /\ W(k)
      BY <2>1, <2>2
    <3>2. PICK c, o, g : c = R[k].doc /\ o = R[k].op /\ g = ops[k + 1]
      OBVIOUS
    <3>3. /\ Good(c) /\ c.selection = d.selection /\ c.fault = "none"
          /\ c.tree.parent = MovedTo(d.tree.parent, FirstOf(ops, k), p)
          /\ o \in Seq(Change(x, p)) /\ Len(o) = k /\ \A i \in 1 .. k : o[i].item = ops[i].item
      BY <3>1, <3>2 DEF GoneUp, Reparented
    <3>4. g \in Change(x, p) /\ g.item \in Item
      BY <1>2, <3>1, <3>2, ChangeFields
    <3>5. g.item \notin FirstOf(ops, k)
      <4> SUFFICES ASSUME NEW i \in 1 .. k, g.item = ops[i].item PROVE FALSE
        BY DEF FirstOf
      <4>1. i \in 1 .. Len(ops) /\ k + 1 \in 1 .. Len(ops) /\ i # k + 1
        BY <1>1, <3>1
      <4> QED BY <3>2, <4>1 DEF Distinct
    <3>6. x \notin FirstOf(ops, k)
      <4> SUFFICES ASSUME NEW i \in 1 .. k, x = ops[i].item PROVE FALSE
        BY DEF FirstOf
      <4>1. i \in 1 .. n
        BY <3>1
      <4> QED BY <1>12, <1>13, <4>1
    <3>7. c.tree.parent[x] = p /\ c.tree.parent[g.item] = x
      BY <1>12, <3>1, <3>2, <3>3, <3>4, <3>5, <3>6 DEF MovedTo
    <3>8. PICK r : r = ExecuteReparent(c, g)
      OBVIOUS
    <3>9. HungOn(c, g.item, p, r.doc) /\ r.op \in Change(x, p) /\ r.op.item = g.item
      BY <3>3, <3>4, <3>7, <3>8, OneGoesUp
    <3>10. R[k + 1] = Carried(R[k], r)
      BY <1>3, <3>1, <3>2, <3>3, <3>8 DEF ReparentTrail
    <3>11. R[k + 1].doc = r.doc /\ R[k + 1].op = Append(o, r.op)
      BY <3>2, <3>10 DEF Carried, Done
    <3>12. r.doc.tree.parent = MovedTo(d.tree.parent, FirstOf(ops, k + 1), p)
      <4>1. FirstOf(ops, k + 1) = FirstOf(ops, k) \cup {g.item}
        BY <2>1, <3>2, FirstGrows
      <4>2. r.doc.tree.parent = MovedTo(d.tree.parent, FirstOf(ops, k) \cup {g.item}, p)
        BY <3>3, <3>9, MovedOne
      <4> QED BY <4>1, <4>2
    <3>13. PICK u : u = Append(o, r.op)
      OBVIOUS
    <3>14. u \in Seq(Change(x, p)) /\ Len(u) = k + 1 /\ u[k + 1] = r.op /\ \A i \in 1 .. k : u[i] = o[i]
      BY <3>3, <3>9, <3>13, Appended
    <3>15. \A i \in 1 .. k + 1 : u[i].item = ops[i].item
      <4>1. \A i \in 1 .. k + 1 : i \in 1 .. k \/ i = k + 1
        BY <2>1
      <4> QED BY <3>2, <3>3, <3>9, <3>14, <4>1
    <3>16. Reparented(d, MovedTo(d.tree.parent, FirstOf(ops, k + 1), p), r.doc)
      BY <3>3, <3>9, <3>12 DEF HungOn, Reparented
    <3> QED BY <3>11, <3>13, <3>14, <3>15, <3>16 DEF GoneUp
  <2> HIDE DEF W
  <2> QED BY <2>1, <2>2
<1>6. P \in SUBSET Nat
  OBVIOUS
<1> HIDE DEF P
<1>7. n \in P
  BY <1>4, <1>5, <1>6, NatSetInduction
<1>8. FirstOf(ops, n) = Items(ops)
  BY <1>1 DEF FirstOf, Items
<1> QED BY <1>1, <1>3, <1>7, <1>8 DEF P

-----------------------------------------------------------------------------
(* A node may go below one that hangs beside it. *)
LEMMA MayGoBeside ==
  ASSUME NEW t, t.parent \in [Item -> ItemOrNone], AcyclicIn(t), NEW x \in Item, NEW y \in Item,
         y # x, t.parent[y] = t.parent[x], t.parent[x] \in Item
  PROVE  MayAdopt(t, x, y)
<1>1. t.parent[y] \notin Subtree(t, y)
  BY ParentOutside
<1>2. x \in Subtree(t, y) => t.parent[x] \in Subtree(t, y)
  BY SubtreeClosed
<1>3. ~IsAncestor(t, y, x)
  BY <1>1, <1>2 DEF Subtree
<1> QED BY <1>3 DEF MayAdopt

(* The undo of a parent change takes the child down again.                   *)
LEMMA OneGoesDown ==
  ASSUME NEW d, Good(d), NEW x \in Item, NEW p \in Item, d.tree.parent[x] = p,
         NEW g \in Change(x, p), d.tree.parent[g.item] = p, g.item # x
  PROVE  HungOn(d, g.item, x, UndoReparent(d, g).doc)
<1>1. g.item \in Item /\ g.from = x /\ g.to = p /\ g.index \in Nat /\ x \in ItemOrNone
  BY ChangeFields DEF ItemOrNone
<1>2. d.tree.parent \in [Item -> ItemOrNone] /\ AcyclicIn(d.tree)
  BY GoodTree
<1>4. MayAdopt(d.tree, x, g.item)
  BY <1>1, <1>2, MayGoBeside
<1>5. PICK e : e = Hang(d, g.item, x, g.index)
  OBVIOUS
<1>6. HungOn(d, g.item, x, e)
  BY <1>1, <1>4, <1>5, HangMoves
<1>7. UndoReparent(d, g) = Done(e, g)
  BY <1>1, <1>5 DEF UndoReparent
<1> QED BY <1>6, <1>7 DEF Done

(* undo() goes through the same nodes, the other way round.                  *)
LEMMA ReversedItems ==
  ASSUME NEW X, NEW ops \in Seq(X), Distinct(ops)
  PROVE  Items(Reverse(ops)) = Items(ops) /\ Distinct(Reverse(ops))
<1>1. PICK n \in Nat : n = Len(ops)
  BY LenProperties
<1>2. PICK b : b = Reverse(ops)
  OBVIOUS
<1>3. Len(b) = n /\ \A k \in 1 .. n : b[k] = ops[n - k + 1]
  BY <1>1, <1>2, ReverseFacts
<1>4. \A k \in 1 .. n : n - k + 1 \in 1 .. n /\ n - (n - k + 1) + 1 = k
  OBVIOUS
<1>5. Items(b) \subseteq Items(ops)
  BY <1>1, <1>3, <1>4 DEF Items
<1>6. Items(ops) \subseteq Items(b)
  <2>1. \A k \in 1 .. n : ops[k] = b[n - k + 1]
    BY <1>3, <1>4
  <2> QED BY <1>1, <1>3, <1>4, <2>1 DEF Items
<1>7. Distinct(b)
  <2> SUFFICES ASSUME NEW i \in 1 .. n, NEW j \in 1 .. n, b[i].item = b[j].item PROVE i = j
    BY <1>3 DEF Distinct
  <2>1. n - i + 1 \in 1 .. n /\ n - j + 1 \in 1 .. n
    BY <1>4
  <2>2. PICK k \in 1 .. n, l \in 1 .. n : k = n - i + 1 /\ l = n - j + 1
    BY <2>1
  <2>3. b[i] = ops[k] /\ b[j] = ops[l]
    BY <1>3, <2>2
  <2>4. k = l
    BY <1>1, <2>3 DEF Distinct
  <2> QED BY <2>2, <2>4
<1> QED BY <1>2, <1>5, <1>6, <1>7

(* All children come back below the node.                                    *)
LEMMA ChildrenGoDown ==
  ASSUME NEW d, Good(d), d.fault = "none", NEW x \in Item, NEW p \in Item, d.tree.parent[x] = p,
         NEW ops \in Seq(Change(x, p)), Distinct(ops), x \notin Items(ops),
         Items(ops) \subseteq ChildrenOf(d.tree.parent, p)
  PROVE  Reparented(d, MovedTo(d.tree.parent, Items(ops), x), UndoReparents(d, ops).doc)
<1>1. PICK n \in Nat : n = Len(ops)
  BY LenProperties
<1>10. PICK b : b = Reverse(ops)
  OBVIOUS
<1>14. b \in Seq(Change(x, p)) /\ Len(b) = n /\ Items(b) = Items(ops) /\ Distinct(b)
  BY <1>1, <1>10, ReverseFacts, ReversedItems
<1>2. \A k \in 1 .. n : b[k] \in Change(x, p)
  BY <1>14
<1>3. PICK R : UnparentTrail(R, n, d, b) /\ InOrder(UndoReparent, d, b) = R[n]
  BY <1>14, UnparentsGoAlong
<1>11. d.tree.parent \in [Item -> ItemOrNone]
  BY GoodTree
<1>12. \A i \in 1 .. n : d.tree.parent[b[i].item] = p /\ b[i].item # x
  BY <1>14 DEF Items, ChildrenOf
<1> DEFINE W(k) == Reparented(d, MovedTo(d.tree.parent, FirstOf(b, k), x), R[k].doc)
           P == {k \in Nat : k \in 0 .. n => W(k)}
<1>4. 0 \in P
  <2>1. R[0].doc = d
    BY <1>3 DEF UnparentTrail, Done
  <2>3. W(0)
    BY <1>11, <2>1, MovedNone, FirstGrows DEF Reparented
  <2> QED BY <2>3
<1>5. ASSUME NEW k \in P PROVE k + 1 \in P
  <2>1. k \in Nat /\ (k \in 0 .. n => W(k))
    OBVIOUS
  <2>2. ASSUME k + 1 \in 0 .. n PROVE W(k + 1)
    <3>1. k + 1 \in 1 .. n /\ (k + 1) - 1 = k /\ W(k)
      BY <2>1, <2>2
    <3>2. PICK c, g : c = R[k].doc /\ g = b[k + 1]
      OBVIOUS
    <3>3. /\ Good(c) /\ c.selection = d.selection /\ c.fault = "none"
          /\ c.tree.parent = MovedTo(d.tree.parent, FirstOf(b, k), x)
      BY <3>1, <3>2 DEF Reparented
    <3>4. g \in Change(x, p) /\ g.item \in Item
      BY <1>2, <3>1, <3>2, ChangeFields
    <3>5. g.item \notin FirstOf(b, k)
      <4> SUFFICES ASSUME NEW i \in 1 .. k, g.item = b[i].item PROVE FALSE
        BY DEF FirstOf
      <4>1. i \in 1 .. Len(b) /\ k + 1 \in 1 .. Len(b) /\ i # k + 1
        BY <1>14, <3>1
      <4> QED BY <1>14, <3>2, <4>1 DEF Distinct
    <3>6. x \notin FirstOf(b, k)
      <4> SUFFICES ASSUME NEW i \in 1 .. k, x = b[i].item PROVE FALSE
        BY DEF FirstOf
      <4>1. i \in 1 .. n
        BY <3>1
      <4> QED BY <1>12, <4>1
    <3>7. c.tree.parent[x] = p /\ c.tree.parent[g.item] = p /\ g.item # x
      BY <1>12, <3>1, <3>2, <3>3, <3>4, <3>5, <3>6 DEF MovedTo
    <3>8. PICK r : r = UndoReparent(c, g)
      OBVIOUS
    <3>9. HungOn(c, g.item, x, r.doc)
      BY <3>3, <3>4, <3>7, <3>8, OneGoesDown
    <3>10. R[k + 1] = Carried(R[k], r)
      BY <1>3, <3>1, <3>2, <3>3, <3>8 DEF UnparentTrail
    <3>11. R[k + 1].doc = r.doc
      BY <3>10 DEF Carried, Done
    <3>12. r.doc.tree.parent = MovedTo(d.tree.parent, FirstOf(b, k + 1), x)
      <4>1. FirstOf(b, k + 1) = FirstOf(b, k) \cup {g.item}
        BY <2>1, <3>2, FirstGrows
      <4>2. r.doc.tree.parent = MovedTo(d.tree.parent, FirstOf(b, k) \cup {g.item}, x)
        BY <3>3, <3>9, MovedOne
      <4> QED BY <4>1, <4>2
    <3> QED BY <3>3, <3>9, <3>11, <3>12 DEF HungOn, Reparented
  <2> HIDE DEF W
  <2> QED BY <2>1, <2>2
<1>6. P \in SUBSET Nat
  OBVIOUS
<1> HIDE DEF P
<1>7. n \in P
  BY <1>4, <1>5, <1>6, NatSetInduction
<1>8. FirstOf(b, n) = Items(ops)
  BY <1>14 DEF FirstOf, Items
<1>9. UndoReparents(d, ops).doc = R[n].doc
  BY <1>3, <1>10 DEF UndoReparents, InReverse, Done
<1> QED BY <1>1, <1>7, <1>8, <1>9 DEF P

(* What a removal remembers of the tree it found. *)
Remembers(q, r) ==
  /\ r.from = q[r.item]
  /\ Distinct(r.changes) /\ Items(r.changes) = ChildrenOf(q, r.item)

(* A removal that runs as its constructor meant it. *)
RemovesExactly(d, op, r) ==
  /\ Good(r.doc) /\ r.doc.fault = "none" /\ r.doc.selection = op.selectionAfter
  /\ r.doc.tree.parent = HandedUp(d.tree.parent, op.item)
  /\ r.op.item = op.item /\ r.op.to = op.to
  /\ r.op.selectionBefore = op.selectionBefore /\ r.op.selectionAfter = op.selectionAfter
  /\ Remembers(d.tree.parent, r.op)

(* Item_insert_remove_operation::execute() of a removal takes the node out,  *)
(* and leaves what is below it in the scene.                                 *)
LEMMA RemoveExact ==
  ASSUME NEW d, Good(d), d.fault = "none", NEW op \in RemovalStep, op.to = NoItem,
         d.tree.parent[op.item] # NoItem
  PROVE  RemovesExactly(d, op, ExecuteRemove(d, op))
<1> DEFINE t == d.tree
           x == op.item
           p == t.parent[x]
           c == t.children[x]
           i == IndexInParent(t, x)
           ops == [k \in 1 .. Len(c) |-> Reparent(t, c[k], p, NoItem, NoItem)]
           moved == ExecuteReparents(d, ops)
           gone == Hang(moved.doc, x, op.to, i)
           e == [gone EXCEPT !.selection = op.selectionAfter]
           o == [op EXCEPT !.from = p, !.index = i, !.changes = moved.op]
<1>1. /\ x \in Item /\ p \in Item /\ i \in Nat
      /\ op.selectionAfter \in SUBSET Item /\ c \in Seq(Item)
      /\ \A y \in Item : y \in ToSet(c) <=> t.parent[y] = x
      /\ Injective(c) /\ t.parent \in [Item -> ItemOrNone] /\ AcyclicIn(t)
  <2>1. x \in Item /\ op.selectionAfter \in SUBSET Item
    BY RemovalRecord
  <2>2. /\ Consistent(t) /\ AcyclicIn(t)
        /\ t.parent \in [Item -> ItemOrNone] /\ t.children \in [Item -> Seq(Item)]
    BY GoodTree DEF Sane
  <2>3. i \in Nat
    BY <2>1, <2>2, IndexFacts
  <2>4. \A y \in Item : y \in ToSet(c) <=> t.parent[y] = x
    BY <2>1, <2>2 DEF Consistent, LinksAgreeIn
  <2>5. Injective(c)
    BY <2>1, <2>2, ConsistentElim
  <2>6. p \in Item
    BY <2>1, <2>2 DEF ItemOrNone
  <2> QED BY <2>1, <2>2, <2>3, <2>4, <2>5, <2>6
<1>2. ExecuteRemove(d, op) = Done(e, o)
  <2>1. ~(p = NoItem /\ c # << >>)
    OBVIOUS
  <2> QED BY <2>1 DEF ExecuteRemove
<1>3. PICK n \in Nat : n = Len(c) /\ n = Len(ops)
  BY <1>1, LenProperties
<1>4. \A k \in 1 .. n : c[k] \in Item /\ c[k] \in ToSet(c) /\ t.parent[c[k]] = x
  <2>1. ASSUME NEW k \in 1 .. n PROVE c[k] \in Item /\ c[k] \in ToSet(c)
    BY <1>1, <1>3, ElementOfSeq, ToSetDef
  <2> QED BY <1>1, <2>1
<1>5. \A k \in 1 .. n : ops[k] = Reparent(t, c[k], p, NoItem, NoItem)
  BY <1>3
<1>6. ops \in Seq(Change(x, p)) /\ \A k \in 1 .. n : ops[k].item = c[k]
  <2> HIDE DEF t, x, p, c
  <2>1. ASSUME NEW k \in 1 .. n
        PROVE  /\ Reparent(t, c[k], p, NoItem, NoItem) \in Change(x, p)
               /\ Reparent(t, c[k], p, NoItem, NoItem).item = c[k]
    BY <1>1, <1>4 DEF Reparent, Change, ReparentStep, ItemOrNone
  <2> QED BY <1>3, <2>1
<1> HIDE DEF ops
<1>7. Distinct(ops)
  <2> SUFFICES ASSUME NEW j \in 1 .. n, NEW k \in 1 .. n, ops[j].item = ops[k].item PROVE j = k
    BY <1>3 DEF Distinct
  <2> QED BY <1>1, <1>3, <1>6 DEF Injective
<1>8. Items(ops) = ChildrenOf(t.parent, x)
  <2>1. ASSUME NEW y \in ChildrenOf(t.parent, x) PROVE y \in Items(ops)
    <3>1. y \in ToSet(c)
      BY <1>1, <2>1 DEF ChildrenOf
    <3>3. PICK s : s = c /\ s \in Seq(Item) /\ n = Len(s) /\ y \in ToSet(s)
      BY <1>1, <1>3, <3>1
    <3>4. \E k \in 1 .. n : s[k] = y
      BY <3>3, ToSetDef
    <3>2. PICK k \in 1 .. n : c[k] = y
      BY <3>3, <3>4
    <3> QED BY <1>3, <1>6, <3>2 DEF Items
  <2>2. Items(ops) \subseteq ChildrenOf(t.parent, x)
    BY <1>3, <1>4, <1>6 DEF Items, ChildrenOf
  <2> QED BY <2>1, <2>2
<1>9. GoneUp(d, x, p, ChildrenOf(t.parent, x), ops, n, moved)
  <2> HIDE DEF x, p, moved
  <2>1. Items(ops) \subseteq ChildrenOf(d.tree.parent, x) /\ d.tree.parent[x] = p
    BY <1>8 DEF p
  <2>2. GoneUp(d, x, p, Items(ops), ops, Len(ops), ExecuteReparents(d, ops))
    BY <1>1, <1>6, <1>7, <2>1, ChildrenGoUp
  <2> QED BY <1>3, <1>8, <2>2 DEF moved
<1> HIDE DEF moved
<1>10. PICK m, h : m = moved.doc /\ h = moved.op
  OBVIOUS
<1>11. /\ Good(m) /\ m.fault = "none"
       /\ m.tree.parent = MovedTo(t.parent, ChildrenOf(t.parent, x), p)
       /\ h \in Seq(Change(x, p)) /\ Len(h) = n /\ \A k \in 1 .. n : h[k].item = ops[k].item
  BY <1>9, <1>10 DEF GoneUp, Reparented
<1>12. Distinct(h) /\ Items(h) = ChildrenOf(t.parent, x)
  BY <1>3, <1>7, <1>8, <1>11 DEF Distinct, Items
<1>13. PICK g : g = Hang(m, x, NoItem, i)
  OBVIOUS
<1>14. HungOn(m, x, NoItem, g)
  <2>1. MayAdopt(m.tree, NoItem, x) /\ NoItem \in ItemOrNone
    BY DEF MayAdopt, ItemOrNone
  <2> HIDE DEF x, i
  <2> QED BY <1>1, <1>11, <1>13, <2>1, HangMoves
<1>15. g.tree.parent = HandedUp(t.parent, x)
  <2>1. g.tree.parent = [MovedTo(t.parent, ChildrenOf(t.parent, x), p) EXCEPT ![x] = NoItem]
    BY <1>11, <1>14 DEF HungOn
  <2> HIDE DEF x, t
  <2> QED BY <1>1, <2>1 DEF MovedTo, ChildrenOf, HandedUp, p
<1>16. gone = g
  BY <1>10, <1>13
<1>17. /\ Good(e) /\ e.tree = g.tree /\ e.fault = "none" /\ e.selection = op.selectionAfter
  <2>1. Good(g) /\ g.fault = "none"
    BY <1>11, <1>14 DEF HungOn
  <2>2. op.selectionAfter \in SUBSET Item /\ e = [g EXCEPT !.selection = op.selectionAfter]
    BY <1>1, <1>16
  <2> HIDE DEF e
  <2>3. Selecting(g, op.selectionAfter, e)
    BY ONLY <2>1, <2>2, SelectedGood
  <2> QED BY <2>1, <2>3 DEF Selecting
<1>18. /\ o.item = x /\ o.to = op.to /\ o.from = p /\ o.changes = h
       /\ o.selectionBefore = op.selectionBefore /\ o.selectionAfter = op.selectionAfter
  <2>1. PICK q : q = p
    OBVIOUS
  <2>2. o = [op EXCEPT !.from = q, !.index = i, !.changes = h]
    BY <1>10, <2>1
  <2>3. op \in InsertRemoveStep
    BY DEF RemovalStep
  <2> HIDE DEF o, p, i
  <2>4. /\ o.item = op.item /\ o.to = op.to /\ o.from = q /\ o.changes = h
        /\ o.selectionBefore = op.selectionBefore /\ o.selectionAfter = op.selectionAfter
    BY <2>2, <2>3 DEF InsertRemoveStep
  <2> QED BY <2>1, <2>4
<1>19. Remembers(t.parent, o)
  <2> HIDE DEF o
  <2> QED BY <1>12, <1>18 DEF Remembers
<1>20. Done(e, o).doc = e /\ Done(e, o).op = o
  BY DEF Done
<1> HIDE DEF e, o
<1> QED BY <1>2, <1>15, <1>17, <1>18, <1>19, <1>20 DEF RemovesExactly

-----------------------------------------------------------------------------
(* A removal that is undone: the parents are what they were. *)
RestoresExactly(q, op, r) ==
  /\ Good(r.doc) /\ r.doc.fault = "none" /\ r.doc.selection = op.selectionBefore
  /\ r.doc.tree.parent = q
  /\ r.op.item = op.item /\ r.op.to = NoItem
  /\ r.op.selectionBefore = op.selectionBefore /\ r.op.selectionAfter = op.selectionAfter

(* Its undo() makes the tree what it was.                                    *)
LEMMA UnremoveExact ==
  ASSUME NEW a, a.parent \in [Item -> ItemOrNone], AcyclicIn(a),
         NEW d, Good(d), d.fault = "none", NEW op \in RemovalStep,
         a.parent[op.item] # NoItem, d.tree.parent = HandedUp(a.parent, op.item),
         Remembers(a.parent, op)
  PROVE  RestoresExactly(a.parent, op, UndoInsertRemove(d, op))
<1> DEFINE x == op.item
           p == op.from
           back == Hang(d, x, p, op.index)
           restored == UndoReparents(back, op.changes)
           e == [restored.doc EXCEPT !.selection = op.selectionBefore]
           o == [op EXCEPT !.to = d.tree.parent[x]]
<1>1. /\ x \in Item /\ op.index \in Nat /\ op.kind = "remove"
      /\ op.changes \in Seq(Change(x, p)) /\ op.selectionBefore \in SUBSET Item
  BY RemovalRecord
<1>2. UndoInsertRemove(d, op) = Done(e, o)
  BY <1>1 DEF UndoInsertRemove
<1>3. /\ p = a.parent[x] /\ p \in Item /\ p \in ItemOrNone
      /\ Distinct(op.changes) /\ Items(op.changes) = ChildrenOf(a.parent, x)
  BY <1>1 DEF Remembers, ItemOrNone
<1>4. PICK q, z, C : q = a.parent /\ z = x /\ C = op.changes
  OBVIOUS
<1>5. p # x
  <2>1. \E y \in {x} : a.parent[y] \notin {x}
    BY <1>1 DEF AcyclicIn
  <2> QED BY <1>3, <2>1
<1>6. d.tree.parent = HandedUp(q, x) /\ q \in [Item -> ItemOrNone] /\ q[x] = p
  BY <1>3, <1>4
<1> HIDE DEF x, p
<1>7. \A y \in Item : d.tree.parent[y] # x
  BY <1>1, <1>5, <1>6, NoItemAssumption DEF HandedUp
<1>8. MayAdopt(d.tree, p, x)
  <2>1. d.tree.parent \in [Item -> ItemOrNone]
    BY GoodTree
  <2>2. ~IsAncestor(d.tree, x, p)
    BY <1>1, <1>3, <1>7, <2>1, ChildlessIsNoAncestor
  <2> QED BY <1>5, <2>2 DEF MayAdopt
<1>9. HungOn(d, x, p, back)
  BY <1>1, <1>3, <1>8, HangMoves
<1> HIDE DEF back
<1>10. /\ Good(back) /\ back.fault = "none"
       /\ back.tree.parent = [HandedUp(q, x) EXCEPT ![x] = p]
  BY <1>6, <1>9 DEF HungOn
<1>11. back.tree.parent = [y \in Item |-> IF q[y] = x THEN p ELSE q[y]]
  BY <1>1, <1>3, <1>5, <1>6, <1>10 DEF HandedUp
<1>12. /\ back.tree.parent[x] = p /\ x \notin ChildrenOf(q, x)
       /\ ChildrenOf(q, x) \subseteq ChildrenOf(back.tree.parent, p)
  BY <1>1, <1>5, <1>6, <1>11 DEF ChildrenOf
<1>13. Reparented(back, MovedTo(back.tree.parent, ChildrenOf(q, x), x), restored.doc)
  <2>1. C \in Seq(Change(x, p)) /\ Distinct(C) /\ Items(C) = ChildrenOf(q, x)
    BY <1>1, <1>3, <1>4
  <2>2. Reparented(back, MovedTo(back.tree.parent, Items(C), x), UndoReparents(back, C).doc)
    BY <1>1, <1>3, <1>10, <1>12, <2>1, ChildrenGoDown
  <2> QED BY <1>4, <2>1, <2>2
<1>14. MovedTo(back.tree.parent, ChildrenOf(q, x), x) = q
  BY <1>6, <1>11 DEF MovedTo, ChildrenOf
<1> HIDE DEF restored
<1>15. Good(restored.doc) /\ restored.doc.fault = "none" /\ restored.doc.tree.parent = q
  BY <1>10, <1>13, <1>14 DEF Reparented
<1>16. /\ Good(e) /\ e.tree.parent = q /\ e.fault = "none" /\ e.selection = op.selectionBefore
  <2>1. PICK h : h = restored.doc
    OBVIOUS
  <2>2. /\ Good(h) /\ op.selectionBefore \in SUBSET Item
        /\ e = [h EXCEPT !.selection = op.selectionBefore]
    BY <1>1, <1>15, <2>1
  <2> HIDE DEF e
  <2>3. Selecting(h, op.selectionBefore, e)
    BY ONLY <2>2, SelectedGood
  <2> QED BY <1>15, <2>1, <2>3 DEF Selecting
<1>17. d.tree.parent[x] = NoItem
  BY <1>1, <1>6 DEF HandedUp
<1>18. /\ o.item = op.item /\ o.to = NoItem
       /\ o.selectionBefore = op.selectionBefore /\ o.selectionAfter = op.selectionAfter
  <2>1. o = [op EXCEPT !.to = NoItem]
    BY <1>17
  <2>2. op \in InsertRemoveStep
    BY DEF RemovalStep
  <2> HIDE DEF o
  <2> QED BY <2>1, <2>2 DEF InsertRemoveStep
<1>19. Done(e, o).doc = e /\ Done(e, o).op = o
  BY DEF Done
<1> HIDE DEF e, o
<1> QED BY <1>2, <1>4, <1>16, <1>18, <1>19 DEF RestoresExactly

(* What the operations are about: who hangs where, and what the meshes are. *)
Picture(s) == [parent |-> s.doc.tree.parent, mesh |-> s.mesh]

(* A picture of a tree that is sound. *)
Sound(a) ==
  /\ a = [parent |-> a.parent, mesh |-> a.mesh]
  /\ a.parent \in [Item -> ItemOrNone] /\ AcyclicIn(a) /\ a.mesh \in [HasMesh -> Content]

(* The picture of a state that is well formed.                               *)
LEMMA PictureSound ==
  ASSUME NEW s, GoodState(s)
  PROVE  /\ Sound(Picture(s)) /\ InScene(Picture(s)) = InScene(s.doc.tree)
         /\ Picture(s).parent = s.doc.tree.parent /\ Picture(s).mesh = s.mesh
<1>1. PICK a : a = Picture(s)
  OBVIOUS
<1>2. a.parent = s.doc.tree.parent /\ a.mesh = s.mesh /\ a = [parent |-> a.parent, mesh |-> a.mesh]
  BY <1>1 DEF Picture
<1>3. AcyclicIn(s.doc.tree) /\ s.doc.tree.parent \in [Item -> ItemOrNone]
  BY GoodTree DEF GoodState
<1>4. AcyclicIn(a)
  BY <1>2, <1>3 DEF AcyclicIn
<1>5. InScene(a) = InScene(s.doc.tree)
  BY <1>2, SameScene
<1> QED BY <1>1, <1>2, <1>3, <1>4, <1>5 DEF Sound, GoodState

-----------------------------------------------------------------------------
(* What a worker makes of the picture it found. *)
MadeEdit(a, op) ==
  /\ op.entries # << >> /\ Distinct(op.entries)
  /\ \A i \in 1 .. Len(op.entries) :
       /\ op.entries[i].item \in InScene(a)
       /\ op.entries[i].before = a.mesh[op.entries[i].item]
       /\ op.entries[i].after = Append(op.entries[i].before, op.click)

(* A merge made from picture a: no node is above the first, which stays. *)
MadeMerge(a, op) ==
  /\ op.entries # << >> /\ Distinct(op.entries)
  /\ \A i \in 1 .. Len(op.entries) :
       /\ op.entries[i].item \in InScene(a)
       /\ op.entries[i].before = a.mesh[op.entries[i].item]
       /\ op.entries[i].parent = a.parent[op.entries[i].item]
       /\ ~IsAncestor(a, op.entries[i].item, op.entries[1].item)
  /\ op.entries[1].after =
       Append(FlattenSeq([i \in DOMAIN op.entries |-> a.mesh[op.entries[i].item]]), op.click)
  /\ op.selectionBefore \subseteq InScene(a)

(* The removal of a node of picture a. *)
MadeRemoval(a, r) ==
  /\ r.item \in InScene(a) \ {Root} /\ r.to = NoItem
  /\ r.selectionBefore \subseteq InScene(a) /\ r.selectionAfter = {}

(* An operation made from picture a. *)
Made(a, op) ==
  CASE op.kind = "edit"   -> MadeEdit(a, op)
    [] op.kind = "merge"  -> MadeMerge(a, op)
    [] op.kind = "remove" -> MadeRemoval(a, op.steps[1])

(* The picture once the operation has run. *)
After(a, op) ==
  [parent |-> CASE op.kind = "edit"   -> a.parent
                [] op.kind = "merge"  -> LeftOut(a.parent, Items(Tail(op.entries)))
                [] op.kind = "remove" -> HandedUp(a.parent, op.steps[1].item),
   mesh |-> Applied(a.mesh, op)]

(* What a removal that has run needs to be undone. *)
Captures(a, op) == op.kind = "remove" => Remembers(a.parent, op.steps[1])

(* A run that leaves picture b. *)
Leaves(s, b) ==
  /\ GoodState(s) /\ s.doc.fault = "none" /\ Picture(s) = b
  /\ s.doc.selection \subseteq InScene(b)

-----------------------------------------------------------------------------
(* What the entries of distinct nodes make of the meshes. *)
WrittenIn(entries, which, m, w) ==
  /\ w \in [HasMesh -> Content]
  /\ \A i \in 1 .. Len(entries) : w[entries[i].item] = entries[i][which]
  /\ \A x \in HasMesh \ Items(entries) : w[x] = m[x]

(* What a Mesh_operation writes. *)
LEMMA EditedMesh ==
  ASSUME NEW s, GoodState(s), NEW entries \in Seq(MeshEntry), Distinct(entries),
         NEW which \in {"before", "after"}
  PROVE  WrittenIn(entries, which, s.mesh, Edited(s, entries, which).mesh)
<1>1. PICK w : w = [x \in HasMesh |->
                      IF \E e \in ToSet(entries) : e.item = x
                      THEN (CHOOSE e \in ToSet(entries) : e.item = x)[which] ELSE s.mesh[x]]
  OBVIOUS
<1>2. Edited(s, entries, which).mesh = w
  BY <1>1 DEF Edited
<1>3. PICK n \in Nat : n = Len(entries) /\ \A i \in 1 .. n : entries[i] \in MeshEntry
  BY LenProperties
<1>4. w \in [HasMesh -> Content]
  BY <1>2, EditedGood DEF GoodState
<1>5. ASSUME NEW i \in 1 .. n PROVE w[entries[i].item] = entries[i][which]
  <2>1. PICK x \in HasMesh : x = entries[i].item
    BY <1>3, MeshEntryFields
  <2>2. PICK f : f = entries[i]
    OBVIOUS
  <2>3. f \in ToSet(entries) /\ f.item = x
    BY <1>3, <2>1, <2>2, ToSetDef
  <2>4. PICK e : e = CHOOSE g \in ToSet(entries) : g.item = x
    OBVIOUS
  <2>5. e \in ToSet(entries) /\ e.item = x
    BY <2>3, <2>4
  <2>6. PICK j \in 1 .. n : entries[j] = e
    BY <1>3, <2>5, ToSetDef
  <2>7. i = j
    BY <1>3, <2>1, <2>5, <2>6 DEF Distinct
  <2>8. w[x] = e[which]
    BY <1>1, <2>3, <2>4
  <2> QED BY <2>1, <2>6, <2>7, <2>8
<1>6. ASSUME NEW x \in HasMesh, x \notin Items(entries) PROVE w[x] = s.mesh[x]
  <2>1. ~(\E e \in ToSet(entries) : e.item = x)
    <3> SUFFICES ASSUME NEW e \in ToSet(entries), e.item = x PROVE FALSE
      OBVIOUS
    <3>1. PICK j \in 1 .. n : entries[j] = e
      BY <1>3, ToSetDef
    <3> QED BY <1>3, <1>6, <3>1 DEF Items
  <2> QED BY <1>1, <2>1
<1> QED BY <1>2, <1>3, <1>4, <1>5, <1>6 DEF WrittenIn

(* The nodes of the entries, as Applied() lists them. *)
LEMMA EntryItems ==
  ASSUME NEW entries \in Seq(MeshEntry), NEW s, s = [i \in DOMAIN entries |-> entries[i].item]
  PROVE  /\ Len(s) = Len(entries) /\ DOMAIN s = 1 .. Len(entries) /\ s \in Seq(HasMesh)
         /\ \A i \in 1 .. Len(entries) : s[i] = entries[i].item /\ entries[i].item \in HasMesh
         /\ \A x : Contains(s, x) <=> x \in Items(entries)
         /\ entries # << >> => s # << >> /\ 1 \in 1 .. Len(entries)
<1>1. PICK n \in Nat : n = Len(entries) /\ DOMAIN entries = 1 .. n
  BY LenProperties
<1>2. \A i \in 1 .. n : entries[i].item \in HasMesh
  BY <1>1, MeshEntryFields
<1>3. s \in Seq(HasMesh) /\ Len(s) = n /\ \A i \in 1 .. n : s[i] = entries[i].item
  BY <1>1, <1>2
<1>4. \A x : Contains(s, x) <=> x \in Items(entries)
  BY <1>1, <1>3 DEF Contains, Items
<1>5. entries # << >> => n >= 1
  BY <1>1
<1> QED BY <1>1, <1>2, <1>3, <1>4, <1>5

(* A Mesh_operation writes what Applied() says, and takes it back. *)
LEMMA EditWrites ==
  ASSUME NEW a, Sound(a), NEW op \in MeshOps, op.kind = "edit", MadeEdit(a, op),
         NEW w, WrittenIn(op.entries, "after", a.mesh, w)
  PROVE  w = Applied(a.mesh, op)
<1>1. op.entries \in Seq(MeshEntry)
  BY DEF MeshOps
<1>2. PICK s : s = [i \in DOMAIN op.entries |-> op.entries[i].item]
  OBVIOUS
<1>3. \A x : Contains(s, x) <=> x \in Items(op.entries)
  BY <1>1, <1>2, EntryItems
<1>4. Applied(a.mesh, op) = [x \in HasMesh |-> IF Contains(s, x) THEN Append(a.mesh[x], op.click) ELSE a.mesh[x]]
  BY <1>2 DEF Applied
<1>5. ASSUME NEW x \in HasMesh
      PROVE w[x] = IF Contains(s, x) THEN Append(a.mesh[x], op.click) ELSE a.mesh[x]
  <2>1. CASE x \in Items(op.entries)
    <3>1. PICK i \in 1 .. Len(op.entries) : x = op.entries[i].item
      BY <2>1 DEF Items
    <3>2. op.entries[i].after = Append(a.mesh[x], op.click)
      BY <3>1 DEF MadeEdit
    <3>3. op.entries[i] \in MeshEntry
      BY <1>1
    <3>4. w[x] = op.entries[i].after
      BY <3>1, <3>3, MeshEntryFields DEF WrittenIn
    <3> QED BY <1>3, <2>1, <3>2, <3>4
  <2>2. CASE x \notin Items(op.entries)
    BY <1>3, <2>2 DEF WrittenIn
  <2> QED BY <2>1, <2>2
<1>6. w \in [HasMesh -> Content]
  BY DEF WrittenIn
<1> QED BY <1>4, <1>5, <1>6

(* Its undo() writes the meshes that the picture had.                        *)
LEMMA EditUnwrites ==
  ASSUME NEW a, Sound(a), NEW op \in MeshOps, op.kind = "edit", MadeEdit(a, op),
         NEW w, WrittenIn(op.entries, "before", Applied(a.mesh, op), w)
  PROVE  w = a.mesh
<1>1. op.entries \in Seq(MeshEntry)
  BY DEF MeshOps
<1>2. PICK s : s = [i \in DOMAIN op.entries |-> op.entries[i].item]
  OBVIOUS
<1>3. \A x : Contains(s, x) <=> x \in Items(op.entries)
  BY <1>1, <1>2, EntryItems
<1>4. Applied(a.mesh, op) = [x \in HasMesh |-> IF Contains(s, x) THEN Append(a.mesh[x], op.click) ELSE a.mesh[x]]
  BY <1>2 DEF Applied
<1>5. ASSUME NEW x \in HasMesh PROVE w[x] = a.mesh[x]
  <2>1. CASE x \in Items(op.entries)
    <3>1. PICK i \in 1 .. Len(op.entries) : x = op.entries[i].item
      BY <2>1 DEF Items
    <3>2. op.entries[i].before = a.mesh[x]
      BY <3>1 DEF MadeEdit
    <3>3. op.entries[i] \in MeshEntry
      BY <1>1
    <3>4. w[x] = op.entries[i].before
      BY <3>1, <3>3, MeshEntryFields DEF WrittenIn
    <3> QED BY <3>2, <3>4
  <2>2. CASE x \notin Items(op.entries)
    BY <1>3, <1>4, <2>2 DEF WrittenIn
  <2> QED BY <2>1, <2>2
<1>6. w \in [HasMesh -> Content] /\ a.mesh \in [HasMesh -> Content]
  BY DEF WrittenIn, Sound
<1> QED BY <1>5, <1>6

(* A Mesh_operation that runs in, or is undone from, a scene with its nodes. *)
LEMMA EditKeepsPlaces ==
  ASSUME NEW s, NEW b, Leaves(s, b), NEW op \in MeshOps, op.entries # << >>,
         op.entries[1].item \in InScene(b), Distinct(op.entries),
         NEW which \in {"before", "after"}, NEW r, r = Edited(s, op.entries, which)
  PROVE  /\ Hosted(s, op) /\ GoodState(r) /\ r.doc.fault = "none"
         /\ r.doc.tree.parent = b.parent /\ r.doc.selection \subseteq InScene(b)
         /\ WrittenIn(op.entries, which, b.mesh, r.mesh)
<1>1. op.entries \in Seq(MeshEntry) /\ op.entries \in Seq(Entry)
  BY EntriesType DEF MeshOps
<1>2. /\ GoodState(s) /\ Good(s.doc) /\ s.doc.fault = "none" /\ s.doc.tree.parent = b.parent
      /\ s.mesh = b.mesh /\ InScene(s.doc.tree) = InScene(b) /\ s.doc.selection \subseteq InScene(b)
  BY PictureSound DEF Leaves, GoodState
<1>3. Hosted(s, op)
  BY <1>2 DEF Hosted
<1>4. GoodState(r) /\ r.doc = PlacedInOrder(s.doc, op.entries, "same")
  BY <1>1, <1>2, EditedGood
<1>5. Reparented(s.doc, s.doc.tree.parent, r.doc)
  BY <1>1, <1>2, <1>4, PlacedSame
<1>6. WrittenIn(op.entries, which, s.mesh, r.mesh)
  BY <1>1, <1>2, EditedMesh
<1> QED BY <1>2, <1>3, <1>4, <1>5, <1>6 DEF Reparented

(* Two pictures with the same parents show the same scene. *)
LEMMA LeavesIntro ==
  ASSUME NEW r, GoodState(r), r.doc.fault = "none", NEW b, b = [parent |-> b.parent, mesh |-> b.mesh],
         r.doc.tree.parent = b.parent, r.mesh = b.mesh, r.doc.selection \subseteq InScene(b)
  PROVE  Leaves(r, b)
<1>1. Picture(r) = b
  BY DEF Picture
<1> QED BY <1>1 DEF Leaves

(* The parts of the picture after an operation.                              *)
LEMMA AfterFields ==
  ASSUME NEW a, NEW op
  PROVE  /\ After(a, op) = [parent |-> After(a, op).parent, mesh |-> After(a, op).mesh]
         /\ After(a, op).mesh = Applied(a.mesh, op)
         /\ op.kind = "edit" => After(a, op).parent = a.parent
         /\ op.kind = "merge" => After(a, op).parent = LeftOut(a.parent, Items(Tail(op.entries)))
         /\ op.kind = "remove" => After(a, op).parent = HandedUp(a.parent, op.steps[1].item)
<1>1. PICK p : p = CASE op.kind = "edit"   -> a.parent
                     [] op.kind = "merge"  -> LeftOut(a.parent, Items(Tail(op.entries)))
                     [] op.kind = "remove" -> HandedUp(a.parent, op.steps[1].item)
  OBVIOUS
<1>2. /\ op.kind = "edit" => p = a.parent
      /\ op.kind = "merge" => p = LeftOut(a.parent, Items(Tail(op.entries)))
      /\ op.kind = "remove" => p = HandedUp(a.parent, op.steps[1].item)
  <2>1. CASE op.kind = "edit"
    BY <1>1, <2>1
  <2>2. CASE op.kind = "merge"
    BY <1>1, <2>2
  <2>3. CASE op.kind = "remove"
    BY <1>1, <2>3
  <2> QED BY <2>1, <2>2, <2>3
<1>3. After(a, op) = [parent |-> p, mesh |-> Applied(a.mesh, op)]
  BY <1>1 DEF After
<1> QED BY <1>2, <1>3

(* Mesh_operation::execute() leaves the picture that it should, and undo()   *)
(* the one before.                                                           *)
LEMMA EditExact ==
  ASSUME NEW s, NEW a, Leaves(s, a), Sound(a), NEW op \in MeshOps, op.kind = "edit", MadeEdit(a, op)
  PROVE  Leaves(ExecuteEdit(s, op), After(a, op))
<1>1. op.entries # << >> /\ Distinct(op.entries) /\ op.entries[1].item \in InScene(a)
  <2>1. 1 \in 1 .. Len(op.entries)
    BY EntryItems DEF MadeEdit, MeshOps
  <2> QED BY <2>1 DEF MadeEdit
<1>2. PICK r : r = Edited(s, op.entries, "after")
  OBVIOUS
<1>3. /\ Hosted(s, op) /\ GoodState(r) /\ r.doc.fault = "none"
      /\ r.doc.tree.parent = a.parent /\ r.doc.selection \subseteq InScene(a)
      /\ WrittenIn(op.entries, "after", a.mesh, r.mesh)
  BY <1>1, <1>2, EditKeepsPlaces
<1>4. PICK b : b = After(a, op)
  OBVIOUS
<1>5. /\ b = [parent |-> b.parent, mesh |-> b.mesh] /\ b.parent = a.parent
      /\ b.mesh = Applied(a.mesh, op)
  BY <1>4, AfterFields
<1>6. r.mesh = b.mesh
  BY <1>3, <1>5, EditWrites
<1>7. InScene(b) = InScene(a)
  BY <1>5, SameScene
<1>8. Leaves(r, b)
  BY <1>3, <1>5, <1>6, <1>7, LeavesIntro
<1> QED BY <1>2, <1>3, <1>4, <1>8 DEF ExecuteEdit

(* The undo() of a Mesh_operation.                                           *)
LEMMA UneditExact ==
  ASSUME NEW s, NEW a, Sound(a), NEW op \in MeshOps, op.kind = "edit", MadeEdit(a, op),
         Leaves(s, After(a, op))
  PROVE  Leaves(UndoEdit(s, op), a)
<1>4. PICK b : b = After(a, op)
  OBVIOUS
<1>5. /\ b.parent = a.parent /\ b.mesh = Applied(a.mesh, op)
  BY <1>4, AfterFields
<1>7. InScene(b) = InScene(a)
  BY <1>5, SameScene
<1>1. op.entries # << >> /\ Distinct(op.entries) /\ op.entries[1].item \in InScene(b)
  <2>1. 1 \in 1 .. Len(op.entries)
    BY EntryItems DEF MadeEdit, MeshOps
  <2> QED BY <1>7, <2>1 DEF MadeEdit
<1>2. PICK r : r = Edited(s, op.entries, "before")
  OBVIOUS
<1>3. /\ Hosted(s, op) /\ GoodState(r) /\ r.doc.fault = "none"
      /\ r.doc.tree.parent = b.parent /\ r.doc.selection \subseteq InScene(b)
      /\ WrittenIn(op.entries, "before", b.mesh, r.mesh)
  BY <1>1, <1>2, <1>4, EditKeepsPlaces
<1>6. r.mesh = a.mesh
  BY <1>3, <1>5, EditUnwrites
<1>8. Leaves(r, a)
  BY <1>3, <1>5, <1>6, <1>7, LeavesIntro DEF Sound
<1> QED BY <1>2, <1>3, <1>8 DEF UndoEdit

-----------------------------------------------------------------------------
(* A node stays in the scene when nodes are taken out that are not above it. *)
LEMMA StillInScene ==
  ASSUME NEW a, a.parent \in [Item -> ItemOrNone], NEW X, NEW u, u.parent = LeftOut(a.parent, X),
         NEW x \in InScene(a), x \notin X, \A y \in X : ~IsAncestor(a, y, x)
  PROVE  x \in InScene(u)
<1>1. x \in Item
  BY DEF InScene, Subtree
<1>2. CASE x = Root
  BY <1>1, <1>2 DEF InScene, Subtree
<1>3. CASE x # Root
  <2>1. IsAncestor(a, Root, x)
    BY <1>3 DEF InScene, Subtree
  <2>2. u.parent[x] = a.parent[x] /\ a.parent[x] # NoItem
    BY <1>1, <2>1 DEF LeftOut, IsAncestor
  <2>3. ASSUME NEW S \in SUBSET Item, UpwardClosed(u, S), a.parent[x] \in S
        PROVE  Root \in S
    <3> DEFINE V == {y \in S : IsAncestor(a, y, x)}
    <3>1. a.parent[x] \in V
      BY <2>2, <2>3 DEF IsAncestor
    <3>2. ASSUME NEW y \in V, a.parent[y] # NoItem PROVE a.parent[y] \in V
      <4>1. y \in Item /\ y \in S /\ y \notin X
        OBVIOUS
      <4>2. u.parent[y] = a.parent[y]
        BY <4>1 DEF LeftOut
      <4>3. a.parent[y] \in S
        BY <2>3, <3>2, <4>1, <4>2 DEF UpwardClosed
      <4>4. IsAncestor(a, a.parent[y], x)
        BY <3>2 DEF IsAncestor, UpwardClosed
      <4> QED BY <4>3, <4>4
    <3>3. UpwardClosed(a, V) /\ V \in SUBSET Item
      BY <3>2 DEF UpwardClosed
    <3>4. Root \in V
      <4> HIDE DEF V
      <4> QED BY <2>1, <3>1, <3>3 DEF IsAncestor
    <3> QED BY <3>4
  <2> QED BY <1>1, <2>2, <2>3, RootAssumption DEF InScene, Subtree, IsAncestor
<1> QED BY <1>2, <1>3

(* The first entry of a merge, whose node stays, and the others.            *)
Parts(a, op, e, rest) ==
  /\ << e >> \in Seq(MeshEntry) /\ rest \in Seq(MeshEntry) /\ rest \in Seq(Entry)
  /\ e \in MeshEntry /\ e.item \in HasMesh /\ e.item \in Item /\ e.item \in InScene(a)
  /\ e.before = a.mesh[e.item] /\ Distinct(<< e >>)
  /\ e.item \notin Items(rest) /\ \A y \in Items(rest) : ~IsAncestor(a, y, e.item)
  /\ \A i \in 1 .. Len(rest) : rest[i].parent = a.parent[rest[i].item]
  /\ op.selectionBefore \subseteq InScene(a) /\ op.selectionBefore \in SUBSET Item

(* What holds of the entries of a merge made from a picture.                 *)
LEMMA MergeParts ==
  ASSUME NEW a, Sound(a), NEW op \in MeshOps, op.kind = "merge", MadeMerge(a, op),
         NEW e, e = op.entries[1], NEW rest, rest = Tail(op.entries)
  PROVE  Parts(a, op, e, rest)
<1>1. op.entries \in Seq(MeshEntry) /\ op.entries # << >> /\ op.selectionBefore \in SUBSET Item
  BY DEF MeshOps, MadeMerge
<1>2. PICK n \in Nat : n = Len(op.entries) /\ n >= 1
  BY <1>1, EntryItems
<1>3. 1 \in 1 .. n
  BY <1>2
<1>4. e \in MeshEntry /\ rest \in Seq(MeshEntry) /\ Len(rest) = n - 1
      /\ \A i \in 1 .. n - 1 : rest[i] = op.entries[i + 1] /\ i + 1 \in 1 .. n
  BY <1>1, <1>2
<1>5. << e >> \in Seq(MeshEntry) /\ rest \in Seq(Entry) /\ e.item \in HasMesh /\ e.item \in Item
  BY <1>4, MeshEntryFields, EntriesType
<1>6. e.item \in InScene(a) /\ e.before = a.mesh[e.item]
  BY <1>2, <1>3 DEF MadeMerge
<1>7. Distinct(<< e >>)
  BY DEF Distinct
<1>8. ASSUME NEW i \in 1 .. n - 1
      PROVE  /\ rest[i].item # e.item /\ ~IsAncestor(a, rest[i].item, e.item)
             /\ rest[i].parent = a.parent[rest[i].item]
  <2>1. PICK j \in 1 .. n : j = i + 1 /\ j # 1 /\ rest[i] = op.entries[j]
    BY <1>4
  <2>2. op.entries[j].item # op.entries[1].item
    BY <1>2, <1>3, <2>1 DEF MadeMerge, Distinct
  <2> QED BY <1>2, <2>1, <2>2 DEF MadeMerge
<1>9. e.item \notin Items(rest) /\ \A y \in Items(rest) : ~IsAncestor(a, y, e.item)
  BY <1>4, <1>8 DEF Items
<1>10. op.selectionBefore \subseteq InScene(a)
  BY DEF MadeMerge
<1> QED BY <1>1, <1>4, <1>5, <1>6, <1>7, <1>8, <1>9, <1>10 DEF Parts

(* What Applied() says of a merge. *)
LEMMA MergeApplied ==
  ASSUME NEW a, Sound(a), NEW op \in MeshOps, op.kind = "merge", MadeMerge(a, op),
         NEW e, e = op.entries[1]
  PROVE  Applied(a.mesh, op) = [a.mesh EXCEPT ![e.item] = e.after]
<1>1. op.entries \in Seq(MeshEntry) /\ op.entries # << >>
  BY DEF MeshOps, MadeMerge
<1>2. PICK s : s = [i \in DOMAIN op.entries |-> op.entries[i].item]
  OBVIOUS
<1>3. PICK n \in Nat : n = Len(op.entries) /\ DOMAIN op.entries = 1 .. n
  BY <1>1, LenProperties
<1>4. /\ DOMAIN s = 1 .. n /\ s # << >> /\ s[1] = e.item
      /\ \A i \in 1 .. n : s[i] = op.entries[i].item
  BY <1>1, <1>2, <1>3, EntryItems
<1>5. PICK parts : parts = [i \in 1 .. n |-> a.mesh[op.entries[i].item]]
  OBVIOUS
<1>6. [i \in DOMAIN s |-> a.mesh[s[i]]] = parts
  BY <1>4, <1>5
<1>7. e.after = Append(FlattenSeq(parts), op.click)
  BY <1>3, <1>5 DEF MadeMerge
<1>8. Applied(a.mesh, op) = [a.mesh EXCEPT ![s[1]] = Append(FlattenSeq([i \in DOMAIN s |-> a.mesh[s[i]]]), op.click)]
  BY <1>2, <1>4 DEF Applied
<1> QED BY <1>4, <1>6, <1>7, <1>8

(* One entry writes one mesh.                                                *)
LEMMA OneWritten ==
  ASSUME NEW e \in MeshEntry, NEW which \in {"before", "after"}, NEW m \in [HasMesh -> Content],
         NEW w, WrittenIn(<< e >>, which, m, w)
  PROVE  w = [m EXCEPT ![e.item] = e[which]]
<1>1. Len(<< e >>) = 1 /\ << e >>[1] = e /\ 1 \in 1 .. 1
  OBVIOUS
<1>2. PICK es : es = << e >>
  OBVIOUS
<1>3. Len(es) = 1 /\ es[1] = e /\ Items(es) = {e.item}
  BY <1>1, <1>2 DEF Items
<1>4. w \in [HasMesh -> Content] /\ w[es[1].item] = es[1][which]
      /\ \A x \in HasMesh \ Items(es) : w[x] = m[x]
  BY <1>2, <1>3 DEF WrittenIn
<1>5. e.item \in HasMesh
  BY MeshEntryFields
<1> QED BY <1>3, <1>4, <1>5

(* The first node of a merge, in its place with its new or its old mesh. *)
FirstAs(f, b, e, content) ==
  /\ GoodState(f) /\ f.doc.fault = "none" /\ f.doc.tree.parent = b.parent
  /\ f.mesh = [b.mesh EXCEPT ![e.item] = content]

(* The first node, taken out and put back.                                   *)
LEMMA FirstPlaced ==
  ASSUME NEW s, NEW b, Leaves(s, b), NEW e \in MeshEntry, NEW which \in {"before", "after"},
         NEW f, f = Edited(s, << e >>, which)
  PROVE  FirstAs(f, b, e, e[which])
<1>1. PICK es : es = << e >>
  OBVIOUS
<1>2. es \in Seq(MeshEntry) /\ es \in Seq(Entry) /\ Distinct(es)
  <2>1. es \in Seq(MeshEntry) /\ Len(es) = 1
    BY <1>1
  <2> QED BY <2>1, EntriesType DEF Distinct
<1>3. /\ GoodState(s) /\ Good(s.doc) /\ s.doc.fault = "none" /\ s.doc.tree.parent = b.parent
      /\ s.mesh = b.mesh /\ s.mesh \in [HasMesh -> Content]
  BY PictureSound DEF Leaves, GoodState
<1>4. GoodState(f) /\ f.doc = PlacedInOrder(s.doc, es, "same")
  BY <1>1, <1>2, <1>3, EditedGood
<1>5. Reparented(s.doc, s.doc.tree.parent, f.doc)
  BY <1>2, <1>3, <1>4, PlacedSame
<1>6. WrittenIn(es, which, s.mesh, f.mesh)
  BY <1>1, <1>2, <1>3, EditedMesh
<1>7. f.mesh = [s.mesh EXCEPT ![e.item] = e[which]]
  BY <1>1, <1>3, <1>6, OneWritten
<1> QED BY <1>3, <1>4, <1>5, <1>7 DEF Reparented, FirstAs

(* ... with the new mesh or with the old one.                                *)
LEMMA FirstWritten ==
  ASSUME NEW s, NEW b, Leaves(s, b), NEW e \in MeshEntry
  PROVE  /\ FirstAs(Edited(s, << e >>, "after"), b, e, e.after)
         /\ FirstAs(Edited(s, << e >>, "before"), b, e, e.before)
<1>1. e["after"] = e.after /\ e["before"] = e.before
  BY MeshEntryFields
<1>2. FirstAs(Edited(s, << e >>, "after"), b, e, e["after"])
  BY FirstPlaced
<1>3. FirstAs(Edited(s, << e >>, "before"), b, e, e["before"])
  BY FirstPlaced
<1> QED BY <1>1, <1>2, <1>3

(* A state whose document is replaced. *)
LEMMA WithDoc ==
  ASSUME NEW f, GoodState(f), NEW g, Good(g)
  PROVE  /\ GoodState([f EXCEPT !.doc = g]) /\ [f EXCEPT !.doc = g].doc = g
         /\ [f EXCEPT !.doc = g].mesh = f.mesh
<1>1. [f EXCEPT !.doc = g] = [doc |-> g, mesh |-> f.mesh]
  BY DEF GoodState
<1> QED BY <1>1 DEF GoodState

(* Merge_operation::execute() leaves the picture that it should.             *)
LEMMA MergeExact ==
  ASSUME NEW s, NEW a, Leaves(s, a), Sound(a), NEW op \in MeshOps, op.kind = "merge", MadeMerge(a, op)
  PROVE  Leaves(ExecuteMerge(s, op), After(a, op))
<1>1. PICK e, rest : e = op.entries[1] /\ rest = Tail(op.entries)
  OBVIOUS
<1>2. /\ rest \in Seq(Entry) /\ e \in MeshEntry /\ e.item \in Item /\ e.item \in InScene(a)
      /\ e.item \notin Items(rest) /\ \A y \in Items(rest) : ~IsAncestor(a, y, e.item)
  <2>1. Parts(a, op, e, rest)
    BY <1>1, MergeParts
  <2> QED BY <2>1 DEF Parts
<1>3. Hosted(s, op)
  <2>1. InScene(s.doc.tree) = InScene(a)
    BY PictureSound DEF Leaves
  <2> QED BY <1>1, <1>2, <2>1 DEF Hosted, MadeMerge
<1>4. PICK f : f = Edited(s, << e >>, "after")
  OBVIOUS
<1>5. /\ GoodState(f) /\ f.doc.fault = "none" /\ f.doc.tree.parent = a.parent
      /\ f.mesh = [a.mesh EXCEPT ![e.item] = e.after]
  <2>1. FirstAs(f, a, e, e.after)
    BY <1>2, <1>4, FirstWritten
  <2> QED BY <2>1 DEF FirstAs
<1>6. PICK d : d = PlacedInOrder(f.doc, rest, "out")
  OBVIOUS
<1>7. Reparented(f.doc, LeftOut(a.parent, Items(rest)), d)
  <2>1. Good(f.doc)
    BY <1>5 DEF GoodState
  <2> QED BY <1>2, <1>5, <1>6, <2>1, PlacedOut
<1>8. PICK g : g = [d EXCEPT !.selection = {e.item}]
  OBVIOUS
<1>9. /\ Good(g) /\ g.fault = "none" /\ g.selection = {e.item}
      /\ g.tree.parent = LeftOut(a.parent, Items(rest))
  <2>1. PICK S \in SUBSET Item : S = {e.item}
    BY <1>2
  <2>2. Good(d) /\ d.fault = "none" /\ d.tree.parent = LeftOut(a.parent, Items(rest))
    BY <1>5, <1>7 DEF Reparented
  <2>3. Selecting(d, S, g)
    BY ONLY <1>8, <2>1, <2>2, SelectedGood
  <2> QED BY <2>1, <2>2, <2>3 DEF Selecting
<1>10. PICK r : r = [f EXCEPT !.doc = g]
  OBVIOUS
<1>11. GoodState(r) /\ r.doc = g /\ r.mesh = f.mesh
  BY <1>5, <1>9, <1>10, WithDoc
<1>12. ExecuteMerge(s, op) = r
  BY <1>1, <1>3, <1>4, <1>6, <1>8, <1>10 DEF ExecuteMerge
<1>13. PICK b : b = After(a, op)
  OBVIOUS
<1>14. /\ b = [parent |-> b.parent, mesh |-> b.mesh] /\ b.parent = LeftOut(a.parent, Items(rest))
       /\ b.mesh = Applied(a.mesh, op)
  BY <1>1, <1>13, AfterFields
<1>15. b.mesh = r.mesh
  BY <1>1, <1>2, <1>5, <1>11, <1>14, MergeApplied
<1>16. e.item \in InScene(b)
  BY <1>2, <1>14, StillInScene DEF Sound
<1>17. Leaves(r, b)
  BY <1>9, <1>11, <1>14, <1>15, <1>16, LeavesIntro
<1> QED BY <1>12, <1>13, <1>17

(* Its undo() brings back the nodes and the meshes.                          *)
LEMMA UnmergeExact ==
  ASSUME NEW s, NEW a, Sound(a), NEW op \in MeshOps, op.kind = "merge", MadeMerge(a, op),
         Leaves(s, After(a, op))
  PROVE  Leaves(UndoMerge(s, op), a)
<1>1. PICK e, rest : e = op.entries[1] /\ rest = Tail(op.entries)
  OBVIOUS
<1>2. /\ rest \in Seq(Entry) /\ e \in MeshEntry /\ e.item \in Item /\ e.item \in InScene(a)
      /\ e.item \notin Items(rest) /\ \A y \in Items(rest) : ~IsAncestor(a, y, e.item)
      /\ e.before = a.mesh[e.item] /\ e.item \in HasMesh
      /\ \A i \in 1 .. Len(rest) : rest[i].parent = a.parent[rest[i].item]
      /\ op.selectionBefore \subseteq InScene(a) /\ op.selectionBefore \in SUBSET Item
  <2>1. Parts(a, op, e, rest)
    BY <1>1, MergeParts
  <2> QED BY <2>1 DEF Parts
<1>13. PICK b : b = After(a, op)
  OBVIOUS
<1>14. /\ b.parent = LeftOut(a.parent, Items(rest)) /\ b.mesh = Applied(a.mesh, op)
  BY <1>1, <1>13, AfterFields
<1>16. e.item \in InScene(b)
  BY <1>2, <1>14, StillInScene DEF Sound
<1>3. Hosted(s, op)
  <2>1. InScene(s.doc.tree) = InScene(b)
    BY <1>13, PictureSound DEF Leaves
  <2> QED BY <1>1, <1>16, <2>1 DEF Hosted, MadeMerge
<1>4. PICK f : f = Edited(s, << e >>, "before")
  OBVIOUS
<1>5. /\ GoodState(f) /\ f.doc.fault = "none" /\ f.doc.tree.parent = b.parent
      /\ f.mesh = [b.mesh EXCEPT ![e.item] = e.before]
  <2>1. FirstAs(f, b, e, e.before)
    BY <1>2, <1>4, <1>13, FirstWritten
  <2> QED BY <2>1 DEF FirstAs
<1>6. PICK d : d = PlacedInOrder(f.doc, rest, "back")
  OBVIOUS
<1>7. Reparented(f.doc, a.parent, d)
  <2>1. Good(f.doc) /\ f.doc.tree.parent = LeftOut(a.parent, Items(rest))
    BY <1>5, <1>14 DEF GoodState
  <2>2. a.parent \in [Item -> ItemOrNone] /\ AcyclicIn(a)
    BY DEF Sound
  <2> QED BY <1>2, <1>6, <2>1, <2>2, PlacedBack
<1>8. PICK g : g = [d EXCEPT !.selection = op.selectionBefore]
  OBVIOUS
<1>9. /\ Good(g) /\ g.fault = "none" /\ g.selection = op.selectionBefore /\ g.tree.parent = a.parent
  <2>1. Good(d) /\ d.fault = "none" /\ d.tree.parent = a.parent
    BY <1>5, <1>7 DEF Reparented
  <2>2. op.selectionBefore \in SUBSET Item
    BY <1>2
  <2>3. Selecting(d, op.selectionBefore, g)
    BY ONLY <1>8, <2>1, <2>2, SelectedGood
  <2> QED BY <2>1, <2>3 DEF Selecting
<1>10. PICK r : r = [f EXCEPT !.doc = g]
  OBVIOUS
<1>11. GoodState(r) /\ r.doc = g /\ r.mesh = f.mesh
  BY <1>5, <1>9, <1>10, WithDoc
<1>12. UndoMerge(s, op) = r
  BY <1>1, <1>3, <1>4, <1>6, <1>8, <1>10 DEF UndoMerge
<1>15. r.mesh = a.mesh
  <2>1. b.mesh = [a.mesh EXCEPT ![e.item] = e.after]
    BY <1>1, <1>14, MergeApplied
  <2>2. r.mesh = [b.mesh EXCEPT ![e.item] = a.mesh[e.item]]
    BY <1>2, <1>5, <1>11
  <2>3. a.mesh \in [HasMesh -> Content]
    BY DEF Sound
  <2> QED BY <2>1, <2>2, <2>3
<1>17. Leaves(r, a)
  BY <1>2, <1>9, <1>11, <1>15, LeavesIntro DEF Sound
<1> QED BY <1>12, <1>17

-----------------------------------------------------------------------------
(* A removal of a node that is not the root. *)
LEMMA RemovalExact ==
  ASSUME NEW s, NEW a, Leaves(s, a), Sound(a), NEW r \in RemovalStep, MadeRemoval(a, r),
         NEW q, q = ExecuteRemove(s.doc, r), NEW b, b = [parent |-> b.parent, mesh |-> b.mesh],
         b.parent = HandedUp(a.parent, r.item), b.mesh = a.mesh
  PROVE  /\ Leaves(Returned(s, q).state, b) /\ q.op \in RemovalStep /\ q.op.item = r.item
         /\ MadeRemoval(a, q.op) /\ Remembers(a.parent, q.op)
<1>1. /\ Good(s.doc) /\ s.doc.fault = "none" /\ s.doc.tree.parent = a.parent /\ s.mesh = a.mesh
      /\ GoodState(s) /\ s.mesh \in [HasMesh -> Content]
  BY PictureSound DEF Leaves, GoodState
<1>2. r.item \in InScene(a) /\ r.item # Root /\ r.to = NoItem /\ r.selectionAfter = {}
      /\ r.selectionBefore \subseteq InScene(a)
  BY DEF MadeRemoval
<1>3. a.parent[r.item] # NoItem
  BY <1>2 DEF InScene, Subtree, IsAncestor
<1>4. RemovesExactly(s.doc, r, q)
  BY <1>1, <1>2, <1>3, RemoveExact
<1>5. RunsWell(s.doc, r, q)
  BY <1>1, RemoveGood
<1>6. PICK u : u = Returned(s, q).state
  OBVIOUS
<1>7. u.doc = q.doc /\ u.mesh = s.mesh /\ GoodState(u)
  BY <1>1, <1>4, <1>6 DEF Returned, GoodState, RemovesExactly
<1>8. Leaves(u, b)
  BY <1>1, <1>2, <1>4, <1>7, LeavesIntro DEF RemovesExactly
<1>9. MadeRemoval(a, q.op)
  BY <1>2, <1>4 DEF RemovesExactly, MadeRemoval
<1> QED BY <1>1, <1>4, <1>5, <1>6, <1>8, <1>9 DEF RunsWell, RemovesExactly

(* The undo() of a removal.                                                  *)
LEMMA UnremovalExact ==
  ASSUME NEW s, NEW a, Sound(a), NEW r \in RemovalStep, MadeRemoval(a, r), Remembers(a.parent, r),
         NEW b, Leaves(s, b), b.parent = HandedUp(a.parent, r.item), b.mesh = a.mesh,
         NEW q, q = UndoInsertRemove(s.doc, r)
  PROVE  /\ Leaves(Returned(s, q).state, a) /\ q.op \in RemovalStep /\ q.op.item = r.item
         /\ MadeRemoval(a, q.op)
<1>1. /\ Good(s.doc) /\ s.doc.fault = "none" /\ s.doc.tree.parent = HandedUp(a.parent, r.item)
      /\ s.mesh = a.mesh /\ GoodState(s) /\ s.mesh \in [HasMesh -> Content]
  BY PictureSound DEF Leaves, GoodState
<1>2. r.item \in InScene(a) /\ r.item # Root /\ r.selectionAfter = {}
      /\ r.selectionBefore \subseteq InScene(a)
  BY DEF MadeRemoval
<1>3. a.parent[r.item] # NoItem
  BY <1>2 DEF InScene, Subtree, IsAncestor
<1>4. RestoresExactly(a.parent, r, q)
  BY <1>1, <1>3, UnremoveExact DEF Sound
<1>5. RunsWell(s.doc, r, q)
  BY <1>1, UnremoveGood
<1>6. PICK u : u = Returned(s, q).state
  OBVIOUS
<1>7. u.doc = q.doc /\ u.mesh = s.mesh /\ GoodState(u)
  BY <1>1, <1>4, <1>6 DEF Returned, GoodState, RestoresExactly
<1>8. Leaves(u, a)
  BY <1>1, <1>2, <1>4, <1>7, LeavesIntro DEF RestoresExactly, Sound
<1>9. MadeRemoval(a, q.op)
  BY <1>2, <1>4 DEF RestoresExactly, MadeRemoval
<1> QED BY <1>4, <1>5, <1>6, <1>8, <1>9 DEF RunsWell, RestoresExactly

(* An operation that ran, and one that was undone. *)
Ran(a, op, r) ==
  /\ Leaves(r.state, After(a, op)) /\ r.op \in Ops
  /\ After(a, r.op) = After(a, op) /\ Made(a, r.op) /\ Captures(a, r.op)

(* An operation that was undone, back to picture a.                          *)
TakenBack(a, op, r) ==
  /\ Leaves(r.state, a) /\ r.op \in Ops
  /\ After(a, r.op) = After(a, op) /\ Made(a, r.op)

(* The removal of one node, as an operation. *)
LEMMA RemovalFields ==
  ASSUME NEW a, NEW r \in RemovalStep, NEW op, op = [kind |-> "remove", steps |-> << r >>]
  PROVE  /\ op \in Ops /\ op.kind = "remove" /\ op.steps[1] = r
         /\ Made(a, op) <=> MadeRemoval(a, r)
         /\ Captures(a, op) <=> Remembers(a.parent, r)
         /\ After(a, op) = [parent |-> HandedUp(a.parent, r.item), mesh |-> a.mesh]
<1>1. op.kind = "remove" /\ op.steps[1] = r
  OBVIOUS
<1>2. op \in Ops
  BY DEF Ops, RemovalOps
<1>3. Made(a, op) <=> MadeRemoval(a, r)
  BY <1>1 DEF Made
<1>4. Captures(a, op) <=> Remembers(a.parent, r)
  BY <1>1 DEF Captures
<1>5. Applied(a.mesh, op) = a.mesh
  BY <1>1 DEF Applied
<1>6. After(a, op) = [parent |-> HandedUp(a.parent, r.item), mesh |-> a.mesh]
  BY <1>1, <1>5, AfterFields
<1> QED BY <1>1, <1>2, <1>3, <1>4, <1>6

(* An operation that was made from what is there runs exactly.               *)
LEMMA AnyExact ==
  ASSUME NEW s, NEW a, Leaves(s, a), Sound(a), NEW op \in Ops, Made(a, op)
  PROVE  Ran(a, op, ExecuteAny(s, op))
<1>1. CASE op \in MeshOps /\ op.kind = "edit"
  <2>1. PICK t : t = ExecuteEdit(s, op)
    OBVIOUS
  <2>2. ExecuteAny(s, op) = [state |-> t, op |-> op]
    BY <1>1, <2>1 DEF ExecuteAny
  <2>3. MadeEdit(a, op)
    BY <1>1 DEF Made
  <2>4. Leaves(t, After(a, op))
    BY <1>1, <2>1, <2>3, EditExact
  <2> QED BY <1>1, <2>2, <2>4 DEF Ran, Captures
<1>2. CASE op \in MeshOps /\ op.kind = "merge"
  <2>1. PICK t : t = ExecuteMerge(s, op)
    OBVIOUS
  <2>2. ExecuteAny(s, op) = [state |-> t, op |-> op]
    BY <1>2, <2>1 DEF ExecuteAny
  <2>3. MadeMerge(a, op)
    BY <1>2 DEF Made
  <2>4. Leaves(t, After(a, op))
    BY <1>2, <2>1, <2>3, MergeExact
  <2> QED BY <1>2, <2>2, <2>4 DEF Ran, Captures
<1>3. ASSUME NEW r \in RemovalStep, op = [kind |-> "remove", steps |-> << r >>]
      PROVE  Ran(a, op, ExecuteAny(s, op))
  <2>1. ExecuteAny(s, op) = ExecuteRemoval(s, op)
    BY <1>3 DEF ExecuteAny
  <2>2. PICK q : q = ExecuteRemove(s.doc, r)
    OBVIOUS
  <2>3. ExecuteAny(s, op) = Returned(s, q)
    BY <1>3, <2>1, <2>2, RemovalRuns DEF Leaves
  <2>4. PICK b : b = After(a, op)
    OBVIOUS
  <2>5. /\ MadeRemoval(a, r) /\ b = [parent |-> b.parent, mesh |-> b.mesh]
        /\ b.parent = HandedUp(a.parent, r.item) /\ b.mesh = a.mesh
    BY <1>3, <2>4, RemovalFields
  <2>6. /\ Leaves(Returned(s, q).state, b) /\ q.op \in RemovalStep /\ q.op.item = r.item
        /\ MadeRemoval(a, q.op) /\ Remembers(a.parent, q.op)
    BY <2>2, <2>5, RemovalExact
  <2>7. PICK o, g : g = q.op /\ o = [kind |-> "remove", steps |-> << g >>]
    OBVIOUS
  <2>8. Returned(s, q).op = o
    BY <2>7 DEF Returned
  <2>9. o \in Ops /\ Made(a, o) /\ Captures(a, o) /\ After(a, o) = b
    BY <2>5, <2>6, <2>7, RemovalFields
  <2> QED BY <2>3, <2>4, <2>6, <2>8, <2>9 DEF Ran
<1> QED BY <1>1, <1>2, <1>3, OpKinds

(* An operation is undone exactly from what it has left.                     *)
LEMMA AnyUndone ==
  ASSUME NEW s, NEW a, Sound(a), NEW op \in Ops, Made(a, op), Captures(a, op),
         Leaves(s, After(a, op))
  PROVE  TakenBack(a, op, UndoAny(s, op))
<1>1. CASE op \in MeshOps /\ op.kind = "edit"
  <2>1. PICK t : t = UndoEdit(s, op)
    OBVIOUS
  <2>2. UndoAny(s, op) = [state |-> t, op |-> op]
    BY <1>1, <2>1 DEF UndoAny
  <2>3. MadeEdit(a, op)
    BY <1>1 DEF Made
  <2>4. Leaves(t, a)
    BY <1>1, <2>1, <2>3, UneditExact
  <2> QED BY <1>1, <2>2, <2>4 DEF TakenBack
<1>2. CASE op \in MeshOps /\ op.kind = "merge"
  <2>1. PICK t : t = UndoMerge(s, op)
    OBVIOUS
  <2>2. UndoAny(s, op) = [state |-> t, op |-> op]
    BY <1>2, <2>1 DEF UndoAny
  <2>3. MadeMerge(a, op)
    BY <1>2 DEF Made
  <2>4. Leaves(t, a)
    BY <1>2, <2>1, <2>3, UnmergeExact
  <2> QED BY <1>2, <2>2, <2>4 DEF TakenBack
<1>3. ASSUME NEW r \in RemovalStep, op = [kind |-> "remove", steps |-> << r >>]
      PROVE  TakenBack(a, op, UndoAny(s, op))
  <2>1. UndoAny(s, op) = UndoRemoval(s, op)
    BY <1>3 DEF UndoAny
  <2>2. PICK q : q = UndoInsertRemove(s.doc, r)
    OBVIOUS
  <2>3. UndoAny(s, op) = Returned(s, q)
    BY <1>3, <2>1, <2>2, RemovalRuns DEF Leaves
  <2>4. PICK b : b = After(a, op)
    OBVIOUS
  <2>5. /\ MadeRemoval(a, r) /\ Remembers(a.parent, r)
        /\ b = [parent |-> HandedUp(a.parent, r.item), mesh |-> a.mesh]
    BY <1>3, <2>4, RemovalFields
  <2>6. /\ Leaves(Returned(s, q).state, a) /\ q.op \in RemovalStep /\ q.op.item = r.item
        /\ MadeRemoval(a, q.op)
    BY <2>2, <2>4, <2>5, UnremovalExact
  <2>7. PICK o, g : g = q.op /\ o = [kind |-> "remove", steps |-> << g >>]
    OBVIOUS
  <2>8. Returned(s, q).op = o
    BY <2>7 DEF Returned
  <2>9. o \in Ops /\ Made(a, o) /\ After(a, o) = b
    BY <2>5, <2>6, <2>7, RemovalFields
  <2> QED BY <2>3, <2>4, <2>6, <2>8, <2>9 DEF TakenBack
<1> QED BY <1>1, <1>2, <1>3, OpKinds

-----------------------------------------------------------------------------
(* The pictures that the executed operations lead along, from one of a scene *)
(* as it was loaded to the last.                                            *)
Loaded(a) == /\ \E t \in InitialTrees : a.parent = t.parent
             /\ a.mesh = [x \in HasMesh |-> << x >>]

(* An operation leads from one picture to the next.                          *)
Leads(a, op, b) == Sound(a) /\ Made(a, op) /\ b = After(a, op)

(* The pictures from the loaded scene to the present one, an operation       *)
(* between each and the next.                                                *)
PastTrail(T, ops, b) ==
  /\ Loaded(T[0]) /\ T[Len(ops)] = b
  /\ \A i \in 1 .. Len(ops) : Leads(T[i - 1], ops[i], T[i]) /\ Captures(T[i - 1], ops[i])

(* The executed operations lead to b.                                        *)
Past(ops, b) == \E T : PastTrail(T, ops, b)

(* The pictures that redoing leads along, from the present one: the last of *)
(* the list comes first.                                                    *)
FutureTrail(F, ops, b) ==
  /\ F[Len(ops)] = b
  /\ \A i \in 1 .. Len(ops) : Leads(F[i], ops[i], F[i - 1])

(* The undone operations lead on from b.                                     *)
Future(ops, b) == \E F : FutureTrail(F, ops, b)

(* One operation more has run.                                               *)
LEMMA PastGrows ==
  ASSUME NEW ops \in Seq(Ops), NEW b, Past(ops, b), NEW op \in Ops, NEW c,
         Leads(b, op, c), Captures(b, op)
  PROVE  Past(Append(ops, op), c)
<1>1. PICK T : PastTrail(T, ops, b)
  BY DEF Past
<1>2. PICK n \in Nat : n = Len(ops)
  BY LenProperties
<1>9. PICK u : u = Append(ops, op)
  OBVIOUS
<1>3. u = Append(ops, op) /\ Len(u) = n + 1 /\ u[n + 1] = op /\ \A i \in 1 .. n : u[i] = ops[i]
  BY <1>2, <1>9, Appended
<1>4. PICK V : V = [i \in 0 .. n + 1 |-> IF i <= n THEN T[i] ELSE c]
  OBVIOUS
<1>5. V[n + 1] = c /\ \A i \in 0 .. n : V[i] = T[i]
  <2>1. \A i \in 0 .. n : i \in 0 .. n + 1 /\ i <= n
    OBVIOUS
  <2>2. n + 1 \in 0 .. n + 1 /\ ~(n + 1 <= n)
    OBVIOUS
  <2> QED BY <1>4, <2>1, <2>2
<1>6. T[n] = b /\ Loaded(V[0])
  BY <1>1, <1>2, <1>5 DEF PastTrail
<1>7. ASSUME NEW i \in 1 .. n + 1 PROVE Leads(V[i - 1], u[i], V[i]) /\ Captures(V[i - 1], u[i])
  <2>1. CASE i \in 1 .. n
    <3>1. i - 1 \in 0 .. n /\ i \in 0 .. n
      BY <2>1
    <3>2. V[i - 1] = T[i - 1] /\ V[i] = T[i] /\ u[i] = ops[i]
      BY <1>3, <1>5, <2>1, <3>1
    <3> QED BY <1>1, <1>2, <2>1, <3>2 DEF PastTrail
  <2>2. CASE i = n + 1
    <3>1. i - 1 = n /\ n \in 0 .. n
      BY <2>2
    <3>2. V[i - 1] = b /\ V[i] = c /\ u[i] = op
      BY <1>3, <1>5, <1>6, <2>2, <3>1
    <3> QED BY <3>2
  <2> QED BY <2>1, <2>2
<1>8. PastTrail(V, u, c)
  BY <1>3, <1>5, <1>6, <1>7 DEF PastTrail
<1> QED BY <1>3, <1>8 DEF Past

(* The step before the last. *)
LEMMA PastEnds ==
  ASSUME NEW ops \in Seq(Ops), ops # << >>, NEW b, Past(ops, b)
  PROVE  \E a : Past(Front(ops), a) /\ Leads(a, Last(ops), b) /\ Captures(a, Last(ops))
<1>1. PICK T : PastTrail(T, ops, b)
  BY DEF Past
<1>2. PICK n \in Nat : n = Len(ops) /\ n >= 1
  BY LenProperties
<1>9. PICK u : u = Front(ops)
  OBVIOUS
<1>3. u = Front(ops) /\ Len(u) = n - 1 /\ \A i \in 1 .. n - 1 : u[i] = ops[i]
  BY <1>2, <1>9 DEF Front
<1>4. Last(ops) = ops[n] /\ n \in 1 .. n /\ n - 1 \in Nat
  BY <1>2 DEF Last
<1>5. Leads(T[n - 1], ops[n], T[n]) /\ Captures(T[n - 1], ops[n]) /\ T[n] = b
  BY <1>1, <1>2, <1>4 DEF PastTrail
<1>6. ASSUME NEW i \in 1 .. n - 1 PROVE Leads(T[i - 1], u[i], T[i]) /\ Captures(T[i - 1], u[i])
  <2>1. i \in 1 .. n
    OBVIOUS
  <2> QED BY <1>1, <1>2, <1>3, <2>1 DEF PastTrail
<1>7. PastTrail(T, u, T[n - 1])
  BY <1>1, <1>3, <1>6 DEF PastTrail
<1>8. Past(u, T[n - 1])
  BY <1>7 DEF Past
<1> QED BY <1>3, <1>4, <1>5, <1>8

(* One operation more is undone.                                             *)
LEMMA FutureGrows ==
  ASSUME NEW ops \in Seq(Ops), NEW b, Future(ops, b), NEW op \in Ops, NEW a, Leads(a, op, b)
  PROVE  Future(Append(ops, op), a)
<1>1. PICK T : FutureTrail(T, ops, b)
  BY DEF Future
<1>2. PICK n \in Nat : n = Len(ops)
  BY LenProperties
<1>9. PICK u : u = Append(ops, op)
  OBVIOUS
<1>3. u = Append(ops, op) /\ Len(u) = n + 1 /\ u[n + 1] = op /\ \A i \in 1 .. n : u[i] = ops[i]
  BY <1>2, <1>9, Appended
<1>4. PICK V : V = [i \in 0 .. n + 1 |-> IF i <= n THEN T[i] ELSE a]
  OBVIOUS
<1>5. V[n + 1] = a /\ \A i \in 0 .. n : V[i] = T[i]
  <2>1. \A i \in 0 .. n : i \in 0 .. n + 1 /\ i <= n
    OBVIOUS
  <2>2. n + 1 \in 0 .. n + 1 /\ ~(n + 1 <= n)
    OBVIOUS
  <2> QED BY <1>4, <2>1, <2>2
<1>6. T[n] = b
  BY <1>1, <1>2 DEF FutureTrail
<1>7. ASSUME NEW i \in 1 .. n + 1 PROVE Leads(V[i], u[i], V[i - 1])
  <2>1. CASE i \in 1 .. n
    <3>1. i - 1 \in 0 .. n /\ i \in 0 .. n
      BY <2>1
    <3>2. V[i - 1] = T[i - 1] /\ V[i] = T[i] /\ u[i] = ops[i]
      BY <1>3, <1>5, <2>1, <3>1
    <3> QED BY <1>1, <1>2, <2>1, <3>2 DEF FutureTrail
  <2>2. CASE i = n + 1
    <3>1. i - 1 = n /\ n \in 0 .. n
      BY <2>2
    <3>2. V[i - 1] = b /\ V[i] = a /\ u[i] = op
      BY <1>3, <1>5, <1>6, <2>2, <3>1
    <3> QED BY <3>2
  <2> QED BY <2>1, <2>2
<1>8. FutureTrail(V, u, a)
  BY <1>3, <1>5, <1>7 DEF FutureTrail
<1> QED BY <1>3, <1>8 DEF Future

(* The operation that redo takes.                                            *)
LEMMA FutureBegins ==
  ASSUME NEW ops \in Seq(Ops), ops # << >>, NEW a, Future(ops, a)
  PROVE  \E b : Leads(a, Last(ops), b) /\ Future(Front(ops), b)
<1>1. PICK T : FutureTrail(T, ops, a)
  BY DEF Future
<1>2. PICK n \in Nat : n = Len(ops) /\ n >= 1
  BY LenProperties
<1>9. PICK u : u = Front(ops)
  OBVIOUS
<1>3. u = Front(ops) /\ Len(u) = n - 1 /\ \A i \in 1 .. n - 1 : u[i] = ops[i]
  BY <1>2, <1>9 DEF Front
<1>4. Last(ops) = ops[n] /\ n \in 1 .. n /\ n - 1 \in Nat
  BY <1>2 DEF Last
<1>5. Leads(T[n], ops[n], T[n - 1]) /\ T[n] = a
  BY <1>1, <1>2, <1>4 DEF FutureTrail
<1>6. ASSUME NEW i \in 1 .. n - 1 PROVE Leads(T[i], u[i], T[i - 1])
  <2>1. i \in 1 .. n
    OBVIOUS
  <2> QED BY <1>1, <1>2, <1>3, <2>1 DEF FutureTrail
<1>7. FutureTrail(T, u, T[n - 1])
  BY <1>1, <1>3, <1>6 DEF FutureTrail
<1>8. Future(u, T[n - 1])
  BY <1>7 DEF Future
<1> QED BY <1>3, <1>4, <1>5, <1>8

(* With nothing undone there is nothing to redo. *)
LEMMA FutureNone ==
  ASSUME NEW b
  PROVE  Future(<< >>, b)
<1>1. PICK F : F = [i \in {0} |-> b]
  OBVIOUS
<1>2. Len(<< >>) = 0 /\ 1 .. 0 = {} /\ F[0] = b
  BY <1>1
<1>3. FutureTrail(F, << >>, b)
  BY <1>2 DEF FutureTrail
<1> QED BY <1>3 DEF Future

(* Nothing to undo.                                                          *)
LEMMA PastNone ==
  ASSUME NEW b, Loaded(b)
  PROVE  Past(<< >>, b)
<1>1. PICK T : T = [i \in {0} |-> b]
  OBVIOUS
<1>2. Len(<< >>) = 0 /\ 1 .. 0 = {} /\ T[0] = b
  BY <1>1
<1>3. PastTrail(T, << >>, b)
  BY <1>2 DEF PastTrail
<1> QED BY <1>3 DEF Past

(* The selected nodes with a mesh, each once, in the order of the selection. *)
PicksSelected(s) ==
  /\ s \in Seq(HasMesh) /\ Injective(s) /\ ToSet(s) = Selected /\ Len(s) = Cardinality(Selected)

(* What a job finds in the selection.                                        *)
LEMMA PickFacts ==
  ASSUME Good(doc), NEW order \in Orders, NEW s, s = WithMesh(order)
  PROVE  PicksSelected(s)
<1>1. /\ order \in Seq(Item) /\ Injective(order) /\ ToSet(order) = doc.selection
  BY OrdersTyped
<1>2. PICK n \in Nat : n = Len(order) /\ DOMAIN order = 1 .. n
  BY <1>1, LenProperties
<1>3. Picks(s, order, n)
  BY <1>2, WithMeshPicks
<1>4. s \in Seq(HasMesh)
  BY <1>3 DEF Picks
<1>5. PICK m \in Nat : m = Len(s)
  BY <1>4, LenProperties
<1>6. Injective(s)
  <2>1. ASSUME NEW i \in 1 .. m, NEW j \in 1 .. m, i < j PROVE s[i] # s[j]
    <3>1. PICK a \in 1 .. n, b \in 1 .. n : a < b /\ s[i] = order[a] /\ s[j] = order[b]
      BY <1>3, <1>5, <2>1 DEF Picks
    <3>2. a # b
      BY <3>1
    <3> QED BY <1>1, <1>2, <3>1, <3>2 DEF Injective
  <2> SUFFICES ASSUME NEW i \in 1 .. m, NEW j \in 1 .. m, s[i] = s[j] PROVE i = j
    BY <1>5 DEF Injective
  <2>2. ~(i < j) /\ ~(j < i)
    BY <2>1
  <2> QED BY <2>2
<1>7. ASSUME NEW x \in ToSet(s) PROVE x \in Selected
  <2>1. PICK i \in 1 .. m : s[i] = x
    BY <1>4, <1>5, ToSetDef
  <2>2. PICK a \in 1 .. n : s[i] = order[a]
    BY <1>3, <1>5 DEF Picks
  <2>3. x \in HasMesh
    BY <1>4, <1>5, <2>1
  <2>4. x \in ToSet(order)
    BY <1>1, <1>2, <2>1, <2>2, ToSetDef
  <2> QED BY <1>1, <2>3, <2>4 DEF Selected
<1>8. ASSUME NEW x \in Selected PROVE x \in ToSet(s)
  <2>1. x \in HasMesh /\ x \in ToSet(order)
    BY <1>1 DEF Selected
  <2>2. PICK a \in 1 .. n : order[a] = x
    BY <1>1, <1>2, <2>1, ToSetDef
  <2>3. PICK i \in 1 .. m : s[i] = x
    BY <1>3, <1>5, <2>1, <2>2 DEF Picks
  <2> QED BY <1>4, <1>5, <2>3, ToSetDef
<1>9. ToSet(s) = Selected
  BY <1>7, <1>8
<1> QED BY <1>4, <1>6, <1>9, InjectiveLen DEF PicksSelected

(* What Entries() makes, node by node. *)
LEMMA EditEntriesAre ==
  ASSUME Good(doc), NEW order \in Orders, NEW c, NEW s, s = WithMesh(order),
         NEW es, es = EditEntries(c, order)
  PROVE  /\ Len(es) = Len(s) /\ DOMAIN es = 1 .. Len(s)
         /\ \A i \in 1 .. Len(s) : es[i] = EntryFor(s[i], Append(mesh[s[i]], c))
<1>1. s \in Seq(HasMesh)
  BY PickFacts DEF PicksSelected
<1>2. PICK n \in Nat : n = Len(s) /\ DOMAIN s = 1 .. n
  BY <1>1, LenProperties
<1>3. es = [i \in 1 .. n |-> EntryFor(s[i], Append(mesh[s[i]], c))]
  BY <1>2 DEF EditEntries
<1> QED BY <1>2, <1>3

(* The entries of a merge of at least two nodes.                             *)
MergedFrom(es, s, all, c) ==
  /\ Len(es) = Len(s) /\ DOMAIN es = 1 .. Len(s)
  /\ \A i \in 1 .. Len(s) : es[i] = EntryFor(s[i], IF i = 1 THEN Append(all, c) ELSE mesh[s[i]])

LEMMA MergedEntries ==
  ASSUME Good(doc), NEW order \in Orders, NEW c, NEW s, s = WithMesh(order), Len(s) >= 2,
         NEW es, es = MergeEntries(c, order),
         NEW all, all = FlattenSeq([i \in DOMAIN s |-> mesh[s[i]]])
  PROVE  MergedFrom(es, s, all, c)
<1>1. s \in Seq(HasMesh)
  BY PickFacts DEF PicksSelected
<1>2. PICK n \in Nat : n = Len(s) /\ DOMAIN s = 1 .. n
  BY <1>1, LenProperties
<1>4. ~(Len(s) < 2)
  BY <1>2
<1>3. es = [i \in 1 .. n |-> EntryFor(s[i], IF i = 1 THEN Append(all, c) ELSE mesh[s[i]])]
  BY <1>2, <1>4 DEF MergeEntries
<1> QED BY <1>2, <1>3 DEF MergedFrom

(* The parts of an entry, as they are read from the scene.                   *)
LEMMA EntryForFields ==
  ASSUME NEW x, NEW after
  PROVE  /\ EntryFor(x, after).item = x /\ EntryFor(x, after).parent = doc.tree.parent[x]
         /\ EntryFor(x, after).before = mesh[x] /\ EntryFor(x, after).after = after
BY DEF EntryFor

-----------------------------------------------------------------------------
(* The shallowest node comes first, and so it is below none of the others. *)
LEMMA FirstIsHighest ==
  ASSUME Good(doc), NEW order \in Orders, ShallowFirst(order), NEW s, s = WithMesh(order),
         NEW j \in 1 .. Len(s)
  PROVE  ~IsAncestor(doc.tree, s[j], s[1])
<1>1. /\ order \in Seq(Item) /\ Injective(order)
  BY OrdersTyped
<1>2. PICK n \in Nat : n = Len(order) /\ DOMAIN order = 1 .. n
  BY <1>1, LenProperties
<1>3. Picks(s, order, n)
  BY <1>2, WithMeshPicks
<1>4. s \in Seq(HasMesh)
  BY <1>3 DEF Picks
<1>5. PICK m \in Nat : m = Len(s) /\ m >= 1
  BY <1>4, LenProperties
<1>6. PICK t : t = doc.tree
  OBVIOUS
<1>7. /\ t \in Tree /\ AcyclicIn(t) /\ t.depth \in [Item -> Nat] /\ \A y \in Item : DepthFits(t, y)
  <2>1. Sane(t)
    BY <1>6, GoodTree
  <2>2. t \in Tree /\ AcyclicIn(t) /\ DepthIsDistanceIn(t)
    BY <2>1 DEF Sane, Consistent
  <2> QED BY <2>2 DEF Tree, DepthIsDistanceIn, DepthFits
<1>8. PICK f : f = [i \in 1 .. n |-> t.depth[order[i]]]
  OBVIOUS
<1>9. \A i \in 1 .. n : f[i] = t.depth[order[i]] /\ f[i] \in Int
  BY <1>1, <1>2, <1>7, <1>8
<1>10. \A i \in 1 .. n - 1 : f[i] <= f[i + 1]
  <2>1. \A i \in 1 .. n - 1 : i \in 1 .. n /\ i + 1 \in 1 .. n
    OBVIOUS
  <2>2. \A i \in 1 .. n - 1 : t.depth[order[i]] <= t.depth[order[i + 1]]
    BY <1>2, <1>6 DEF ShallowFirst
  <2> QED BY <1>9, <2>1, <2>2
<1>11. \A i, k \in 1 .. n : i <= k => f[i] <= f[k]
  BY <1>9, <1>10, SortedMonotone
<1>12. PICK x \in Item, y \in Item : x = s[1] /\ y = s[j]
  <2>1. s[1] \in HasMesh /\ s[j] \in HasMesh
    BY <1>4, <1>5
  <2> QED BY <2>1, HasMeshAssumption
<1>13. t.depth[x] <= t.depth[y]
  <2>1. CASE j = 1
    BY <1>7, <1>12, <2>1
  <2>2. CASE j # 1
    <3>1. 1 < j /\ 1 \in 1 .. m /\ j \in 1 .. m
      BY <1>5, <2>2
    <3>2. PICK a \in 1 .. n, b \in 1 .. n : a < b /\ s[1] = order[a] /\ s[j] = order[b]
      BY <1>3, <1>5, <3>1 DEF Picks
    <3>3. f[a] <= f[b]
      BY <1>11, <3>2
    <3> QED BY <1>9, <1>12, <3>2, <3>3
  <2> QED BY <2>1, <2>2
<1>14. ASSUME IsAncestor(t, y, x) PROVE FALSE
  <2>1. x \in Subtree(t, y)
    BY <1>14 DEF Subtree
  <2>2. x # y
    <3> DEFINE V == Item \ Subtree(t, y)
    <3>1. t.parent \in [Item -> ItemOrNone] /\ t.parent[y] \notin Subtree(t, y) /\ y \in Subtree(t, y)
      BY <1>7, ParentOutside, SubtreeClosed DEF Tree
    <3>2. \A z \in Item : t.parent[z] \in Subtree(t, y) => z \in Subtree(t, y)
      BY <3>1, SubtreeClosed
    <3>3. UpwardClosed(t, V)
      BY <3>1, <3>2 DEF UpwardClosed, ItemOrNone
    <3>4. t.parent[y] # NoItem => t.parent[y] \in V
      BY <3>1 DEF ItemOrNone
    <3>5. y \notin V /\ V \in SUBSET Item
      BY <3>1
    <3> HIDE DEF V
    <3> QED BY <1>14, <3>3, <3>4, <3>5 DEF IsAncestor
  <2>3. t.depth[x] > t.depth[y]
    BY <1>7, <2>1, <2>2, DeeperBelow
  <2> QED BY <1>7, <1>13, <2>3
<1> QED BY <1>6, <1>12, <1>14

-----------------------------------------------------------------------------
(* What a worker builds when the selection is in the scene and a button     *)
(* asked for it.                                                            *)
Built(c, kind, order) ==
  [kind |-> kind, click |-> c, entries |-> Entries(c, kind, order), selectionBefore |-> doc.selection]

(* A selected node with a mesh is in the scene, below another.               *)
LEMMA SelectedInScene ==
  ASSUME Good(doc), doc.selection \subseteq InScene(doc.tree), NEW x \in Selected
  PROVE  /\ x \in InScene(doc.tree) /\ x \in HasMesh /\ x \in Item
         /\ doc.tree.parent[x] # NoItem
<1>1. x \in InScene(doc.tree) /\ x \in HasMesh /\ x \in Item /\ x # Root
  BY HasMeshAssumption DEF Selected
<1>2. IsAncestor(doc.tree, Root, x)
  BY <1>1 DEF InScene, Subtree
<1> QED BY <1>1, <1>2 DEF IsAncestor

(* With a button enabled, a job builds what fits what is there: no           *)
(* ERHE_VERIFY of the job fails.                                             *)
LEMMA EditIsMade ==
  ASSUME Good(doc), mesh \in [HasMesh -> Content], doc.selection \subseteq InScene(doc.tree),
         NEW c \in Click, NEW order \in Orders, Enabled("edit")
  PROVE  MayBuild("edit", order) /\ Made(Picture(State), Built(c, "edit", order))
<1>1. PICK s : s = WithMesh(order)
  OBVIOUS
<1>2. PicksSelected(s)
  BY <1>1, PickFacts
<1>3. PICK n \in Nat : n = Len(s) /\ n >= 1
  <2>1. Cardinality(Selected) >= 1
    BY DEF Enabled
  <2> QED BY <1>2, <2>1, LenProperties DEF PicksSelected
<1>4. PICK es : es = EditEntries(c, order)
  OBVIOUS
<1>5. /\ Len(es) = n /\ \A i \in 1 .. n : es[i] = EntryFor(s[i], Append(mesh[s[i]], c))
  BY <1>1, <1>3, <1>4, EditEntriesAre
<1>6. ASSUME NEW i \in 1 .. n PROVE s[i] \in Selected
  BY <1>2, <1>3, ToSetDef DEF PicksSelected
<1>7. PICK a : a = Picture(State)
  OBVIOUS
<1>8. a.mesh = mesh /\ InScene(a) = InScene(doc.tree)
  BY <1>7, StateIsGood, PictureSound
<1>9. PICK op : op = Built(c, "edit", order)
  OBVIOUS
<1>10. op.kind = "edit" /\ op.click = c /\ op.entries = es
  BY <1>4, <1>9 DEF Built, Entries
<1>11. Distinct(es)
  BY <1>2, <1>3, <1>5, EntryForFields DEF Distinct, PicksSelected, Injective
<1>12. MadeEdit(a, op)
  <2>1. es # << >>
    BY <1>3, <1>5
  <2>2. ASSUME NEW i \in 1 .. n
        PROVE  /\ es[i].item \in InScene(a) /\ es[i].before = a.mesh[es[i].item]
               /\ es[i].after = Append(es[i].before, c)
    <3>1. PICK f, v : f = es[i] /\ v = Append(mesh[s[i]], c)
      OBVIOUS
    <3>2. f = EntryFor(s[i], v)
      BY <1>5, <3>1
    <3>3. f.item = s[i] /\ f.before = mesh[s[i]] /\ f.after = v
      BY <3>2, EntryForFields
    <3> QED BY <1>6, <1>8, <3>1, <3>3, SelectedInScene
  <2> QED BY <1>5, <1>10, <1>11, <2>1, <2>2 DEF MadeEdit
<1>13. MayBuild("edit", order)
  <2>1. order \in Seq(Item) /\ ToSet(order) = doc.selection
    BY OrdersTyped
  <2>2. order # << >> => 1 \in 1 .. Len(order)
    BY <2>1
  <2>3. order # << >> => order[1] \in InScene(doc.tree)
    BY <2>1, <2>2, ToSetDef
  <2> QED BY <2>3 DEF MayBuild
<1> QED BY <1>7, <1>9, <1>10, <1>12, <1>13 DEF Made

(* A merge fits what is there.                                               *)
LEMMA MergeIsMade ==
  ASSUME Good(doc), mesh \in [HasMesh -> Content], doc.selection \subseteq InScene(doc.tree),
         NEW c \in Click, NEW order \in Orders, Enabled("merge"), ShallowFirst(order)
  PROVE  MayBuild("merge", order) /\ Made(Picture(State), Built(c, "merge", order))
<1>1. PICK s : s = WithMesh(order)
  OBVIOUS
<1>2. PicksSelected(s)
  BY <1>1, PickFacts
<1>3. PICK n \in Nat : n = Len(s) /\ n >= 2 /\ DOMAIN s = 1 .. n
  <2>1. Cardinality(Selected) >= 2
    BY DEF Enabled
  <2> QED BY <1>2, <2>1, LenProperties DEF PicksSelected
<1>4. PICK es, all : es = MergeEntries(c, order) /\ all = FlattenSeq([i \in DOMAIN s |-> mesh[s[i]]])
  OBVIOUS
<1>5. /\ Len(es) = n /\ DOMAIN es = 1 .. n
      /\ \A i \in 1 .. n : es[i] = EntryFor(s[i], IF i = 1 THEN Append(all, c) ELSE mesh[s[i]])
  <2>1. Len(s) >= 2 /\ MergedFrom(es, s, all, c)
    BY <1>1, <1>3, <1>4, MergedEntries
  <2> QED BY <1>3, <2>1 DEF MergedFrom
<1>6. ASSUME NEW i \in 1 .. n PROVE s[i] \in Selected
  BY <1>2, <1>3, ToSetDef DEF PicksSelected
<1>7. PICK a : a = Picture(State)
  OBVIOUS
<1>8. /\ a.mesh = mesh /\ InScene(a) = InScene(doc.tree) /\ a.parent = doc.tree.parent
  BY <1>7, StateIsGood, PictureSound
<1>9. PICK op : op = Built(c, "merge", order)
  OBVIOUS
<1>10. /\ op.kind = "merge" /\ op.click = c /\ op.entries = es /\ op.selectionBefore = doc.selection
  BY <1>4, <1>9 DEF Built, Entries
<1>14. \A i \in 1 .. n : /\ es[i].item = s[i] /\ es[i].parent = doc.tree.parent[s[i]]
                        /\ es[i].before = mesh[s[i]]
  BY <1>5, EntryForFields
<1>11. Distinct(es)
  BY <1>2, <1>3, <1>5, <1>14 DEF Distinct, PicksSelected, Injective
<1>15. 1 \in 1 .. n
  BY <1>3
<1>16. es[1].after = Append(all, c)
  <2>1. PICK v : v = Append(all, c)
    OBVIOUS
  <2>2. PICK f : f = es[1]
    OBVIOUS
  <2>3. f = EntryFor(s[1], v)
    BY <1>5, <1>15, <2>1, <2>2
  <2>4. f.after = v
    BY <2>3, EntryForFields
  <2> QED BY <2>1, <2>2, <2>4
<1>17. all = FlattenSeq([i \in DOMAIN es |-> a.mesh[es[i].item]])
  <2>1. [i \in DOMAIN s |-> mesh[s[i]]] = [i \in DOMAIN es |-> a.mesh[es[i].item]]
    BY <1>3, <1>5, <1>8, <1>14
  <2> QED BY <1>4, <2>1
<1>12. MadeMerge(a, op)
  <2>1. es # << >>
    BY <1>3, <1>5
  <2>2. ASSUME NEW i \in 1 .. n
        PROVE  /\ es[i].item \in InScene(a) /\ es[i].before = a.mesh[es[i].item]
               /\ es[i].parent = a.parent[es[i].item] /\ ~IsAncestor(a, es[i].item, es[1].item)
    <3>1. ~IsAncestor(doc.tree, s[i], s[1])
      BY <1>1, <1>3, FirstIsHighest
    <3>2. ~IsAncestor(a, s[i], s[1])
      BY <1>8, <3>1 DEF IsAncestor, UpwardClosed
    <3> QED BY <1>6, <1>8, <1>14, <1>15, <3>2, SelectedInScene
  <2> QED BY <1>5, <1>8, <1>10, <1>11, <1>16, <1>17, <2>1, <2>2 DEF MadeMerge
<1>13. MayBuild("merge", order)
  <2>1. \A x \in ToSet(s) : doc.tree.parent[x] # NoItem
    BY <1>2, SelectedInScene DEF PicksSelected
  <2> QED BY <1>1, <2>1 DEF MayBuild
<1> QED BY <1>7, <1>9, <1>10, <1>12, <1>13 DEF Made

(* A removal fits what is there.                                             *)
LEMMA RemovalIsMade ==
  ASSUME Good(doc), mesh \in [HasMesh -> Content], doc.selection \subseteq InScene(doc.tree),
         NEW x \in InScene(doc.tree), x # Root
  PROVE  Made(Picture(State), [kind |-> "remove", steps |-> << Removal(doc, x) >>])
<1>1. PICK r : r = Removal(doc, x)
  OBVIOUS
<1>2. /\ r.item = x /\ r.to = NoItem /\ r.selectionBefore = doc.selection /\ r.selectionAfter = {}
  BY <1>1 DEF Removal
<1>3. PICK a : a = Picture(State)
  OBVIOUS
<1>4. InScene(a) = InScene(doc.tree)
  BY <1>3, StateIsGood, PictureSound
<1>5. PICK op : op = [kind |-> "remove", steps |-> << r >>]
  OBVIOUS
<1>6. op.kind = "remove" /\ op.steps[1] = r
  BY <1>5
<1>7. MadeRemoval(a, r)
  BY <1>2, <1>4 DEF MadeRemoval
<1>8. Made(a, op)
  BY <1>6, <1>7 DEF Made
<1> QED BY <1>1, <1>3, <1>5, <1>8

(* While the user waits: at most one operation is under way, from the click  *)
(* to the end of its update(), and what it was made from is what is there;   *)
(* the executed operations lead from the loaded scene to what is there, and  *)
(* the undone ones lead on from it.                                         *)
Here == Picture(State)

(* The operation of a click is on its way to m_queued.                       *)
Travels(c) == job[c].phase \in {"asked", "reading", "pushing"}

(* update() with one operation to run, and once it has run it.               *)
Running == [at |-> 1, end |-> 1]
Ran1 == [at |-> 2, end |-> 1]

(* At most one operation is under way.                                       *)
OneTravels ==
  /\ \A c, d \in Click : Travels(c) /\ Travels(d) => c = d
  /\ \A c \in Click : job[c].phase # "torn"
  /\ queued # << >> => Len(queued) = 1 /\ \A c \in Click : ~Travels(c)
  /\ pass # Idle => Len(queued) = 1 /\ pass \in {Running, Ran1}

(* What a job has built fits what is there.                                  *)
JobsMade ==
  \A c \in Click : /\ job[c].phase = "asked" => Enabled(job[c].kind)
                   /\ job[c].phase \in {"reading", "pushing"} => Made(Here, job[c].operation)

(* What is queued fits what is there, the executed operations lead here and  *)
(* the undone ones lead on from here.                                        *)
ListsMade ==
  /\ queued # << >> /\ pass # Ran1 => Made(Here, queued[1])
  /\ Past(executed, Here)
  /\ pass # Ran1 => Future(undone, Here)

(* All of it, while the user waits: the program is alive, and the selection  *)
(* in the scene.                                                             *)
CalmInv == Alive /\ doc.selection \subseteq InScene(doc.tree) /\ OneTravels /\ JobsMade /\ ListsMade

-----------------------------------------------------------------------------
(* The present picture is sound.                                             *)
LEMMA HereFacts ==
  ASSUME TypedInv
  PROVE  /\ GoodState(State) /\ State.doc = doc /\ State.mesh = mesh /\ Sound(Here)
         /\ InScene(Here) = InScene(doc.tree) /\ Here.parent = doc.tree.parent /\ Here.mesh = mesh
<1>1. GoodState(State) /\ State.doc = doc /\ State.mesh = mesh
  BY StateIsGood DEF TypedInv
<1>2. Sound(Here) /\ InScene(Here) = InScene(doc.tree)
      /\ Here.parent = doc.tree.parent /\ Here.mesh = mesh
  BY <1>1, PictureSound DEF Here
<1> QED BY <1>1, <1>2

(* While the user waits the state is one that an operation may run in.       *)
LEMMA HereLeaves ==
  ASSUME TypedInv, CalmInv
  PROVE  Leaves(State, Here)
<1>1. State.doc.fault = "none" /\ State.doc.selection \subseteq InScene(Here)
  BY HereFacts DEF CalmInv, Alive
<1> QED BY <1>1, HereFacts DEF Leaves, Here

(* The places in update() differ.                                            *)
LEMMA PassShapes ==
  /\ Idle # Running /\ Idle # Ran1 /\ Running # Ran1
  /\ Idle.at = 0 /\ Running.at = 1 /\ Running.end = 1 /\ Ran1.at = 2 /\ Ran1.end = 1
<1>1. Idle.at = 0 /\ Running.at = 1 /\ Running.end = 1 /\ Ran1.at = 2 /\ Ran1.end = 1
  BY DEF Idle, Running, Ran1
<1> QED BY <1>1

(* Nothing is under way. *)
LEMMA NotBusy ==
  ASSUME ~Busy
  PROVE  queued = << >> /\ \A c \in Click : ~Travels(c)
BY DEF Busy, Pushing, InPhase, Travels

(* The same scene and meshes, and nothing under way but what is queued. *)
Still == doc'.tree = doc.tree /\ mesh' = mesh

(* The picture depends on the tree and the meshes only.                      *)
LEMMA HereStill ==
  ASSUME Still
  PROVE  Here' = Here
BY DEF Still, Here, Picture, State

(* Without a push_back() under way no access to m_queued meets another.      *)
LEMMA TornStill ==
  ASSUME JobsTyped, \A c \in Click : job[c].phase # "pushing"
  PROVE  \A c \in Click : /\ Torn[c].phase = job[c].phase /\ Torn[c].kind = job[c].kind
                          /\ Torn[c].operation = job[c].operation
<1> SUFFICES ASSUME NEW c \in Click
             PROVE  /\ Torn[c].phase = job[c].phase /\ Torn[c].kind = job[c].kind
                    /\ Torn[c].operation = job[c].operation
  OBVIOUS
<1>1. Torn[c] = Job(TornPhase(job[c].phase), job[c].kind, job[c].operation)
  BY DEF Torn
<1>2. TornPhase(job[c].phase) = job[c].phase
  BY DEF TornPhase
<1> QED BY <1>1, <1>2 DEF Job

-----------------------------------------------------------------------------
(* The loaded scene.                                                         *)
LEMMA InitCalm ==
  ASSUME Init
  PROVE  CalmInv
<1>1. TypedInv
  BY TypedInit
<1>2. PICK t \in InitialTrees : doc = [tree |-> t, selection |-> {}, fault |-> "none"]
  BY DEF Init
<1>3. doc.tree = t /\ doc.selection = {} /\ doc.fault = "none"
  BY <1>2
<1>4. queued = << >> /\ executed = << >> /\ undone = << >> /\ pass = Idle
      /\ mesh = [x \in HasMesh |-> << x >>]
  BY DEF Init
<1>5. \A c \in Click : job[c].phase = "none"
  BY DEF Init, Job
<1>6. Loaded(Here)
  BY <1>1, <1>3, <1>4, HereFacts DEF Loaded
<1>7. Past(executed, Here) /\ Future(undone, Here)
  BY <1>4, <1>6, PastNone, FutureNone
<1>8. OneTravels /\ JobsMade
  BY <1>4, <1>5 DEF OneTravels, JobsMade, Travels
<1> QED BY <1>3, <1>4, <1>7, <1>8 DEF CalmInv, Alive, ListsMade

(* The actions of a user who waits.                                          *)
LEMMA SelectCalm ==
  ASSUME TypedInv, CalmInv, calm', NEW S \in SUBSET InScene(doc.tree), Select(S)
  PROVE  CalmInv'
<1>1. ~Busy
  BY DEF Select
<1>2. queued = << >> /\ \A c \in Click : ~Travels(c)
  BY <1>1, NotBusy
<1>3. doc' = [doc EXCEPT !.selection = S]
  <2>1. InPhase("reading") = {}
    BY <1>2 DEF InPhase, Travels
  <2> QED BY <2>1 DEF Select
<1>4. Good(doc) /\ S \in SUBSET Item
  BY DEF TypedInv, InScene, Subtree
<1>5. doc'.tree = doc.tree /\ doc'.fault = doc.fault /\ doc'.selection = S
  BY <1>3, <1>4, SelectGood
<1>6. UNCHANGED << mesh, job, queued, executed, undone, pass >>
  BY DEF Select
<1>7. Here' = Here
  BY <1>5, <1>6, HereStill DEF Still
<1>8. OneTravels' /\ JobsMade'
  BY <1>2, <1>6 DEF CalmInv, OneTravels, JobsMade, Travels
<1>9. ListsMade'
  BY <1>6, <1>7 DEF CalmInv, ListsMade
<1> QED BY <1>5, <1>8, <1>9 DEF CalmInv, Alive

(* A click asks with an enabled button.                                      *)
LEMMA AskCalm ==
  ASSUME TypedInv, CalmInv, calm', NEW c \in Click, NEW kind \in {"edit", "merge"}, Ask(c, kind)
  PROVE  CalmInv'
<1>1. ~Busy /\ Enabled(kind)
  BY DEF Ask
<1>2. queued = << >> /\ \A d \in Click : ~Travels(d)
  BY <1>1, NotBusy
<1>3. UNCHANGED << doc, mesh, queued, executed, undone, pass >>
  BY DEF Ask
<1>4. Here' = Here /\ (Enabled(kind))'
  <2>1. Here' = Here
    BY <1>3, HereStill DEF Still
  <2> QED BY <1>1, <1>3, <2>1 DEF Enabled, Selected
<1>5. /\ job'[c].phase = "asked" /\ job'[c].kind = kind
      /\ \A d \in Click : d # c => job'[d] = job[d]
  <2>1. job \in [Click -> JobRecord] /\ job' = [job EXCEPT ![c] = Job("asked", kind, job[c].operation)]
    BY DEF Ask, TypedInv, JobsTyped
  <2>2. job'[c] = Job("asked", kind, job[c].operation)
    BY <2>1
  <2> QED BY <2>1, <2>2 DEF Job
<1>6. OneTravels'
  BY <1>2, <1>3, <1>5 DEF CalmInv, OneTravels, Travels
<1>7. JobsMade'
  BY <1>2, <1>4, <1>5 DEF JobsMade, Travels
<1>8. ListsMade'
  BY <1>3, <1>4 DEF CalmInv, ListsMade
<1> QED BY <1>3, <1>6, <1>7, <1>8 DEF CalmInv, Alive

(* The removal fits what is there when it is queued.                         *)
LEMMA RemoveOneCalm ==
  ASSUME TypedInv, CalmInv, calm', NEW x \in Item, RemoveOne(x)
  PROVE  CalmInv'
<1>1. ~Busy /\ pass = Idle
  BY DEF RemoveOne, Command
<1>2. queued = << >> /\ \A d \in Click : ~Travels(d)
  BY <1>1, NotBusy
<1>3. UNCHANGED << doc, mesh, executed, undone, pass >> /\ job' = Torn
  BY DEF RemoveOne
<1>4. Here' = Here
  BY <1>3, HereStill DEF Still
<1>5. PICK op : op = [kind |-> "remove", steps |-> << Removal(doc, x) >>]
  OBVIOUS
<1>6. queued' = << op >>
  BY <1>2, <1>5 DEF RemoveOne
<1>7. Made(Here, op)
  BY <1>5, RemovalIsMade DEF RemoveOne, TypedInv, CalmInv, Here
<1>8. \A d \in Click : job'[d].phase = job[d].phase
  BY <1>2, <1>3, TornStill DEF Travels, TypedInv
<1>9. OneTravels'
  BY <1>1, <1>2, <1>3, <1>6, <1>8 DEF CalmInv, OneTravels, Travels
<1>10. JobsMade'
  BY <1>2, <1>8 DEF JobsMade, Travels
<1>11. ListsMade'
  BY <1>3, <1>4, <1>6, <1>7 DEF CalmInv, ListsMade
<1> QED BY <1>3, <1>9, <1>10, <1>11 DEF CalmInv, Alive

(* The picture after an operation ran or was undone. *)
LEMMA StateLater ==
  ASSUME NEW s, NEW b, Leaves(s, b), doc' = s.doc, mesh' = s.mesh
  PROVE  Here' = b /\ Alive' /\ doc'.selection \subseteq InScene(doc'.tree)
<1>1. Here' = Picture(s)
  BY DEF Here, Picture, State
<1>2. InScene(s.doc.tree) = InScene(b)
  BY PictureSound DEF Leaves
<1> QED BY <1>1, <1>2 DEF Leaves, Alive

(* Undo goes back to the picture before the last operation.                  *)
LEMMA UndoCalm ==
  ASSUME TypedInv, CalmInv, calm', UndoCommand
  PROVE  CalmInv'
<1>1. ~Busy /\ pass = Idle /\ executed # << >>
  BY DEF UndoCommand, Command
<1>2. queued = << >> /\ \A d \in Click : ~Travels(d)
  BY <1>1, NotBusy
<1>3. UNCHANGED << job, queued, pass >> /\ executed' = Front(executed)
  BY DEF UndoCommand
<1>4. executed \in Seq(Ops) /\ undone \in Seq(Ops) /\ Past(executed, Here) /\ Future(undone, Here)
  BY <1>1, PassShapes DEF TypedInv, CalmInv, ListsMade
<1>5. PICK a : Past(Front(executed), a) /\ Leads(a, Last(executed), Here) /\ Captures(a, Last(executed))
  BY <1>1, <1>4, PastEnds
<1>6. PICK op \in Ops : op = Last(executed)
  BY <1>1, <1>4, LastFront
<1>7. PICK r : r = UndoAny(State, op)
  OBVIOUS
<1>8. Sound(a) /\ Made(a, op) /\ Here = After(a, op)
  BY <1>5, <1>6 DEF Leads
<1>9. TakenBack(a, op, r)
  BY <1>5, <1>6, <1>7, <1>8, HereLeaves, AnyUndone
<1>10. doc' = r.state.doc /\ mesh' = r.state.mesh /\ undone' = Append(undone, r.op)
  BY <1>6, <1>7 DEF UndoCommand
<1>11. Here' = a /\ Alive' /\ doc'.selection \subseteq InScene(doc'.tree)
  BY <1>9, <1>10, StateLater DEF TakenBack
<1>12. Leads(a, r.op, Here) /\ r.op \in Ops
  BY <1>8, <1>9 DEF Leads, TakenBack
<1>13. Future(undone', Here')
  BY <1>4, <1>10, <1>11, <1>12, FutureGrows
<1>14. Past(executed', Here')
  BY <1>3, <1>5, <1>11
<1>15. OneTravels' /\ JobsMade'
  BY <1>2, <1>3 DEF CalmInv, OneTravels, JobsMade, Travels
<1>16. ListsMade'
  BY <1>2, <1>3, <1>13, <1>14 DEF ListsMade
<1> QED BY <1>11, <1>15, <1>16 DEF CalmInv

(* Redo goes on to the next picture.                                         *)
LEMMA RedoCalm ==
  ASSUME TypedInv, CalmInv, calm', RedoCommand
  PROVE  CalmInv'
<1>1. ~Busy /\ pass = Idle /\ undone # << >>
  BY DEF RedoCommand, Command
<1>2. queued = << >> /\ \A d \in Click : ~Travels(d)
  BY <1>1, NotBusy
<1>3. UNCHANGED << job, queued, pass >> /\ undone' = Front(undone)
  BY DEF RedoCommand
<1>4. executed \in Seq(Ops) /\ undone \in Seq(Ops) /\ Past(executed, Here) /\ Future(undone, Here)
  BY <1>1, PassShapes DEF TypedInv, CalmInv, ListsMade
<1>5. PICK b : Leads(Here, Last(undone), b) /\ Future(Front(undone), b)
  BY <1>1, <1>4, FutureBegins
<1>6. PICK op \in Ops : op = Last(undone)
  BY <1>1, <1>4, LastFront
<1>7. PICK r : r = ExecuteAny(State, op)
  OBVIOUS
<1>8. Sound(Here) /\ Made(Here, op) /\ b = After(Here, op)
  BY <1>5, <1>6 DEF Leads
<1>9. Ran(Here, op, r)
  BY <1>6, <1>7, <1>8, HereLeaves, AnyExact
<1>10. doc' = r.state.doc /\ mesh' = r.state.mesh /\ executed' = Append(executed, r.op)
  BY <1>6, <1>7 DEF RedoCommand
<1>11. Here' = b /\ Alive' /\ doc'.selection \subseteq InScene(doc'.tree)
  BY <1>8, <1>9, <1>10, StateLater DEF Ran
<1>12. Leads(Here, r.op, b) /\ Captures(Here, r.op) /\ r.op \in Ops
  BY <1>8, <1>9 DEF Leads, Ran
<1>13. Past(executed', Here')
  BY <1>4, <1>10, <1>11, <1>12, PastGrows
<1>14. Future(undone', Here')
  BY <1>3, <1>5, <1>11
<1>15. OneTravels' /\ JobsMade'
  BY <1>2, <1>3 DEF CalmInv, OneTravels, JobsMade, Travels
<1>16. ListsMade'
  BY <1>2, <1>3, <1>13, <1>14 DEF ListsMade
<1> QED BY <1>11, <1>15, <1>16 DEF CalmInv

(* update() begins with at most one operation.                               *)
LEMMA BeginCalm ==
  ASSUME TypedInv, CalmInv, calm', BeginUpdate
  PROVE  CalmInv'
<1>1. pass = Idle /\ Pushing = {}
  BY DEF BeginUpdate, Command
<1>2. UNCHANGED << doc, mesh, queued, executed, undone >> /\ job' = Torn
  BY DEF BeginUpdate
<1>3. Here' = Here
  BY <1>2, HereStill DEF Still
<1>4. \A d \in Click : /\ job'[d].phase = job[d].phase /\ job'[d].kind = job[d].kind
                      /\ job'[d].operation = job[d].operation
  BY <1>1, <1>2, TornStill DEF Pushing, InPhase, TypedInv
<1>5. pass' = IF queued = << >> THEN Idle ELSE Running
  <2>1. queued # << >> => Len(queued) = 1
    BY DEF CalmInv, OneTravels
  <2> QED BY <2>1 DEF BeginUpdate, Running
<1>6. OneTravels'
  <2>1. queued # << >> => Len(queued) = 1
    BY DEF CalmInv, OneTravels
  <2> QED BY <1>2, <1>4, <1>5, <2>1 DEF CalmInv, OneTravels, Travels
<1>7. JobsMade'
  <2>1. \A k : Enabled(k)' <=> Enabled(k)
    BY <1>2 DEF Enabled, Selected
  <2> QED BY <1>3, <1>4, <2>1 DEF CalmInv, JobsMade
<1>8. ListsMade'
  <2>1. pass # Ran1
    BY <1>1, PassShapes
  <2> QED BY <1>2, <1>3, <2>1 DEF CalmInv, ListsMade
<1> QED BY <1>2, <1>6, <1>7, <1>8 DEF CalmInv, Alive

(* update() runs the operation, which fits what is there.                    *)
LEMMA ExecuteNextCalm ==
  ASSUME TypedInv, CalmInv, calm', ExecuteNext
  PROVE  CalmInv'
<1>1. pass = Running /\ Len(queued) = 1 /\ queued # << >> /\ \A d \in Click : ~Travels(d)
  <2>1. pass.at \in 1 .. pass.end
    BY DEF ExecuteNext
  <2>2. pass # Idle /\ pass # Ran1
    BY <2>1, PassShapes
  <2>3. Len(queued) = 1 /\ pass = Running
    BY <2>2 DEF CalmInv, OneTravels
  <2>4. queued # << >>
    BY <2>3
  <2> QED BY <2>3, <2>4 DEF CalmInv, OneTravels
<1>2. UNCHANGED << job, queued, undone >> /\ pass' = Ran1
  <2>1. [pass EXCEPT !.at = @ + 1] = Ran1
    BY <1>1 DEF Running, Ran1
  <2> QED BY <2>1 DEF ExecuteNext
<1>3. Made(Here, queued[1]) /\ Past(executed, Here) /\ executed \in Seq(Ops)
  BY <1>1, PassShapes DEF TypedInv, CalmInv, ListsMade
<1>4. PICK op \in Ops : op = queued[1]
  <2>1. 1 \in 1 .. Len(queued)
    BY <1>1
  <2> QED BY <2>1 DEF TypedInv
<1>5. PICK r : r = ExecuteAny(State, op)
  OBVIOUS
<1>6. pass.at = 1
  BY <1>1, PassShapes
<1>7. doc' = r.state.doc /\ mesh' = r.state.mesh /\ executed' = Append(executed, r.op)
  BY <1>4, <1>5, <1>6 DEF ExecuteNext
<1>8. Sound(Here) /\ Made(Here, op)
  BY <1>3, <1>4, HereFacts
<1>9. Ran(Here, op, r)
  BY <1>5, <1>8, HereLeaves, AnyExact
<1>10. PICK b : b = After(Here, op)
  OBVIOUS
<1>11. Here' = b /\ Alive' /\ doc'.selection \subseteq InScene(doc'.tree)
  BY <1>7, <1>9, <1>10, StateLater DEF Ran
<1>12. Leads(Here, r.op, b) /\ Captures(Here, r.op) /\ r.op \in Ops
  BY <1>8, <1>9, <1>10 DEF Leads, Ran
<1>13. Past(executed', Here')
  BY <1>3, <1>7, <1>11, <1>12, PastGrows
<1>14. OneTravels' /\ JobsMade'
  BY <1>1, <1>2 DEF CalmInv, OneTravels, JobsMade, Travels
<1>15. ListsMade'
  BY <1>2, <1>13 DEF ListsMade
<1> QED BY <1>11, <1>14, <1>15 DEF CalmInv

(* update() clears a queue with nothing but what has run.                    *)
LEMMA EndCalm ==
  ASSUME TypedInv, CalmInv, calm', EndUpdate
  PROVE  CalmInv'
<1>1. pass = Ran1 /\ queued # << >> /\ \A d \in Click : ~Travels(d)
  <2>1. pass # Idle /\ pass.at > pass.end
    BY DEF EndUpdate
  <2>2. pass # Running
    BY <2>1, PassShapes
  <2>3. Len(queued) = 1 /\ pass = Ran1
    BY <2>1, <2>2 DEF CalmInv, OneTravels
  <2>4. queued # << >>
    BY <2>3
  <2> QED BY <2>3, <2>4 DEF CalmInv, OneTravels
<1>2. /\ UNCHANGED << doc, mesh, job, executed >>
      /\ queued' = << >> /\ undone' = << >> /\ pass' = Idle
  BY DEF EndUpdate
<1>3. Here' = Here
  BY <1>2, HereStill DEF Still
<1>4. OneTravels' /\ JobsMade'
  BY <1>1, <1>2 DEF CalmInv, OneTravels, JobsMade, Travels
<1>5. Future(undone', Here')
  BY <1>2, FutureNone
<1>6. ListsMade'
  BY <1>2, <1>3, <1>5 DEF CalmInv, ListsMade
<1> QED BY <1>2, <1>4, <1>6 DEF CalmInv, Alive

(* An operation travels: nothing is queued, and update() is not at it.      *)
LEMMA Traveller ==
  ASSUME CalmInv, NEW c \in Click, Travels(c)
  PROVE  queued = << >> /\ pass = Idle /\ \A d \in Click : d # c => ~Travels(d)
<1>1. queued = << >>
  BY DEF CalmInv, OneTravels
<1>2. Len(queued) # 1
  BY <1>1
<1> QED BY <1>1, <1>2 DEF CalmInv, OneTravels

(* A job reads the selection and the meshes.                                 *)
LEMMA StartCalm ==
  ASSUME TypedInv, CalmInv, calm', NEW c \in Click, Start(c)
  PROVE  CalmInv'
<1>1. Travels(c) /\ job[c].phase = "asked" /\ Enabled(job[c].kind)
  BY DEF Start, Travels, CalmInv, JobsMade
<1>2. queued = << >> /\ pass = Idle /\ \A d \in Click : d # c => ~Travels(d)
  BY <1>1, Traveller
<1>3. PICK order \in Orders :
        /\ job[c].kind = "merge" => ShallowFirst(order)
        /\ doc' = IF MayBuild(job[c].kind, order) THEN doc ELSE FailWith(doc, "verify")
        /\ job' = [job EXCEPT ![c] = Job("reading", @.kind,
                    [kind |-> @.kind, click |-> c, entries |-> Entries(c, @.kind, order),
                     selectionBefore |-> doc.selection])]
  BY DEF Start
<1>4. UNCHANGED << mesh, queued, executed, undone, pass >>
  BY DEF Start
<1>5. job \in [Click -> JobRecord] /\ Good(doc) /\ mesh \in [HasMesh -> Content]
      /\ doc.selection \subseteq InScene(doc.tree)
  BY DEF TypedInv, JobsTyped, CalmInv
<1>6. PICK kind \in {"edit", "merge"} : kind = job[c].kind
  BY <1>5 DEF JobRecord
<1>7. PICK op : op = Built(c, kind, order)
  OBVIOUS
<1>8. MayBuild(kind, order) /\ Made(Here, op)
  <2>1. CASE kind = "edit"
    BY <1>1, <1>5, <1>6, <1>7, <2>1, EditIsMade DEF Here
  <2>2. CASE kind = "merge"
    BY <1>1, <1>3, <1>5, <1>6, <1>7, <2>2, MergeIsMade DEF Here
  <2> QED BY <2>1, <2>2
<1>9. doc' = doc
  BY <1>3, <1>6, <1>8
<1>10. /\ job'[c].phase = "reading" /\ job'[c].operation = op
       /\ \A d \in Click : d # c => job'[d] = job[d]
  <2>1. job' = [job EXCEPT ![c] = Job("reading", kind, op)]
    BY <1>3, <1>6, <1>7 DEF Built
  <2>2. job'[c] = Job("reading", kind, op)
    BY <1>5, <2>1
  <2> QED BY <1>5, <2>1, <2>2 DEF Job
<1>11. Here' = Here
  BY <1>4, <1>9, HereStill DEF Still
<1>12. OneTravels'
  BY <1>2, <1>4, <1>10 DEF CalmInv, OneTravels, Travels
<1>13. JobsMade'
  BY <1>2, <1>8, <1>10, <1>11 DEF JobsMade, Travels
<1>14. ListsMade'
  BY <1>4, <1>11 DEF CalmInv, ListsMade
<1> QED BY <1>9, <1>12, <1>13, <1>14 DEF CalmInv, Alive

(* A job has built its operation.                                            *)
LEMMA FinishCalm ==
  ASSUME TypedInv, CalmInv, calm', NEW c \in Click, Finish(c)
  PROVE  CalmInv'
<1>1. Travels(c) /\ job[c].phase = "reading" /\ Made(Here, job[c].operation)
  BY DEF Finish, Travels, CalmInv, JobsMade
<1>2. queued = << >> /\ pass = Idle /\ \A d \in Click : d # c => ~Travels(d)
  BY <1>1, Traveller
<1>3. UNCHANGED << doc, mesh, queued, executed, undone, pass >>
  BY DEF Finish
<1>4. Here' = Here
  BY <1>3, HereStill DEF Still
<1>5. Pushing = {}
  BY DEF Finish
<1>6. \A d \in Click : /\ Torn[d].phase = job[d].phase /\ Torn[d].kind = job[d].kind
                      /\ Torn[d].operation = job[d].operation
  BY <1>5, TornStill DEF Pushing, InPhase, TypedInv
<1>7. job' = [Torn EXCEPT ![c] = Job("pushing", Torn[c].kind, Torn[c].operation)]
  BY <1>2, <1>5 DEF Finish
<1>8. /\ job'[c].phase = "pushing" /\ job'[c].operation = job[c].operation
      /\ \A d \in Click : d # c => job'[d].phase = job[d].phase
  <2>1. job'[c] = Job("pushing", Torn[c].kind, Torn[c].operation)
    BY <1>7 DEF Torn
  <2>2. \A d \in Click : d # c => job'[d] = Torn[d]
    BY <1>7 DEF Torn
  <2> QED BY <1>6, <2>1, <2>2 DEF Job
<1>9. OneTravels'
  BY <1>2, <1>3, <1>8 DEF CalmInv, OneTravels, Travels
<1>10. JobsMade'
  BY <1>1, <1>2, <1>4, <1>8 DEF JobsMade, Travels
<1>11. ListsMade'
  BY <1>3, <1>4 DEF CalmInv, ListsMade
<1> QED BY <1>3, <1>9, <1>10, <1>11 DEF CalmInv, Alive

(* queue() ends: the operation now waits for update().                       *)
LEMMA PushCalm ==
  ASSUME TypedInv, CalmInv, calm', NEW c \in Click, Push(c)
  PROVE  CalmInv'
<1>1. job[c].phase = "pushing" /\ Travels(c) /\ Made(Here, job[c].operation)
  <2>1. job[c].phase \in {"pushing", "torn"}
    BY DEF Push, Pushing, InPhase
  <2>2. job[c].phase = "pushing"
    BY <2>1 DEF CalmInv, OneTravels
  <2> QED BY <2>2 DEF Travels, CalmInv, JobsMade
<1>2. queued = << >> /\ pass = Idle /\ \A d \in Click : d # c => ~Travels(d)
  BY <1>1, Traveller
<1>3. PICK op : op = job[c].operation
  OBVIOUS
<1>4. queued' = << op >> /\ UNCHANGED << doc, mesh, executed, undone, pass >>
  <2>1. queued' = Append(queued, op) /\ UNCHANGED << doc, mesh, executed, undone, pass >>
    BY <1>1, <1>3 DEF Push
  <2> QED BY <1>2, <2>1
<1>5. /\ job'[c].phase = "done"
      /\ \A d \in Click : d # c => job'[d] = job[d]
  <2>1. job \in [Click -> JobRecord] /\ job' = [job EXCEPT ![c] = Job("done", job[c].kind, Nothing)]
    BY DEF Push, TypedInv, JobsTyped
  <2>2. job'[c] = Job("done", job[c].kind, Nothing)
    BY <2>1
  <2> QED BY <2>1, <2>2 DEF Job
<1>6. Here' = Here
  BY <1>4, HereStill DEF Still
<1>7. queued'[1] = op /\ Len(queued') = 1
  BY <1>4
<1>8. OneTravels'
  BY <1>2, <1>4, <1>5, <1>7 DEF CalmInv, OneTravels, Travels
<1>9. JobsMade'
  BY <1>2, <1>5 DEF JobsMade, Travels
<1>10. ListsMade'
  BY <1>1, <1>3, <1>4, <1>6, <1>7 DEF CalmInv, ListsMade
<1> QED BY <1>4, <1>8, <1>9, <1>10 DEF CalmInv, Alive

-----------------------------------------------------------------------------
(* What holds in every state, as long as the user has waited.                *)
CalmNow == calm => CalmInv

(* Such a user has shown no other graph.                                     *)
NoneComing == calm => hulls.coming = {}

LEMMA NoneComingNext ==
  ASSUME NoneComing, [Next]_vars
  PROVE  NoneComing'
<1>1. CASE hulls' = hulls /\ (calm' => calm)
  BY <1>1 DEF NoneComing
<1>2. CASE EmptyHulls
  BY <1>2 DEF EmptyHulls, NoneComing
<1>3. ASSUME NEW x, AddHull(x) PROVE NoneComing'
  BY <1>3 DEF AddHull, NoneComing
<1>4. CASE User
  BY <1>1, <1>4 DEF User, Select, Ask, RemoveOne, UndoCommand, RedoCommand
<1>5. CASE Update
  BY <1>1, <1>5 DEF Update, BeginUpdate, ExecuteNext, EndUpdate
<1>6. CASE Worker
  <2>1. ASSUME NEW c \in Click, Start(c) \/ Push(c) PROVE NoneComing'
    <3>1. hulls' = hulls /\ calm' = calm
      BY <2>1 DEF Start, Push
    <3> QED BY <1>1, <3>1
  <2>2. ASSUME NEW c \in Click, Finish(c) PROVE NoneComing'
    <3>1. hulls' = hulls /\ (calm' => calm)
      BY <2>2 DEF Finish
    <3> QED BY <1>1, <3>1
  <2> QED BY <1>6, <2>1, <2>2 DEF Worker
<1>7. CASE UNCHANGED vars
  BY <1>1, <1>7 DEF vars
<1> QED BY <1>2, <1>3, <1>4, <1>5, <1>6, <1>7 DEF Next, Rebuild

(* Every step keeps what holds as long as the user has waited.               *)
LEMMA CalmNext ==
  ASSUME TypedInv, NoneComing, CalmNow, [Next]_vars
  PROVE  CalmNow'
<1> SUFFICES ASSUME calm' PROVE CalmInv'
  BY DEF CalmNow
<1>1. CASE UNCHANGED vars
  <2>1. /\ doc' = doc /\ mesh' = mesh /\ job' = job /\ queued' = queued
        /\ executed' = executed /\ undone' = undone /\ pass' = pass /\ calm' = calm
    BY <1>1 DEF vars
  <2>2. Here' = Here
    BY <2>1, HereStill DEF Still
  <2>3. CalmInv
    BY <2>1 DEF CalmNow
  <2>4. OneTravels'
    BY <2>1, <2>3 DEF CalmInv, OneTravels, Travels
  <2>5. JobsMade'
    <3>1. \A k : Enabled(k)' <=> Enabled(k)
      BY <2>1 DEF Enabled, Selected
    <3> QED BY <2>1, <2>2, <2>3, <3>1 DEF CalmInv, JobsMade
  <2>6. ListsMade'
    BY <2>1, <2>2, <2>3 DEF CalmInv, ListsMade
  <2> QED BY <2>1, <2>3, <2>4, <2>5, <2>6 DEF CalmInv, Alive
<1>2. ASSUME NEW S \in Selections, Select(S) PROVE CalmInv'
  <2>1. CalmInv
    BY <1>2 DEF Select, CalmNow
  <2>2. S \in SUBSET InScene(doc.tree)
    BY <1>2 DEF Select
  <2> QED BY <1>2, <2>1, <2>2, SelectCalm
<1>3. ASSUME NEW c \in Click, NEW kind \in {"edit", "merge"}, Ask(c, kind) PROVE CalmInv'
  <2>1. CalmInv
    BY <1>3 DEF Ask, CalmNow
  <2> QED BY <1>3, <2>1, AskCalm
<1>4. ASSUME NEW x \in Item, RemoveOne(x) PROVE CalmInv'
  <2>1. CalmInv
    BY <1>4 DEF RemoveOne, CalmNow
  <2> QED BY <1>4, <2>1, RemoveOneCalm
<1>5. CASE UndoCommand
  <2>1. CalmInv
    BY <1>5 DEF UndoCommand, CalmNow
  <2> QED BY <1>5, <2>1, UndoCalm
<1>6. CASE RedoCommand
  <2>1. CalmInv
    BY <1>6 DEF RedoCommand, CalmNow
  <2> QED BY <1>6, <2>1, RedoCalm
<1>7. CASE BeginUpdate
  <2>1. CalmInv
    BY <1>7 DEF BeginUpdate, CalmNow
  <2> QED BY <1>7, <2>1, BeginCalm
<1>8. CASE ExecuteNext
  <2>1. CalmInv
    BY <1>8 DEF ExecuteNext, CalmNow
  <2> QED BY <1>8, <2>1, ExecuteNextCalm
<1>9. CASE EndUpdate
  <2>1. CalmInv
    BY <1>9 DEF EndUpdate, CalmNow
  <2> QED BY <1>9, <2>1, EndCalm
<1>10. ASSUME NEW c \in Click, Start(c) PROVE CalmInv'
  <2>1. CalmInv
    BY <1>10 DEF Start, CalmNow
  <2> QED BY <1>10, <2>1, StartCalm
<1>11. ASSUME NEW c \in Click, Finish(c) PROVE CalmInv'
  <2>1. CalmInv
    BY <1>11 DEF Finish, CalmNow
  <2> QED BY <1>11, <2>1, FinishCalm
<1>12. ASSUME NEW c \in Click, Push(c) PROVE CalmInv'
  <2>1. CalmInv
    BY <1>12 DEF Push, CalmNow
  <2> QED BY <1>12, <2>1, PushCalm
<1>13. CASE User
  BY <1>2, <1>3, <1>4, <1>5, <1>6, <1>13 DEF User
<1>14. CASE Update
  BY <1>7, <1>8, <1>9, <1>14 DEF Update
<1>15. CASE Worker
  BY <1>10, <1>11, <1>12, <1>15 DEF Worker
<1>16. ~Rebuild
  BY DEF Rebuild, EmptyHulls, AddHull, NoneComing
<1> QED BY <1>1, <1>13, <1>14, <1>15, <1>16 DEF Next

(* No ERHE_VERIFY fails and nothing crashes for a user who waits and keeps   *)
(* the graph, for every scene, selection and number of clicks and operations.*)
THEOREM WaitingIsAlwaysSafe == Spec => []WaitingIsSafe
<1>1. Init => TypedInv /\ NoneComing /\ CalmNow
  <2> SUFFICES ASSUME Init PROVE TypedInv /\ NoneComing /\ CalmNow
    OBVIOUS
  <2> QED BY TypedInit, InitCalm, InitHulls DEF CalmNow, NoneComing
<1>2. TypedInv /\ NoneComing /\ [Next]_vars => TypedInv' /\ NoneComing'
  BY TypedNext, NoneComingNext
<1>3. TypedInv /\ NoneComing /\ CalmNow /\ [Next]_vars => CalmNow'
  BY CalmNext
<1>4. CalmNow => WaitingIsSafe
  BY DEF CalmNow, CalmInv, WaitingIsSafe
<1> QED BY <1>1, <1>2, <1>3, <1>4, PTL DEF Spec

(* The meshes after the first k operations, one after another.              *)
AppliedTrail(R, m0, ops, n) ==
  /\ R[0] = m0
  /\ \A k \in 1 .. n : R[k] = Applied(R[k - 1], ops[k])

(* The fold of SceneFollowsHistory goes from one operation to the next.      *)
LEMMA AppliedGoAlong ==
  ASSUME NEW m0, NEW ops, NEW n \in Nat, DOMAIN ops = 1 .. n
  PROVE  \E R : AppliedTrail(R, m0, ops, n) /\ FoldLeft(Applied, m0, ops) = R[n]
<1> DEFINE Run(a, k) == Applied(a, ops[k])
           Body(g, s) == IF s = {} THEN m0
                         ELSE LET x == Max(s) IN Run(g[s \ {x}], x)
           Part(m, g) == g = [s \in SUBSET (1 .. m) |-> Body(g, s)]
           iter == CHOOSE g : g = [s \in SUBSET (1 .. n) |-> Body(g, s)]
           P == {m \in Nat : \E g : Part(m, g)}
<1>1. FoldLeft(Applied, m0, ops) = iter[1 .. n]
  BY DEF FoldLeft, MapThenFoldSet
<1> HIDE DEF Run
<1>13. ASSUME NEW k \in Nat, NEW s \in SUBSET (1 .. k), k \in s PROVE Max(s) = k
  <2>1. k \in s /\ \A y \in s : k >= y
    BY <1>13
  <2>2. \A x \in s : x \in Int
    OBVIOUS
  <2>3. \A x \in s : (\A y \in s : x >= y) => x = k
    BY <2>1, <2>2
  <2>4. PICK z : z = Max(s)
    OBVIOUS
  <2>5. z \in s /\ \A y \in s : z >= y
    BY <2>1, <2>4 DEF Max
  <2> QED BY <2>3, <2>4, <2>5
<1>2. 0 \in P
  <2> DEFINE g == [s \in SUBSET (1 .. 0) |-> m0]
  <2>2. ASSUME NEW s \in SUBSET (1 .. 0) PROVE g[s] = Body(g, s)
    <3>1. s = {}
      OBVIOUS
    <3> QED BY <3>1
  <2>3. g = [s \in SUBSET (1 .. 0) |-> g[s]]
    OBVIOUS
  <2> HIDE DEF g, Body
  <2>1. Part(0, g)
    BY <2>2, <2>3, Zenon
  <2> HIDE DEF Part
  <2> QED BY <2>1
<1>3. ASSUME NEW m \in P PROVE m + 1 \in P
  <2>1. m \in Nat /\ \E g : Part(m, g)
    OBVIOUS
  <2>2. PICK g : Part(m, g)
    BY <2>1
  <2> DEFINE h == [s \in SUBSET (1 .. m + 1) |->
                     IF m + 1 \in s THEN Run(g[s \ {m + 1}], m + 1) ELSE g[s]]
  <2>3. ASSUME NEW s \in SUBSET (1 .. m + 1) PROVE h[s] = Body(h, s)
    <3>1. CASE m + 1 \in s
      <4>1. s # {} /\ Max(s) = m + 1
        BY <1>13, <2>1, <3>1, m + 1 \in Nat
      <4>2. s \ {m + 1} \in SUBSET (1 .. m + 1) /\ m + 1 \notin s \ {m + 1}
        OBVIOUS
      <4>3. h[s \ {m + 1}] = g[s \ {m + 1}]
        BY <4>2
      <4>4. h[s] = Run(g[s \ {m + 1}], m + 1)
        BY <3>1
      <4> HIDE DEF h
      <4> QED BY <4>1, <4>3, <4>4
    <3>2. CASE m + 1 \notin s
      <4>1. s \in SUBSET (1 .. m)
        BY <2>1, <3>2
      <4>2. h[s] = g[s]
        BY <3>2
      <4>3. g[s] = Body(g, s)
        <5> HIDE DEF Body
        <5> QED BY <2>2, <4>1
      <4>5. ASSUME NEW x PROVE h[s \ {x}] = g[s \ {x}]
        <5>1. s \ {x} \in SUBSET (1 .. m + 1) /\ m + 1 \notin s \ {x}
          BY <3>2
        <5> QED BY <5>1
      <4> HIDE DEF h
      <4> QED BY <4>2, <4>3, <4>5
    <3> QED BY <3>1, <3>2
  <2>4. h = [s \in SUBSET (1 .. m + 1) |-> h[s]]
    OBVIOUS
  <2> HIDE DEF h, Body
  <2>5. Part(m + 1, h)
    BY <2>3, <2>4, Zenon
  <2> HIDE DEF Part
  <2> QED BY <2>1, <2>5
<1>4. P \in SUBSET Nat
  OBVIOUS
<1> HIDE DEF P
<1>5. P = Nat
  BY <1>2, <1>3, <1>4, NatSetInduction
<1>6. \E g : Part(n, g)
  BY <1>5 DEF P
<1>7. iter = [s \in SUBSET (1 .. n) |-> Body(iter, s)]
  <2> HIDE DEF Body
  <2> QED BY <1>6, Zenon
<1> HIDE DEF iter, Body
<1>8. ASSUME NEW s \in SUBSET (1 .. n) PROVE iter[s] = Body(iter, s)
  BY <1>7, Zenon
<1> DEFINE R == [k \in 0 .. n |-> iter[1 .. k]]
<1>9. R[0] = m0
  <2>1. {} \in SUBSET (1 .. n) /\ 1 .. 0 = {}
    OBVIOUS
  <2>2. iter[{}] = Body(iter, {})
    BY <1>8, <2>1
  <2>3. iter[{}] = m0
    BY <2>2 DEF Body
  <2> QED BY <2>1, <2>3
<1>10. ASSUME NEW k \in 1 .. n PROVE R[k] = Run(R[k - 1], k)
  <2>1. PICK j \in Nat : k = j + 1
    BY k - 1 \in Nat
  <2>5. k \in Nat /\ k \in 1 .. k /\ 1 .. k \in SUBSET (1 .. k)
    OBVIOUS
  <2>6. Max(1 .. k) = k
    BY <1>13, <2>5
  <2>9. \A i \in 1 .. k : i \in 1 .. n
    BY <2>5
  <2>7. 1 .. k \in SUBSET (1 .. n) /\ 1 .. k # {}
    BY <2>5, <2>9
  <2>8. (1 .. k) \ {k} = 1 .. k - 1
    OBVIOUS
  <2>2. /\ 1 .. k \in SUBSET (1 .. n) /\ 1 .. k # {} /\ Max(1 .. k) = k
        /\ (1 .. k) \ {k} = 1 .. k - 1
    BY <2>6, <2>7, <2>8
  <2>3. R[k] = iter[1 .. k] /\ R[k - 1] = iter[1 .. k - 1]
    OBVIOUS
  <2>4. iter[1 .. k] = Run(iter[1 .. k - 1], k)
    <3>1. iter[1 .. k] = Body(iter, 1 .. k)
      BY <1>8, <2>2
    <3> QED BY <2>2, <3>1 DEF Body
  <2> QED BY <2>3, <2>4
<1>14. R[n] = iter[1 .. n]
  OBVIOUS
<1> HIDE DEF R
<1>11. AppliedTrail(R, m0, ops, n)
  BY <1>9, <1>10 DEF AppliedTrail, Run
<1> QED BY <1>1, <1>11, <1>14

(* The pictures of the past have the meshes that the fold makes.             *)
LEMMA PastMeshes ==
  ASSUME NEW ops \in Seq(Ops), NEW b, Past(ops, b)
  PROVE  /\ b.mesh = FoldLeft(Applied, [x \in HasMesh |-> << x >>], ops)
         /\ ops = << >> => Loaded(b)
<1>1. PICK T : PastTrail(T, ops, b)
  BY DEF Past
<1>2. PICK n \in Nat : n = Len(ops) /\ DOMAIN ops = 1 .. n
  BY LenProperties
<1>3. PICK m0 : m0 = [x \in HasMesh |-> << x >>]
  OBVIOUS
<1>4. PICK R : AppliedTrail(R, m0, ops, n) /\ FoldLeft(Applied, m0, ops) = R[n]
  BY <1>2, AppliedGoAlong
<1>5. Loaded(T[0]) /\ T[n] = b /\ \A i \in 1 .. n : Leads(T[i - 1], ops[i], T[i])
  BY <1>1, <1>2 DEF PastTrail
<1> DEFINE P == {k \in Nat : k \in 0 .. n => T[k].mesh = R[k]}
<1>6. 0 \in P
  BY <1>3, <1>4, <1>5 DEF Loaded, AppliedTrail
<1>7. ASSUME NEW k \in P PROVE k + 1 \in P
  <2>1. k \in Nat /\ (k \in 0 .. n => T[k].mesh = R[k])
    OBVIOUS
  <2>2. ASSUME k + 1 \in 0 .. n PROVE T[k + 1].mesh = R[k + 1]
    <3>1. k + 1 \in 1 .. n /\ (k + 1) - 1 = k /\ T[k].mesh = R[k]
      BY <2>1, <2>2
    <3>2. R[k + 1] = Applied(R[k], ops[k + 1])
      BY <1>4, <3>1 DEF AppliedTrail
    <3>3. T[k + 1] = After(T[k], ops[k + 1])
      BY <1>5, <3>1 DEF Leads
    <3>4. After(T[k], ops[k + 1]).mesh = Applied(T[k].mesh, ops[k + 1])
      BY AfterFields
    <3> QED BY <3>1, <3>2, <3>3, <3>4
  <2> QED BY <2>1, <2>2
<1>8. P \in SUBSET Nat
  OBVIOUS
<1> HIDE DEF P
<1>9. n \in P
  BY <1>6, <1>7, <1>8, NatSetInduction
<1>10. T[n].mesh = R[n]
  BY <1>9 DEF P
<1>11. ops = << >> => n = 0
  BY <1>2
<1> QED BY <1>3, <1>4, <1>5, <1>10, <1>11

(* For a user who waits and keeps the graph the meshes are those that the    *)
(* executed operations make, one after the other, and with all undone every  *)
(* node is below the parent it was loaded below, for every scene and number *)
(* of operations.                                                           *)
THEOREM SceneAlwaysFollowsHistory == Spec => []SceneFollowsHistory
<1>1. Init => TypedInv /\ NoneComing /\ CalmNow
  <2> SUFFICES ASSUME Init PROVE TypedInv /\ NoneComing /\ CalmNow
    OBVIOUS
  <2> QED BY TypedInit, InitCalm, InitHulls DEF CalmNow, NoneComing
<1>2. TypedInv /\ NoneComing /\ [Next]_vars => TypedInv' /\ NoneComing'
  BY TypedNext, NoneComingNext
<1>3. TypedInv /\ NoneComing /\ CalmNow /\ [Next]_vars => CalmNow'
  BY CalmNext
<1>4. TypedInv /\ CalmNow => SceneFollowsHistory
  <2>1. ASSUME TypedInv, CalmInv
        PROVE  /\ mesh = FoldLeft(Applied, [x \in HasMesh |-> << x >>], executed)
               /\ executed = << >> => \E t \in InitialTrees : doc.tree.parent = t.parent
    <3>1. executed \in Seq(Ops) /\ Past(executed, Here)
      BY <2>1 DEF TypedInv, CalmInv, ListsMade
    <3>2. Here.mesh = mesh /\ Here.parent = doc.tree.parent
      BY <2>1, HereFacts
    <3>3. /\ Here.mesh = FoldLeft(Applied, [x \in HasMesh |-> << x >>], executed)
          /\ executed = << >> => Loaded(Here)
      BY <3>1, PastMeshes
    <3> QED BY <3>2, <3>3 DEF Loaded
  <2> QED BY <2>1 DEF CalmNow, SceneFollowsHistory
<1> QED BY <1>1, <1>2, <1>3, <1>4, PTL DEF Spec

(* An operation that needs no lock changes no mesh. *)
LEMMA UnlockedKeepsMeshes ==
  ASSUME NEW op, ~NeedsLock(op)
  PROVE  /\ ExecuteAny(State, op).state.mesh = mesh
         /\ UndoAny(State, op).state.mesh = mesh
<1>1. CASE op.kind \notin {"edit", "merge"}
  BY <1>1 DEF State, ExecuteAny, UndoAny, ExecuteRemoval, UndoRemoval
<1>2. CASE op.kind = "edit"
  <2>1. ~Hosted(State, op)
    BY <1>2 DEF NeedsLock
  <2>2. ExecuteEdit(State, op).mesh = mesh /\ UndoEdit(State, op).mesh = mesh
    BY <2>1 DEF State, ExecuteEdit, UndoEdit, Failed
  <2> QED
    BY <1>2, <2>2 DEF ExecuteAny, UndoAny
<1>3. CASE op.kind = "merge"
  <2>1. ~Hosted(State, op)
    BY <1>3 DEF NeedsLock
  <2>2. ExecuteMerge(State, op).mesh = mesh /\ UndoMerge(State, op).mesh = mesh
    BY <2>1 DEF State, ExecuteMerge, UndoMerge
  <2> QED
    BY <1>3, <2>2 DEF ExecuteAny, UndoAny
<1> QED
  BY <1>1, <1>2, <1>3

LEMMA LockedStepKeepsMeshes ==
  ASSUME Next, Locked
  PROVE  mesh' = mesh
<1>1. CASE User
  <2>1. ASSUME UndoCommand PROVE mesh' = mesh
    BY <2>1, UnlockedKeepsMeshes DEF UndoCommand, MayRun
  <2>2. ASSUME RedoCommand PROVE mesh' = mesh
    BY <2>2, UnlockedKeepsMeshes DEF RedoCommand, MayRun
  <2> QED
    BY <1>1, <2>1, <2>2 DEF User, Select, Ask, RemoveOne
<1>2. CASE Update
  <2>1. ASSUME ExecuteNext PROVE mesh' = mesh
    BY <2>1, UnlockedKeepsMeshes DEF ExecuteNext, MayRun
  <2> QED
    BY <1>2, <2>1 DEF Update, BeginUpdate, EndUpdate
<1>3. CASE Worker
  BY <1>3 DEF Worker, Start, Finish, Push
<1>4. CASE Rebuild
  BY <1>4 DEF Rebuild, EmptyHulls, AddHull
<1> QED
  BY <1>1, <1>2, <1>3, <1>4 DEF Next

(* The meshes stay while they are read. *)
MeshesStay == \A c \in Click : Holds(c) /\ Holds(c)' => mesh' = mesh

(* No step of the main thread changes a mesh that a worker may be reading:   *)
(* the part of ReaderUndisturbed that is about meshes.                      *)
THEOREM MeshesStayWhileRead == Spec => [][MeshesStay]_vars
<1>1. Next => MeshesStay
  BY LockedStepKeepsMeshes DEF MeshesStay, Locked
<1> QED
  BY <1>1, PTL DEF Spec

(* While a worker holds the mutex of the scene, no step changes a mesh, and  *)
(* the only nodes that leave are all those below Hulls at once: what runs on *)
(* the operation stack waits (operation_stack.cpp), the removal of the old   *)
(* hulls does not (node_convex_hull_visualization.cpp).                      *)
THEOREM ReadersStayUndisturbed == Spec => ReaderUndisturbed
<1> DEFINE Leave == \A x \in InScene(doc.tree) \ InScene(doc.tree') :
                      IsAncestor(doc.tree, Hulls, x) /\ doc.tree.children[Hulls]' = << >>
           Kept == \A c \in Click : Holds(c) /\ Holds(c)' =>
                     /\ mesh' = mesh
                     /\ \A x \in InScene(doc.tree) \ InScene(doc.tree') :
                          IsAncestor(doc.tree, Hulls, x) /\ doc.tree.children[Hulls]' = << >>
<1>1. Init => TypedInv
  BY TypedInit
<1>2. TypedInv /\ [Next]_vars => TypedInv'
  BY TypedNext
<1>3. TypedInv /\ [Next]_vars => [Kept]_vars
  <2>1. ASSUME TypedInv, Next PROVE Kept
    <3>1. Locked => mesh' = mesh /\ (SceneKept \/ HullsGone(doc.tree, doc.tree'))
      BY <2>1, LockedStepKeepsMeshes, LockedStepKeepsScene
    <3>2. SceneKept \/ HullsGone(doc.tree, doc.tree') => Leave
      BY DEF SceneKept, HullsGone
    <3>3. Locked => mesh' = mesh /\ Leave
      BY <3>1, <3>2
    <3> QED BY <3>3 DEF Locked
  <2> HIDE DEF Kept
  <2> QED BY <2>1
<1> QED BY <1>1, <1>2, <1>3, PTL DEF Spec, ReaderUndisturbed
=============================================================================
