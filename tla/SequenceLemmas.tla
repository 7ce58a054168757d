--------------------------- MODULE SequenceLemmas ----------------------------
(***************************************************************************)
(* What several proofs need and the library does not state: induction and   *)
(* recursion over the natural numbers without operator parameters, and what *)
(* inserting, erasing and reversing do to a sequence without duplicates.    *)
(***************************************************************************)
EXTENDS Integers, SequencesExt, SequenceTheorems, FiniteSetTheorems,
        WellFoundedInduction, TLAPS

-----------------------------------------------------------------------------
(* Natural numbers *)

(* Every nonempty set of natural numbers has a smallest element. *)
LEMMA NatSmallest ==
  ASSUME NEW S \in SUBSET Nat, S # {}
  PROVE  \E m \in S : \A n \in S : m <= n
<1>1. \E m \in S : \A n \in S : ~(<<n, m>> \in OpToRel(<, Nat))
  BY NatLessThanWellFounded, WFMin
<1>2. PICK m \in S : \A n \in S : ~(<<n, m>> \in OpToRel(<, Nat))
  BY <1>1
<1>3. \A n \in S : ~(n < m)
  BY <1>2 DEF OpToRel
<1> QED BY <1>3

(* Induction over the natural numbers, for a set. *)
LEMMA NatSetInduction ==
  ASSUME NEW P \in SUBSET Nat, 0 \in P, \A n \in P : n + 1 \in P
  PROVE  P = Nat
<1>1. SUFFICES ASSUME Nat \ P # {} PROVE FALSE
  OBVIOUS
<1>2. PICK m \in Nat \ P : \A n \in Nat \ P : m <= n
  BY <1>1, NatSmallest
<1>3. m # 0 /\ m - 1 \in Nat
  BY <1>2
<1>4. m - 1 \in P
  BY <1>2, <1>3
<1> QED BY <1>2, <1>4

(* A function on the natural numbers may be defined by its value at 0 and a  *)
(* step that depends on the argument.                                       *)
Iterates(f, D, e, s) ==
  f \in [Nat -> D] /\ f[0] = e /\ \A n \in Nat : f[n + 1] = s[<<n, f[n]>>]

LEMMA NatRecursion ==
  ASSUME NEW D, NEW e \in D, NEW s \in [Nat \X D -> D]
  PROVE  \E f : Iterates(f, D, e, s)
<1> DEFINE Part(n) == {g \in [0 .. n -> D] :
                        g[0] = e /\ \A k \in 0 .. n - 1 : g[k + 1] = s[<<k, g[k]>>]}
<1>1. \A n \in Nat : Part(n) # {}
  <2> DEFINE P == {n \in Nat : Part(n) # {}}
  <2>1. 0 \in P
    <3>1. [k \in 0 .. 0 |-> e] \in Part(0)
      OBVIOUS
    <3> QED BY <3>1
  <2>2. ASSUME NEW n \in P PROVE n + 1 \in P
    <3>0. n \in Nat
      OBVIOUS
    <3>1. PICK g \in [0 .. n -> D] :
            g[0] = e /\ \A k \in 0 .. n - 1 : g[k + 1] = s[<<k, g[k]>>]
      OBVIOUS
    <3> DEFINE h == [k \in 0 .. n + 1 |-> IF k <= n THEN g[k] ELSE s[<<n, g[n]>>]]
    <3>3. g[n] \in D /\ s[<<n, g[n]>>] \in D
      BY <3>0
    <3>4. h \in [0 .. n + 1 -> D]
      BY <3>0, <3>3
    <3>5. h[0] = e
      BY <3>0, <3>1
    <3>6. ASSUME NEW k \in 0 .. n PROVE h[k + 1] = s[<<k, h[k]>>]
      <4>1. h[k] = g[k]
        BY <3>0
      <4>2. CASE k < n
        <5>1. k \in 0 .. n - 1 /\ h[k + 1] = g[k + 1]
          BY <3>0, <4>2
        <5> QED BY <3>1, <4>1, <5>1
      <4>3. CASE k = n
        <5>1. n + 1 \in 0 .. n + 1 /\ ~(n + 1 <= n)
          BY <3>0
        <5>2. h[n + 1] = s[<<n, g[n]>>]
          BY <5>1
        <5> HIDE DEF h
        <5> QED BY <4>1, <4>3, <5>2
      <4> QED BY <3>0, <4>2, <4>3
    <3> HIDE DEF h
    <3>7. h \in Part(n + 1)
      <4>1. 0 .. (n + 1) - 1 = 0 .. n
        BY <3>0
      <4> QED BY <3>4, <3>5, <3>6, <4>1
    <3> HIDE DEF Part
    <3> QED BY <3>0, <3>7
  <2> HIDE DEF P
  <2>3. P = Nat
    <3>1. P \in SUBSET Nat
      BY DEF P
    <3> QED BY <2>1, <2>2, <3>1, NatSetInduction
  <2> QED BY <2>3 DEF P
<1>2. ASSUME NEW m \in Nat, NEW n \in Nat, NEW g \in Part(m), NEW h \in Part(n)
      PROVE  \A k \in Nat : k <= m /\ k <= n => g[k] = h[k]
  <2> DEFINE P == {k \in Nat : k <= m /\ k <= n => g[k] = h[k]}
  <2>1. 0 \in P
    OBVIOUS
  <2>2. ASSUME NEW k \in P PROVE k + 1 \in P
    <3>1. CASE k + 1 <= m /\ k + 1 <= n
      <4>1. k \in 0 .. m - 1 /\ k \in 0 .. n - 1
        BY <3>1
      <4>2. g[k + 1] = s[<<k, g[k]>>] /\ h[k + 1] = s[<<k, h[k]>>]
        BY <4>1
      <4>3. g[k] = h[k]
        BY <4>1
      <4> QED BY <4>2, <4>3
    <3>2. CASE ~(k + 1 <= m /\ k + 1 <= n)
      BY <3>2
    <3> QED BY <3>1, <3>2
  <2> HIDE DEF P
  <2>3. P = Nat
    <3>1. P \in SUBSET Nat
      BY DEF P
    <3> QED BY <2>1, <2>2, <3>1, NatSetInduction
  <2> QED BY <2>3 DEF P
<1> DEFINE part(n) == CHOOSE g \in Part(n) : TRUE
           f == [n \in Nat |-> part(n)[n]]
<1>3. \A n \in Nat : part(n) \in Part(n)
  BY <1>1
<1> HIDE DEF part
<1>4. f \in [Nat -> D]
  BY <1>3
<1>5. f[0] = e
  BY <1>3
<1>6. ASSUME NEW n \in Nat PROVE f[n + 1] = s[<<n, f[n]>>]
  <2>1. part(n + 1) \in Part(n + 1) /\ part(n) \in Part(n)
    BY <1>3
  <2>2. n \in 0 .. (n + 1) - 1
    OBVIOUS
  <2>3. part(n + 1)[n + 1] = s[<<n, part(n + 1)[n]>>]
    BY <2>1, <2>2
  <2> HIDE DEF Part
  <2>4. part(n + 1)[n] = part(n)[n]
    BY <2>1, <1>2
  <2> QED BY <2>3, <2>4
<1> HIDE DEF f
<1> QED BY <1>4, <1>5, <1>6 DEF Iterates

-----------------------------------------------------------------------------
(* Sequences without duplicates *)

Injective(s) == \A i, j \in 1 .. Len(s) : s[i] = s[j] => i = j

LEMMA ToSetDef ==
  ASSUME NEW S, NEW s \in Seq(S), NEW e
  PROVE  e \in ToSet(s) <=> \E i \in 1 .. Len(s) : s[i] = e
BY DEF ToSet

(* vector::insert at position k - 1. *)
LEMMA InsertAtFacts ==
  ASSUME NEW S, NEW s \in Seq(S), NEW e \in S, NEW k \in 1 .. Len(s) + 1
  PROVE  /\ InsertAt(s, k, e) \in Seq(S)
         /\ Len(InsertAt(s, k, e)) = Len(s) + 1
         /\ \A i \in 1 .. Len(s) + 1 :
              InsertAt(s, k, e)[i] = IF i < k THEN s[i]
                                     ELSE IF i = k THEN e ELSE s[i - 1]
<1> DEFINE pre == SubSeq(s, 1, k - 1)
           post == SubSeq(s, k, Len(s))
<1>0. Len(s) \in Nat /\ k \in Nat /\ \A i \in 1 .. Len(s) : s[i] \in S
  BY LenProperties, ElementOfSeq
<1>1. /\ pre \in Seq(S) /\ Len(pre) = k - 1
      /\ \A i \in 1 .. k - 1 : pre[i] = s[i]
  <2>1. \A i \in 1 .. k - 1 : s[i] \in S
    BY <1>0
  <2>2. /\ pre \in Seq(S)
        /\ Len(pre) = IF 1 <= k - 1 THEN k - 1 - 1 + 1 ELSE 0
        /\ \A i \in 1 .. k - 1 - 1 + 1 : pre[i] = s[1 + i - 1]
    BY <2>1, <1>0, SubSeqProperties
  <2> QED BY <2>2, <1>0
<1>2. /\ post \in Seq(S) /\ Len(post) = Len(s) - k + 1
      /\ \A i \in 1 .. Len(s) - k + 1 : post[i] = s[k + i - 1]
  <2>1. \A i \in k .. Len(s) : s[i] \in S
    BY <1>0
  <2>2. /\ post \in Seq(S)
        /\ Len(post) = IF k <= Len(s) THEN Len(s) - k + 1 ELSE 0
        /\ \A i \in 1 .. Len(s) - k + 1 : post[i] = s[k + i - 1]
    BY <2>1, <1>0, SubSeqProperties
  <2> QED BY <2>2, <1>0
<1>3. <<e>> \in Seq(S) /\ Len(<<e>>) = 1 /\ <<e>>[1] = e
  OBVIOUS
<1> HIDE DEF pre, post
<1> DEFINE one == <<e>>
<1> HIDE DEF one
<1>4. /\ pre \o one \in Seq(S)
      /\ Len(pre \o one) = k
      /\ \A i \in 1 .. k : (pre \o one)[i] = IF i < k THEN s[i] ELSE e
  <2>1. one \in Seq(S) /\ Len(one) = 1 /\ one[1] = e
    BY <1>3 DEF one
  <2>2. /\ pre \o one \in Seq(S)
        /\ Len(pre \o one) = Len(pre) + Len(one)
        /\ \A i \in 1 .. Len(pre) + Len(one) :
             (pre \o one)[i] = IF i <= Len(pre) THEN pre[i] ELSE one[i - Len(pre)]
    BY <2>1, <1>1, ConcatProperties
  <2> QED BY <2>1, <2>2, <1>1, <1>0
<1> DEFINE head == pre \o one
<1>7. /\ head \in Seq(S) /\ Len(head) = k
      /\ \A i \in 1 .. k : head[i] = IF i < k THEN s[i] ELSE e
  BY <1>4
<1> HIDE DEF head
<1>5. /\ head \o post \in Seq(S)
      /\ Len(head \o post) = Len(head) + Len(post)
      /\ \A i \in 1 .. Len(head) + Len(post) :
           (head \o post)[i] = IF i <= Len(head) THEN head[i] ELSE post[i - Len(head)]
  BY <1>7, <1>2, ConcatProperties
<1>6. InsertAt(s, k, e) = head \o post
  BY Zenon DEF InsertAt, head, pre, post, one
<1> QED BY <1>0, <1>2, <1>5, <1>6, <1>7

(* vector::erase at position k - 1. *)
LEMMA RemoveAtFacts ==
  ASSUME NEW S, NEW s \in Seq(S), NEW k \in 1 .. Len(s)
  PROVE  /\ RemoveAt(s, k) \in Seq(S)
         /\ Len(RemoveAt(s, k)) = Len(s) - 1
         /\ \A i \in 1 .. Len(s) - 1 :
              RemoveAt(s, k)[i] = IF i < k THEN s[i] ELSE s[i + 1]
<1> DEFINE pre == SubSeq(s, 1, k - 1)
           post == SubSeq(s, k + 1, Len(s))
<1>0. Len(s) \in Nat /\ k \in Nat /\ \A i \in 1 .. Len(s) : s[i] \in S
  BY LenProperties, ElementOfSeq
<1>1. /\ pre \in Seq(S) /\ Len(pre) = k - 1
      /\ \A i \in 1 .. k - 1 : pre[i] = s[i]
  <2>1. \A i \in 1 .. k - 1 : s[i] \in S
    BY <1>0
  <2>2. /\ pre \in Seq(S)
        /\ Len(pre) = IF 1 <= k - 1 THEN k - 1 - 1 + 1 ELSE 0
        /\ \A i \in 1 .. k - 1 - 1 + 1 : pre[i] = s[1 + i - 1]
    BY <2>1, <1>0, SubSeqProperties
  <2> QED BY <2>2, <1>0
<1>2. /\ post \in Seq(S) /\ Len(post) = Len(s) - k
      /\ \A i \in 1 .. Len(s) - k : post[i] = s[k + i]
  <2>1. \A i \in k + 1 .. Len(s) : s[i] \in S
    BY <1>0
  <2>2. /\ post \in Seq(S)
        /\ Len(post) = IF k + 1 <= Len(s) THEN Len(s) - (k + 1) + 1 ELSE 0
        /\ \A i \in 1 .. Len(s) - (k + 1) + 1 : post[i] = s[k + 1 + i - 1]
    BY <2>1, <1>0, SubSeqProperties
  <2> QED BY <2>2, <1>0
<1> HIDE DEF pre, post
<1>3. /\ pre \o post \in Seq(S)
      /\ Len(pre \o post) = Len(pre) + Len(post)
      /\ \A i \in 1 .. Len(pre) + Len(post) :
           (pre \o post)[i] = IF i <= Len(pre) THEN pre[i] ELSE post[i - Len(pre)]
  BY <1>1, <1>2, ConcatProperties
<1>4. RemoveAt(s, k) = pre \o post
  BY DEF RemoveAt, pre, post
<1> DEFINE cat == pre \o post
<1>7. /\ cat \in Seq(S)
      /\ Len(cat) = Len(pre) + Len(post)
      /\ \A i \in 1 .. Len(pre) + Len(post) :
           cat[i] = IF i <= Len(pre) THEN pre[i] ELSE post[i - Len(pre)]
  BY <1>3
<1>8. RemoveAt(s, k) = cat
  BY <1>4
<1> HIDE DEF cat
<1>5. Len(cat) = Len(s) - 1
  BY <1>0, <1>1, <1>2, <1>7
<1>6. ASSUME NEW i \in 1 .. Len(s) - 1
      PROVE  cat[i] = IF i < k THEN s[i] ELSE s[i + 1]
  <2>1. cat[i] = IF i <= k - 1 THEN pre[i] ELSE post[i - (k - 1)]
    BY <1>0, <1>1, <1>2, <1>7
  <2>2. CASE i < k
    BY <2>1, <2>2, <1>0, <1>1
  <2>3. CASE i >= k
    <3>1. i - (k - 1) \in 1 .. Len(s) - k /\ k + (i - (k - 1)) = i + 1
      BY <2>3, <1>0
    <3>2. post[i - (k - 1)] = s[i + 1]
      BY <3>1, <1>2
    <3>3. ~(i <= k - 1) /\ ~(i < k)
      BY <2>3, <1>0
    <3> QED BY <2>1, <3>2, <3>3
  <2> QED BY <2>2, <2>3, <1>0
<1> QED BY <1>7, <1>8, <1>5, <1>6

(* Inserting an item that is not there keeps a sequence free of duplicates. *)
LEMMA InsertAtInjective ==
  ASSUME NEW S, NEW s \in Seq(S), NEW e \in S, NEW k \in 1 .. Len(s) + 1,
         Injective(s), e \notin ToSet(s)
  PROVE  /\ InsertAt(s, k, e) \in Seq(S)
         /\ Injective(InsertAt(s, k, e))
         /\ ToSet(InsertAt(s, k, e)) = ToSet(s) \cup {e}
<1>0. /\ InsertAt(s, k, e) \in Seq(S)
      /\ Len(InsertAt(s, k, e)) = Len(s) + 1
      /\ \A i \in 1 .. Len(s) + 1 :
           InsertAt(s, k, e)[i] = IF i < k THEN s[i]
                                  ELSE IF i = k THEN e ELSE s[i - 1]
  BY InsertAtFacts
<1> DEFINE r == InsertAt(s, k, e)
<1>1. /\ r \in Seq(S)
      /\ Len(r) = Len(s) + 1
      /\ \A i \in 1 .. Len(s) + 1 :
           r[i] = IF i < k THEN s[i] ELSE IF i = k THEN e ELSE s[i - 1]
  BY <1>0
<1> HIDE DEF r
<1>2. Len(s) \in Nat
  BY LenProperties
<1>3. \A i \in 1 .. Len(s) : s[i] # e
  BY ToSetDef
<1>4. Injective(r)
  <2> SUFFICES ASSUME NEW i \in 1 .. Len(s) + 1, NEW j \in 1 .. Len(s) + 1, r[i] = r[j]
               PROVE  i = j
    BY <1>1 DEF Injective
  <2> DEFINE old(n) == IF n < k THEN n ELSE n - 1
  <2>1. \A n \in 1 .. Len(s) + 1 : n # k => old(n) \in 1 .. Len(s) /\ r[n] = s[old(n)]
    BY <1>1, <1>2
  <2>2. r[k] = e
    BY <1>1
  <2>3. CASE i = k \/ j = k
    BY <2>1, <2>2, <2>3, <1>3
  <2>4. CASE i # k /\ j # k
    <3>1. old(i) = old(j)
      BY <2>1, <2>4 DEF Injective
    <3> QED BY <3>1, <2>4, <1>2
  <2> QED BY <2>3, <2>4
<1>5. \A x : x \in ToSet(r) <=> x \in ToSet(s) \cup {e}
  <2> TAKE x
  <2>1. ASSUME NEW i \in 1 .. Len(s) + 1, r[i] = x
        PROVE  x = e \/ \E j \in 1 .. Len(s) : s[j] = x
    <3>1. i # k => (IF i < k THEN i ELSE i - 1) \in 1 .. Len(s)
      BY <1>2
    <3> QED BY <1>1, <2>1, <3>1
  <2>2. r[k] = e
    BY <1>1
  <2>3. ASSUME NEW j \in 1 .. Len(s), s[j] = x
        PROVE  \E i \in 1 .. Len(s) + 1 : r[i] = x
    <3>1. CASE j < k
      <4>1. j \in 1 .. Len(s) + 1 /\ r[j] = s[j]
        BY <3>1, <1>1, <1>2
      <4> QED BY <4>1, <2>3
    <3>2. CASE j >= k
      <4>1. j + 1 \in 1 .. Len(s) + 1 /\ r[j + 1] = s[j]
        BY <3>2, <1>1, <1>2
      <4> QED BY <4>1, <2>3
    <3> QED BY <3>1, <3>2
  <2>4. x \in ToSet(r) <=> \E i \in 1 .. Len(s) + 1 : r[i] = x
    BY <1>1, ToSetDef
  <2>5. x \in ToSet(s) <=> \E j \in 1 .. Len(s) : s[j] = x
    BY ToSetDef
  <2> QED BY <2>1, <2>2, <2>3, <2>4, <2>5
<1> QED BY <1>1, <1>4, <1>5 DEF r

(* Erasing an item erases it and nothing else. *)
LEMMA RemoveFirstInjective ==
  ASSUME NEW S, NEW s \in Seq(S), NEW e, Injective(s)
  PROVE  /\ RemoveFirst(s, e) \in Seq(S)
         /\ Injective(RemoveFirst(s, e))
         /\ ToSet(RemoveFirst(s, e)) = ToSet(s) \ {e}
<1>1. CASE ~ \E i \in 1 .. Len(s) : s[i] = e
  <2>1. RemoveFirst(s, e) = s
    BY <1>1 DEF RemoveFirst
  <2>2. e \notin ToSet(s)
    BY <1>1, ToSetDef
  <2> QED BY <2>1, <2>2
<1>2. CASE \E i \in 1 .. Len(s) : s[i] = e
  <2>1. PICK k \in 1 .. Len(s) : s[k] = e
    BY <1>2
  <2>2. RemoveFirst(s, e) = RemoveAt(s, k)
    <3>1. {i \in 1 .. Len(s) : s[i] = e} = {k}
      BY <2>1 DEF Injective
    <3>2. Min({k}) = k
      BY LenProperties DEF Min
    <3>3. SelectInSeq(s, LAMBDA v : v = e) = k
      BY <3>1, <3>2 DEF SelectInSeq
    <3> QED BY <3>3, <1>2 DEF RemoveFirst
  <2> DEFINE r == RemoveAt(s, k)
  <2>3. /\ r \in Seq(S)
        /\ Len(r) = Len(s) - 1
        /\ \A i \in 1 .. Len(s) - 1 : r[i] = IF i < k THEN s[i] ELSE s[i + 1]
    BY RemoveAtFacts
  <2> HIDE DEF r
  <2>4. Len(s) \in Nat
    BY LenProperties
  <2> DEFINE old(n) == IF n < k THEN n ELSE n + 1
  <2>5. \A n \in 1 .. Len(s) - 1 :
          old(n) \in 1 .. Len(s) /\ old(n) # k /\ r[n] = s[old(n)]
    BY <2>3, <2>4
  <2>6. Injective(r)
    <3> SUFFICES ASSUME NEW i \in 1 .. Len(s) - 1, NEW j \in 1 .. Len(s) - 1, r[i] = r[j]
                 PROVE  i = j
      BY <2>3 DEF Injective
    <3>1. old(i) = old(j)
      BY <2>5 DEF Injective
    <3> QED BY <3>1, <2>4
  <2>7. \A x : x \in ToSet(r) <=> x \in ToSet(s) \ {e}
    <3> TAKE x
    <3>1. x \in ToSet(r) <=> \E i \in 1 .. Len(s) - 1 : r[i] = x
      BY <2>3, ToSetDef
    <3>2. x \in ToSet(s) <=> \E j \in 1 .. Len(s) : s[j] = x
      BY ToSetDef
    <3>3. ASSUME NEW i \in 1 .. Len(s) - 1, r[i] = x
          PROVE  x # e /\ \E j \in 1 .. Len(s) : s[j] = x
      BY <3>3, <2>5, <2>1 DEF Injective
    <3>4. ASSUME NEW j \in 1 .. Len(s), s[j] = x, x # e
          PROVE  \E i \in 1 .. Len(s) - 1 : r[i] = x
      <4>1. CASE j < k
        <5>1. j \in 1 .. Len(s) - 1 /\ r[j] = s[j]
          BY <4>1, <2>3, <2>4
        <5> QED BY <5>1, <3>4
      <4>2. CASE j > k
        <5>1. j - 1 \in 1 .. Len(s) - 1 /\ r[j - 1] = s[j]
          BY <4>2, <2>3, <2>4
        <5> QED BY <5>1, <3>4
      <4>3. j # k
        BY <3>4, <2>1
      <4> QED BY <4>1, <4>2, <4>3
    <3> QED BY <3>1, <3>2, <3>3, <3>4
  <2> QED BY <2>2, <2>3, <2>6, <2>7 DEF r
<1> QED BY <1>1, <1>2

(* Appending a disjoint sequence, as remove() does with the children of the  *)
(* removed item, last one first.                                            *)
LEMMA ConcatReverseInjective ==
  ASSUME NEW S, NEW s \in Seq(S), NEW u \in Seq(S),
         Injective(s), Injective(u), ToSet(s) \cap ToSet(u) = {}
  PROVE  /\ s \o Reverse(u) \in Seq(S)
         /\ Injective(s \o Reverse(u))
         /\ ToSet(s \o Reverse(u)) = ToSet(s) \cup ToSet(u)
<1> DEFINE v == Reverse(u)
<1>1. Len(s) \in Nat /\ Len(u) \in Nat /\ \A i \in 1 .. Len(u) : u[i] \in S
  BY LenProperties, ElementOfSeq
<1>2. v = [i \in 1 .. Len(u) |-> u[(Len(u) - i) + 1]]
  BY DEF Reverse
<1>3. /\ v \in Seq(S)
      /\ Len(v) = Len(u)
      /\ \A i \in 1 .. Len(u) : v[i] = u[(Len(u) - i) + 1]
  <2>1. \A i \in 1 .. Len(u) : (Len(u) - i) + 1 \in 1 .. Len(u)
    BY <1>1
  <2>2. v \in [1 .. Len(u) -> S]
    BY <1>1, <1>2, <2>1
  <2> QED BY <1>1, <1>2, <2>2, SeqDef
<1> HIDE DEF v
<1>4. Injective(v)
  <2> SUFFICES ASSUME NEW i \in 1 .. Len(u), NEW j \in 1 .. Len(u), v[i] = v[j]
               PROVE  i = j
    BY <1>3 DEF Injective
  <2>1. (Len(u) - i) + 1 \in 1 .. Len(u) /\ (Len(u) - j) + 1 \in 1 .. Len(u)
    BY <1>1
  <2>2. (Len(u) - i) + 1 = (Len(u) - j) + 1
    BY <1>3, <2>1 DEF Injective
  <2> QED BY <2>2, <1>1
<1>5. \A x : x \in ToSet(v) <=> x \in ToSet(u)
  <2> TAKE x
  <2>1. \A i \in 1 .. Len(u) :
           (Len(u) - i) + 1 \in 1 .. Len(u) /\ (Len(u) - ((Len(u) - i) + 1)) + 1 = i
    BY <1>1
  <2>2. \A i \in 1 .. Len(u) : v[(Len(u) - i) + 1] = u[i]
    BY <2>1, <1>3
  <2>3. x \in ToSet(v) <=> \E i \in 1 .. Len(u) : v[i] = x
    BY <1>3, ToSetDef
  <2>4. x \in ToSet(u) <=> \E i \in 1 .. Len(u) : u[i] = x
    BY ToSetDef
  <2> QED BY <1>3, <2>1, <2>2, <2>3, <2>4
<1>6. /\ s \o v \in Seq(S)
      /\ Len(s \o v) = Len(s) + Len(v)
      /\ \A i \in 1 .. Len(s) + Len(v) :
           (s \o v)[i] = IF i <= Len(s) THEN s[i] ELSE v[i - Len(s)]
  BY <1>3, ConcatProperties
<1> DEFINE r == s \o v
<1>7. /\ r \in Seq(S)
      /\ Len(r) = Len(s) + Len(v)
      /\ \A i \in 1 .. Len(s) + Len(v) :
           r[i] = IF i <= Len(s) THEN s[i] ELSE v[i - Len(s)]
  BY <1>6
<1> HIDE DEF r
<1>8. \A i \in 1 .. Len(s) + Len(v) :
        \/ i \in 1 .. Len(s) /\ r[i] = s[i] /\ r[i] \in ToSet(s)
        \/ /\ i > Len(s) /\ i - Len(s) \in 1 .. Len(v)
           /\ r[i] = v[i - Len(s)] /\ r[i] \in ToSet(u)
  <2> TAKE i \in 1 .. Len(s) + Len(v)
  <2>1. CASE i <= Len(s)
    BY <2>1, <1>1, <1>7, ToSetDef
  <2>2. CASE i > Len(s)
    <3>1. i - Len(s) \in 1 .. Len(v) /\ ~(i <= Len(s))
      BY <2>2, <1>1, <1>3
    <3>2. r[i] = v[i - Len(s)]
      BY <3>1, <1>7
    <3>3. r[i] \in ToSet(u)
      BY <3>1, <3>2, <1>3, <1>5, ToSetDef
    <3> QED BY <2>2, <3>1, <3>2, <3>3
  <2> QED BY <2>1, <2>2, <1>1, <1>3
<1>9. Injective(r)
  <2> SUFFICES ASSUME NEW i \in 1 .. Len(s) + Len(v), NEW j \in 1 .. Len(s) + Len(v),
                      r[i] = r[j]
               PROVE  i = j
    BY <1>7 DEF Injective
  <2>1. CASE i \in 1 .. Len(s) /\ j \in 1 .. Len(s)
    BY <2>1, <1>7 DEF Injective
  <2>2. CASE i > Len(s) /\ j > Len(s)
    <3>1. i - Len(s) = j - Len(s)
      BY <2>2, <1>1, <1>8, <1>4 DEF Injective
    <3> QED BY <3>1, <1>1, <1>3
  <2>3. CASE ~(i > Len(s) <=> j > Len(s))
    BY <2>3, <1>8, <1>1, <1>3
  <2> QED BY <2>1, <2>2, <2>3, <1>1, <1>3
<1>10. \A x : x \in ToSet(r) <=> x \in ToSet(s) \cup ToSet(u)
  <2> TAKE x
  <2>0. r \in Seq(S) /\ Len(r) = Len(s) + Len(v)
    BY <1>7
  <2>4. x \in ToSet(r) <=> \E i \in 1 .. Len(r) : r[i] = x
    BY <2>0, ToSetDef
  <2>1. x \in ToSet(r) <=> \E i \in 1 .. Len(s) + Len(v) : r[i] = x
    BY <2>0, <2>4
  <2>2. ASSUME x \in ToSet(s)
        PROVE  x \in ToSet(r)
    <3>1. PICK i \in 1 .. Len(s) : s[i] = x
      BY <2>2, ToSetDef
    <3>2. i \in 1 .. Len(s) + Len(v) /\ r[i] = s[i]
      BY <3>1, <1>1, <1>3, <1>7
    <3> QED BY <3>1, <3>2, <2>1
  <2>3. ASSUME x \in ToSet(u)
        PROVE  x \in ToSet(r)
    <3>1. PICK i \in 1 .. Len(v) : v[i] = x
      BY <2>3, <1>3, <1>5, ToSetDef
    <3>2. /\ Len(s) + i \in 1 .. Len(s) + Len(v)
          /\ ~(Len(s) + i <= Len(s)) /\ (Len(s) + i) - Len(s) = i
      BY <1>1, <1>3
    <3>3. r[Len(s) + i] = v[i]
      BY <3>2, <1>7
    <3> QED BY <3>1, <3>2, <3>3, <2>1
  <2> QED BY <2>1, <2>2, <2>3, <1>8
<1> QED BY <1>7, <1>9, <1>10 DEF r, v

(* What is true of neighbours is true of all, for an order. *)
LEMMA SortedMonotone ==
  ASSUME NEW n \in Nat, NEW f, \A i \in 1 .. n : f[i] \in Int,
         \A i \in 1 .. n - 1 : f[i] <= f[i + 1]
  PROVE  \A i, j \in 1 .. n : i <= j => f[i] <= f[j]
<1> SUFFICES ASSUME NEW i \in 1 .. n PROVE \A j \in 1 .. n : i <= j => f[i] <= f[j]
  OBVIOUS
<1> DEFINE P == {k \in Nat : i + k \in 1 .. n => f[i] <= f[i + k]}
<1>1. 0 \in P
  OBVIOUS
<1>2. ASSUME NEW k \in P PROVE k + 1 \in P
  <2>1. SUFFICES ASSUME i + (k + 1) \in 1 .. n PROVE f[i] <= f[i + (k + 1)]
    OBVIOUS
  <2>2. i + k \in 1 .. n - 1 /\ (i + k) + 1 = i + (k + 1) /\ i + k \in 1 .. n
    BY <2>1
  <2>3. f[i] <= f[i + k] /\ f[i + k] <= f[i + (k + 1)]
    BY <2>2
  <2>4. f[i] \in Int /\ f[i + k] \in Int /\ f[i + (k + 1)] \in Int
    BY <2>1, <2>2
  <2> QED BY <2>3, <2>4
<1>3. P \in SUBSET Nat
  OBVIOUS
<1> HIDE DEF P
<1>4. P = Nat
  BY <1>1, <1>2, <1>3, NatSetInduction
<1>5. \A j \in 1 .. n : i <= j => j - i \in P /\ i + (j - i) = j
  BY <1>4
<1> QED BY <1>5 DEF P

(* A sequence of a finite set holds each of its elements once. *)
LEMMA SetToSeqsFacts ==
  ASSUME NEW S, IsFiniteSet(S), NEW s \in SetToSeqs(S)
  PROVE  s \in Seq(S) /\ Injective(s) /\ ToSet(s) = S /\ Len(s) = Cardinality(S)
<1> DEFINE D == 1 .. Cardinality(S)
<1>1. Cardinality(S) \in Nat
  BY FS_CardinalityType
<1>2. s \in [D -> S] /\ (\A i, j \in D : i # j => s[i] # s[j])
  BY DEF SetToSeqs
<1>3. s \in Injection(D, S)
  BY <1>2 DEF Injection, IsInjective
<1>4. Cardinality(D) = Cardinality(S)
  BY <1>1, FS_Interval
<1>5. s \in Surjection(D, S)
  BY <1>3, <1>4, FS_Injection
<1>6. s \in Seq(S) /\ Len(s) = Cardinality(S)
  BY <1>1, <1>2, SeqDef
<1>7. ToSet(s) = S
  BY <1>2, <1>5 DEF Surjection, ToSet
<1>8. Injective(s)
  BY <1>2, <1>6 DEF Injective
<1> QED BY <1>6, <1>7, <1>8

(* A sequence without duplicates is as long as its set is large. *)
LEMMA InjectiveLen ==
  ASSUME NEW S, NEW s \in Seq(S), Injective(s)
  PROVE  IsFiniteSet(ToSet(s)) /\ Cardinality(ToSet(s)) = Len(s)
<1> DEFINE D == 1 .. Len(s)
<1>1. Len(s) \in Nat /\ DOMAIN s = D /\ s \in [D -> S]
  BY LenProperties
<1>2. s \in Bijection(D, ToSet(s))
  <2>1. ToSet(s) = {s[i] : i \in D}
    BY <1>1 DEF ToSet
  <2> QED BY <1>1, <2>1 DEF Bijection, Injection, Surjection, IsInjective, Injective
<1>3. IsFiniteSet(D) /\ Cardinality(D) = Len(s)
  BY <1>1, FS_Interval
<1>4. ExistsBijection(D, ToSet(s))
  BY <1>2 DEF ExistsBijection
<1> HIDE DEF D
<1> QED BY <1>3, <1>4, FS_Bijection

(* Without duplicates and within a set of that size: an enumeration of it. *)
LEMMA IsEnumeration ==
  ASSUME NEW S, IsFiniteSet(S), NEW s \in Seq(S), Injective(s), Len(s) >= Cardinality(S)
  PROVE  s \in SetToSeqs(S) /\ ToSet(s) = S
<1>1. ToSet(s) \in SUBSET S
  BY ElementOfSeq, LenProperties DEF ToSet
<1>2. IsFiniteSet(ToSet(s)) /\ Cardinality(ToSet(s)) = Len(s)
  BY InjectiveLen
<1>3. Cardinality(S) \in Nat /\ Len(s) \in Nat
  BY FS_CardinalityType, LenProperties
<1>4. Cardinality(ToSet(s)) <= Cardinality(S) /\ (Cardinality(S) = Cardinality(ToSet(s)) => S = ToSet(s))
  BY <1>1, FS_Subset
<1>5. Cardinality(S) = Len(s) /\ ToSet(s) = S
  BY <1>2, <1>3, <1>4
<1>6. s \in [1 .. Cardinality(S) -> S] /\ \A i, j \in 1 .. Cardinality(S) : i # j => s[i] # s[j]
  BY <1>5, LenProperties DEF Injective
<1> QED BY <1>5, <1>6 DEF SetToSeqs

(* Appending a new element. *)
LEMMA AppendNew ==
  ASSUME NEW S, NEW s \in Seq(S), NEW e \in S, Injective(s), e \notin ToSet(s)
  PROVE  /\ Append(s, e) \in Seq(S) /\ Injective(Append(s, e))
         /\ ToSet(Append(s, e)) = ToSet(s) \cup {e}
<1> DEFINE u == Append(s, e)
<1>1. /\ u \in Seq(S) /\ Len(u) = Len(s) + 1 /\ u[Len(s) + 1] = e
      /\ \A i \in 1 .. Len(s) : u[i] = s[i]
  BY AppendProperties
<1>0. u = Append(s, e)
  OBVIOUS
<1> HIDE DEF u
<1>2. Len(s) \in Nat /\ DOMAIN s = 1 .. Len(s) /\ DOMAIN u = 1 .. Len(u)
  BY <1>1, LenProperties
<1>3. \A i \in 1 .. Len(u) : i \in 1 .. Len(s) \/ i = Len(s) + 1
  BY <1>1, <1>2
<1>4. \A i \in 1 .. Len(s) : s[i] # e /\ i \in 1 .. Len(u)
  BY <1>1, <1>2 DEF ToSet
<1>5. Injective(u)
  BY <1>1, <1>3, <1>4 DEF Injective
<1>6. ToSet(u) = ToSet(s) \cup {e}
  <2>1. Len(s) + 1 \in 1 .. Len(u)
    BY <1>1, <1>2
  <2> QED BY <1>1, <1>2, <1>3, <1>4, <2>1 DEF ToSet
<1> QED BY <1>0, <1>1, <1>5, <1>6, Zenon

-----------------------------------------------------------------------------
(* What undo takes back *)

(* The one place of an item in a vector. *)
LEMMA SelectsPlace ==
  ASSUME NEW S, NEW s \in Seq(S), Injective(s), NEW k \in 1 .. Len(s)
  PROVE  RemoveFirst(s, s[k]) = RemoveAt(s, k)
<1> DEFINE e == s[k]
<1>1. {i \in 1 .. Len(s) : s[i] = e} = {k}
  BY DEF Injective
<1>2. Min({k}) = k
  BY LenProperties DEF Min
<1>3. SelectInSeq(s, LAMBDA v : v = e) = k
  BY <1>1, <1>2 DEF SelectInSeq
<1>4. RemoveFirst(s, e) = RemoveAt(s, k)
  BY <1>3 DEF RemoveFirst
<1> QED BY <1>4

(* What was inserted is erased, and what was erased is inserted again. *)
LEMMA InsertThenErase ==
  ASSUME NEW S, NEW s \in Seq(S), NEW e \in S, NEW k \in 1 .. Len(s) + 1,
         Injective(s), e \notin ToSet(s)
  PROVE  /\ RemoveFirst(InsertAt(s, k, e), e) = s
         /\ RemoveAt(InsertAt(s, k, e), k) = s
<1>0. /\ InsertAt(s, k, e) \in Seq(S)
      /\ Len(InsertAt(s, k, e)) = Len(s) + 1
      /\ \A i \in 1 .. Len(s) + 1 :
           InsertAt(s, k, e)[i] = IF i < k THEN s[i] ELSE IF i = k THEN e ELSE s[i - 1]
  BY InsertAtFacts
<1> DEFINE r == InsertAt(s, k, e)
<1>1. /\ r \in Seq(S) /\ Len(r) = Len(s) + 1
      /\ \A i \in 1 .. Len(s) + 1 : r[i] = IF i < k THEN s[i] ELSE IF i = k THEN e ELSE s[i - 1]
  BY <1>0
<1>2. Injective(r)
  BY InsertAtInjective
<1> HIDE DEF r
<1>3. Len(s) \in Nat
  BY LenProperties
<1>4. k \in 1 .. Len(r) /\ r[k] = e
  BY <1>1, <1>3
<1>5. RemoveFirst(r, e) = RemoveAt(r, k)
  BY <1>1, <1>2, <1>4, SelectsPlace
<1> DEFINE q == RemoveAt(r, k)
<1>6. /\ q \in Seq(S) /\ Len(q) = Len(r) - 1
      /\ \A i \in 1 .. Len(r) - 1 : q[i] = IF i < k THEN r[i] ELSE r[i + 1]
  BY <1>1, <1>4, RemoveAtFacts
<1> HIDE DEF q
<1>7. Len(q) = Len(s) /\ \A i \in 1 .. Len(q) : q[i] = s[i]
  <2>1. Len(q) = Len(s) /\ Len(r) = Len(s) + 1
    BY <1>1, <1>3, <1>6
  <2> SUFFICES ASSUME NEW i \in 1 .. Len(s) PROVE q[i] = s[i]
    BY <2>1
  <2>2. q[i] = IF i < k THEN r[i] ELSE r[i + 1]
    BY <1>3, <1>6, <2>1
  <2>3. CASE i < k
    BY <1>1, <1>3, <2>2, <2>3
  <2>4. CASE ~(i < k)
    <3>1. i + 1 \in 1 .. Len(s) + 1 /\ ~(i + 1 < k) /\ i + 1 # k /\ (i + 1) - 1 = i
      BY <1>3, <2>4
    <3>2. r[i + 1] = s[(i + 1) - 1]
      BY <1>1, <3>1
    <3> QED BY <2>2, <2>4, <3>1, <3>2
  <2> QED BY <2>3, <2>4
<1>8. q = s
  BY <1>6, <1>7, SeqEqual
<1> QED BY <1>5, <1>8 DEF q, r

(* Erasing the element at a place and inserting it there again. *)
LEMMA EraseThenInsert ==
  ASSUME NEW S, NEW s \in Seq(S), Injective(s), NEW k \in 1 .. Len(s), NEW e, s[k] = e
  PROVE  /\ InsertAt(RemoveFirst(s, e), k, e) = s
         /\ InsertAt(RemoveAt(s, k), k, e) = s
         /\ Len(RemoveFirst(s, e)) = Len(s) - 1
<1> DEFINE r == RemoveAt(s, k)
<1>1. /\ r \in Seq(S) /\ Len(r) = Len(s) - 1
      /\ \A i \in 1 .. Len(s) - 1 : r[i] = IF i < k THEN s[i] ELSE s[i + 1]
  BY RemoveAtFacts
<1>2. RemoveFirst(s, e) = r
  BY SelectsPlace
<1> HIDE DEF r
<1>3. Len(s) \in Nat
  BY LenProperties
<1>4. e \in S /\ k \in 1 .. Len(r) + 1
  BY <1>1, <1>3, ElementOfSeq
<1> DEFINE q == InsertAt(r, k, e)
<1>9. /\ InsertAt(r, k, e) \in Seq(S)
      /\ Len(InsertAt(r, k, e)) = Len(r) + 1
      /\ \A i \in 1 .. Len(r) + 1 :
           InsertAt(r, k, e)[i] = IF i < k THEN r[i] ELSE IF i = k THEN e ELSE r[i - 1]
  BY <1>1, <1>4, InsertAtFacts
<1>5. /\ q \in Seq(S) /\ Len(q) = Len(r) + 1
      /\ \A i \in 1 .. Len(r) + 1 : q[i] = IF i < k THEN r[i] ELSE IF i = k THEN e ELSE r[i - 1]
  BY <1>9
<1> HIDE DEF q
<1>10. Len(r) + 1 = Len(s) /\ Len(q) = Len(s) /\ k \in Nat
  BY <1>1, <1>3, <1>5
<1>6. ASSUME NEW i \in 1 .. Len(q) PROVE q[i] = s[i]
  <2>1. i \in 1 .. Len(r) + 1 /\ i \in 1 .. Len(s) /\ i \in Nat
    BY <1>3, <1>10
  <2>2. CASE i < k
    BY <1>1, <1>3, <1>5, <1>10, <2>1, <2>2
  <2>3. CASE i = k
    BY <1>5, <2>1, <2>3
  <2>4. CASE i > k
    <3>1. q[i] = r[i - 1]
      BY <1>5, <1>10, <2>1, <2>4
    <3>2. i - 1 \in 1 .. Len(s) - 1 /\ ~(i - 1 < k) /\ (i - 1) + 1 = i
      BY <1>3, <1>10, <2>1, <2>4
    <3> QED BY <1>1, <3>1, <3>2
  <2> QED BY <1>10, <2>1, <2>2, <2>3, <2>4
<1>7. q = s
  BY <1>5, <1>6, <1>10, SeqEqual
<1> QED BY <1>1, <1>2, <1>7 DEF q, r

(* Prefixes of a sequence, from the empty one to the whole, element by      *)
(* element.                                                                 *)
LEMMA PrefixFacts ==
  ASSUME NEW X, NEW s \in Seq(X)
  PROVE  /\ SubSeq(s, 1, 0) = << >>
         /\ SubSeq(s, 1, Len(s)) = s
         /\ \A k \in 1 .. Len(s) : Append(SubSeq(s, 1, k - 1), s[k]) = SubSeq(s, 1, k)
OBVIOUS

(* Reversing a sequence, and reversing it back. *)
LEMMA ReverseFacts ==
  ASSUME NEW X, NEW s \in Seq(X)
  PROVE  /\ Reverse(s) \in Seq(X) /\ Len(Reverse(s)) = Len(s)
         /\ \A k \in 1 .. Len(s) : Reverse(s)[k] = s[Len(s) - k + 1]
         /\ Reverse(Reverse(s)) = s
BY DEF Reverse

(* A vector that holds nothing is empty. *)
LEMMA NothingListed ==
  ASSUME NEW X, NEW s \in Seq(X), ToSet(s) = {}
  PROVE  s = << >>
<1>1. Len(s) \in Nat
  OBVIOUS
<1>2. Len(s) = 0
  <2> SUFFICES ASSUME Len(s) # 0 PROVE FALSE
    OBVIOUS
  <2>1. 1 \in 1 .. Len(s)
    BY <1>1
  <2>2. s[1] \in ToSet(s)
    BY <2>1, ToSetDef
  <2> QED BY <2>2
<1> QED BY <1>2

(* Sequences are joined one after the other. *)
Joins(f, ss) ==
  /\ f[1] = ss[1]
  /\ \A k \in Nat : k + 2 <= Len(ss) => f[k + 2] = f[k + 1] \o ss[k + 2]

LEMMA FlattenRun ==
  ASSUME NEW X, NEW ss \in Seq(Seq(X)), Len(ss) # 0
  PROVE  \E f \in [1 .. Len(ss) -> Seq(X)] : Joins(f, ss) /\ FlattenSeq(ss) = f[Len(ss)]
<1>1. PICK n \in Nat : n = Len(ss) /\ n # 0
  BY LenProperties
<1>18. n \in Nat /\ n # 0
  BY <1>1
<1>2. \A i \in 1 .. n : ss[i] \in Seq(X)
  BY <1>1
<1> DEFINE D == Seq(X)
           Part(k) == IF k + 2 <= n THEN ss[k + 2] ELSE << >>
           s == [p \in Nat \X D |-> p[2] \o Part(p[1])]
           Body(g, i) == IF i = 1 THEN ss[i] ELSE g[i - 1] \o ss[i]
           flatten == CHOOSE g : g = [i \in 1 .. n |-> Body(g, i)]
<1>3. ASSUME NEW p \in Nat \X D PROVE p[2] \o Part(p[1]) \in D
  <2>1. p[1] \in Nat /\ p[2] \in Seq(X)
    OBVIOUS
  <2>2. Part(p[1]) \in Seq(X)
    BY <1>2, <2>1
  <2> HIDE DEF Part
  <2> QED BY <2>1, <2>2
<1>4. s \in [Nat \X D -> D] /\ \A k \in Nat, v \in D : s[<<k, v>>] = v \o Part(k)
  BY <1>3
<1>5. ss[1] \in D
  BY <1>1, <1>2
<1> HIDE DEF s, D
<1>6. PICK f : Iterates(f, D, ss[1], s)
  BY <1>4, <1>5, NatRecursion
<1>7. /\ f \in [Nat -> D] /\ f[0] = ss[1]
      /\ \A k \in Nat : f[k + 1] = f[k] \o Part(k)
  BY <1>4, <1>6 DEF Iterates
<1> DEFINE V == [i \in 1 .. n |-> f[i - 1]]
<1>8. V = [i \in 1 .. n |-> Body(V, i)]
  <2> SUFFICES ASSUME NEW i \in 1 .. n PROVE f[i - 1] = Body(V, i)
    BY Zenon
  <2>1. CASE i = 1
    BY <1>7, <2>1
  <2>2. CASE i # 1
    <3>1. PICK k \in Nat : k = i - 2
      BY <2>2
    <3>2. k + 1 = i - 1 /\ k + 2 = i /\ i - 1 \in 1 .. n /\ (i - 1) - 1 = k
      BY <3>1
    <3>5. k + 2 <= n
      BY <3>2
    <3>6. Part(k) = ss[i]
      BY <3>2, <3>5
    <3> HIDE DEF Part
    <3>7. f[k + 1] = f[k] \o Part(k)
      BY <1>7
    <3>3. f[i - 1] = f[k] \o ss[i]
      BY <3>2, <3>6, <3>7
    <3>4. V[i - 1] = f[k]
      BY <3>2
    <3> HIDE DEF V
    <3> QED BY <2>2, <3>3, <3>4
  <2> QED BY <2>1, <2>2
<1>9. flatten = [i \in 1 .. n |-> Body(flatten, i)]
  <2> HIDE DEF V, Body
  <2> QED BY <1>8, Zenon
<1>10. FlattenSeq(ss) = flatten[n]
  BY <1>1 DEF FlattenSeq
<1> HIDE DEF flatten
<1>11. ASSUME NEW i \in 1 .. n PROVE flatten[i] = Body(flatten, i)
  <2> HIDE DEF Body
  <2> QED BY <1>9, Zenon
<1>12. Joins(flatten, ss)
  <2>1. flatten[1] = ss[1]
    BY <1>11, <1>18
  <2>2. ASSUME NEW k \in Nat, k + 2 <= n PROVE flatten[k + 2] = flatten[k + 1] \o ss[k + 2]
    <3>1. PICK i \in 1 .. n : i = k + 2
      BY <2>2
    <3>2. i # 1 /\ i - 1 = k + 1
      BY <3>1
    <3>3. flatten[i] = flatten[i - 1] \o ss[i]
      BY <1>11, <3>2
    <3> QED BY <3>1, <3>2, <3>3
  <2> QED BY <1>1, <2>1, <2>2 DEF Joins
<1> DEFINE P == {k \in Nat : k + 1 <= n => flatten[k + 1] \in Seq(X)}
<1>13. 0 \in P
  BY <1>1, <1>2, <1>11
<1>14. ASSUME NEW k \in P PROVE k + 1 \in P
  <2>1. k \in Nat /\ (k + 1 <= n => flatten[k + 1] \in Seq(X))
    OBVIOUS
  <2>2. ASSUME k + 2 <= n PROVE flatten[k + 2] \in Seq(X)
    <3>1. flatten[k + 2] = flatten[k + 1] \o ss[k + 2]
      BY <1>1, <1>12, <2>1, <2>2 DEF Joins
    <3>2. flatten[k + 1] \in Seq(X) /\ ss[k + 2] \in Seq(X)
      BY <1>2, <2>1, <2>2
    <3> QED BY <3>1, <3>2
  <2> QED BY <2>1, <2>2
<1>15. P \in SUBSET Nat
  OBVIOUS
<1> HIDE DEF P
<1>16. P = Nat
  BY <1>13, <1>14, <1>15, NatSetInduction
<1>17. ASSUME NEW i \in 1 .. n PROVE flatten[i] \in Seq(X)
  <2>1. i - 1 \in Nat /\ (i - 1) + 1 = i /\ i <= n
    OBVIOUS
  <2>2. i - 1 \in P
    BY <1>16, <2>1
  <2>3. (i - 1) + 1 <= n => flatten[(i - 1) + 1] \in Seq(X)
    BY <2>2 DEF P
  <2> QED BY <2>1, <2>3
<1>19. flatten \in [1 .. n -> Seq(X)]
  <2> HIDE DEF Body
  <2> QED BY <1>9, <1>17, Zenon
<1> QED BY <1>1, <1>10, <1>12, <1>19

(* Joining sequences over X gives a sequence over X. *)
LEMMA FlattenSeqType ==
  ASSUME NEW X, NEW ss \in Seq(Seq(X))
  PROVE  FlattenSeq(ss) \in Seq(X)
<1>1. CASE Len(ss) = 0
  <2>1. ss = << >> /\ << >> \in Seq(X)
    BY <1>1
  <2> QED BY <1>1, <2>1 DEF FlattenSeq
<1>2. CASE Len(ss) # 0
  <2>1. PICK f \in [1 .. Len(ss) -> Seq(X)] : FlattenSeq(ss) = f[Len(ss)]
    BY <1>2, FlattenRun
  <2>2. Len(ss) \in 1 .. Len(ss)
    BY <1>2, LenProperties
  <2> QED BY <2>1, <2>2
<1> QED BY <1>1, <1>2

(* Nothing is joined to nothing, and the last sequence comes last. *)
LEMMA FlattenNothing == FlattenSeq(<< >>) = << >>
BY DEF FlattenSeq

LEMMA FlattenStep ==
  ASSUME NEW X, NEW ss \in Seq(Seq(X)), NEW e \in Seq(X)
  PROVE  FlattenSeq(Append(ss, e)) = FlattenSeq(ss) \o e
<1> DEFINE tt == Append(ss, e)
<1>1. PICK n \in Nat : n = Len(ss)
  BY LenProperties
<1>2. /\ tt \in Seq(Seq(X)) /\ Len(tt) = n + 1 /\ tt[n + 1] = e
      /\ \A i \in 1 .. n : tt[i] = ss[i]
  BY <1>1, AppendProperties
<1>0. tt = Append(ss, e)
  OBVIOUS
<1> HIDE DEF tt
<1>3. PICK g \in [1 .. n + 1 -> Seq(X)] : Joins(g, tt) /\ FlattenSeq(tt) = g[n + 1]
  <2>1. \E g \in [1 .. Len(tt) -> Seq(X)] : Joins(g, tt) /\ FlattenSeq(tt) = g[Len(tt)]
    BY <1>1, <1>2, FlattenRun
  <2> QED BY <1>2, <2>1
<1>4. CASE n = 0
  <2>1. ss = << >> /\ FlattenSeq(ss) = << >>
    <3>1. ss = << >>
      BY <1>1, <1>4, EmptySeq
    <3> QED BY <3>1, FlattenNothing, Zenon
  <2>2. g[1] = e
    BY <1>2, <1>3, <1>4 DEF Joins
  <2>3. FlattenSeq(tt) = e
    BY <1>3, <1>4, <2>2
  <2>4. << >> \o e = e
    BY ConcatEmptySeq
  <2> QED BY <1>0, <2>1, <2>3, <2>4
<1>5. CASE n # 0
  <2>1. PICK f \in [1 .. n -> Seq(X)] : Joins(f, ss) /\ FlattenSeq(ss) = f[n]
    <3>1. \E f \in [1 .. Len(ss) -> Seq(X)] : Joins(f, ss) /\ FlattenSeq(ss) = f[Len(ss)]
      BY <1>1, <1>5, FlattenRun
    <3> QED BY <1>1, <3>1
  <2> DEFINE P == {k \in Nat : k + 1 <= n => f[k + 1] = g[k + 1]}
  <2>2. 0 \in P
    BY <1>1, <1>2, <1>3, <1>5, <2>1 DEF Joins
  <2>3. ASSUME NEW k \in P PROVE k + 1 \in P
    <3>1. k \in Nat /\ (k + 1 <= n => f[k + 1] = g[k + 1])
      OBVIOUS
    <3>2. ASSUME k + 2 <= n PROVE f[k + 2] = g[k + 2]
      <4>1. k + 1 <= n /\ k + 2 <= Len(tt) /\ k + 2 <= Len(ss) /\ k + 2 \in 1 .. n
        BY <1>1, <1>2, <3>1, <3>2
      <4>2. f[k + 2] = f[k + 1] \o ss[k + 2] /\ g[k + 2] = g[k + 1] \o tt[k + 2]
        BY <1>3, <2>1, <3>1, <4>1 DEF Joins
      <4> QED BY <1>2, <3>1, <4>1, <4>2
    <3> QED BY <3>1, <3>2
  <2>4. P \in SUBSET Nat
    OBVIOUS
  <2> HIDE DEF P
  <2>5. P = Nat
    BY <2>2, <2>3, <2>4, NatSetInduction
  <2>6. PICK k \in Nat : k + 1 = n
    BY <1>5
  <2>7. f[n] = g[n]
    <3>1. k \in P
      BY <2>5
    <3> QED BY <2>6, <3>1 DEF P
  <2>8. g[n + 1] = g[n] \o e
    <3>1. k + 2 = n + 1 /\ k + 2 <= Len(tt)
      BY <1>2, <2>6
    <3>2. g[k + 2] = g[k + 1] \o tt[k + 2]
      BY <1>3, <3>1 DEF Joins
    <3> QED BY <1>2, <2>6, <3>1, <3>2
  <2> QED BY <1>0, <1>3, <2>1, <2>7, <2>8
<1> QED BY <1>4, <1>5

(* vector::insert at the end is push_back. *)
LEMMA InsertAtEnd ==
  ASSUME NEW S, NEW s \in Seq(S), NEW e \in S
  PROVE  InsertAt(s, Len(s) + 1, e) = Append(s, e)
<1>0. PICK k : k = Len(s) + 1
  OBVIOUS
<1>1. Len(s) \in Nat /\ k \in 1 .. Len(s) + 1
  BY <1>0, LenProperties
<1> DEFINE r == InsertAt(s, k, e)
           a == Append(s, e)
<1>2. /\ InsertAt(s, k, e) \in Seq(S)
      /\ Len(InsertAt(s, k, e)) = Len(s) + 1
      /\ \A i \in 1 .. Len(s) + 1 :
           InsertAt(s, k, e)[i] = IF i < k THEN s[i] ELSE IF i = k THEN e ELSE s[i - 1]
  BY <1>1, InsertAtFacts
<1>3. /\ r \in Seq(S) /\ Len(r) = Len(s) + 1
      /\ \A i \in 1 .. Len(s) : r[i] = s[i]
      /\ r[Len(s) + 1] = e
  BY <1>0, <1>1, <1>2
<1>4. /\ a \in Seq(S) /\ Len(a) = Len(s) + 1 /\ a[Len(s) + 1] = e
      /\ \A i \in 1 .. Len(s) : a[i] = s[i]
  BY AppendProperties
<1> HIDE DEF r, a
<1>5. ASSUME NEW i \in 1 .. Len(r) PROVE r[i] = a[i]
  <2>1. i \in 1 .. Len(s) \/ i = Len(s) + 1
    BY <1>1, <1>3
  <2> QED BY <2>1, <1>3, <1>4
<1>6. r = a
  BY <1>3, <1>4, <1>5, SeqEqual
<1> QED BY <1>0, <1>6 DEF r, a

(* Erasing the last of the first m takes the first m - 1. *)
LEMMA EraseLast ==
  ASSUME NEW S, NEW s \in Seq(S), Injective(s), NEW m \in 1 .. Len(s)
  PROVE  /\ SubSeq(s, 1, m) \in Seq(S) /\ Len(SubSeq(s, 1, m)) = m
         /\ Last(SubSeq(s, 1, m)) = s[m] /\ s[m] \in S
         /\ RemoveFirst(SubSeq(s, 1, m), s[m]) = SubSeq(s, 1, m - 1)
<1> DEFINE long == SubSeq(s, 1, m)
           short == SubSeq(s, 1, m - 1)
<1>1. /\ Len(s) \in Nat /\ m \in Nat /\ \A i \in 1 .. Len(s) : s[i] \in S
  BY LenProperties, ElementOfSeq
<1>2. /\ long \in Seq(S) /\ Len(long) = m /\ \A i \in 1 .. m : long[i] = s[i]
  BY <1>1
<1>3. /\ short \in Seq(S) /\ Len(short) = m - 1 /\ \A i \in 1 .. m - 1 : short[i] = s[i]
  BY <1>1
<1>4. Append(short, s[m]) = long
  BY PrefixFacts
<1>9. Last(long) = s[m]
  BY <1>1, <1>2 DEF Last
<1> HIDE DEF long, short
<1>5. Injective(short) /\ s[m] \notin ToSet(short)
  <2>1. Injective(short)
    BY <1>1, <1>3 DEF Injective
  <2>2. \A i \in 1 .. Len(short) : short[i] # s[m]
    BY <1>1, <1>3 DEF Injective
  <2>3. s[m] \notin ToSet(short)
    BY <1>3, <2>2, ToSetDef
  <2> QED BY <2>1, <2>3
<1> DEFINE e == s[m]
           k == Len(short) + 1
<1>6. k \in 1 .. Len(short) + 1 /\ e \in S
  BY <1>1, <1>3
<1> HIDE DEF e
<1>7. InsertAt(short, Len(short) + 1, e) = Append(short, e)
  BY <1>3, <1>6, InsertAtEnd
<1>8. RemoveFirst(InsertAt(short, k, e), e) = short
  BY <1>3, <1>5, <1>6, InsertThenErase DEF e
<1>10. RemoveFirst(Append(short, e), e) = short
  BY <1>7, <1>8
<1> QED BY <1>2, <1>4, <1>6, <1>9, <1>10 DEF e, long, short

(* Handing items over from the back puts them down in reverse. *)
LEMMA AppendReversed ==
  ASSUME NEW S, NEW q \in Seq(S), NEW s \in Seq(S), NEW m \in 1 .. Len(s)
  PROVE  Append(q \o Reverse(SubSeq(s, m + 1, Len(s))), s[m])
           = q \o Reverse(SubSeq(s, m, Len(s)))
<1>1. PICK n \in Nat : n = Len(s)
  BY LenProperties
<1>2. PICK l \in Nat : l = Len(q)
  BY LenProperties
<1>3. m \in 1 .. n /\ m \in Nat /\ (\A i \in 1 .. n : s[i] \in S) /\ \A i \in 1 .. l : q[i] \in S
  BY <1>1, <1>2, ElementOfSeq
<1> DEFINE a == SubSeq(s, m + 1, n)
           b == SubSeq(s, m, n)
           ra == Reverse(a)
           rb == Reverse(b)
<1>4. /\ a \in Seq(S) /\ Len(a) = n - m /\ \A i \in 1 .. n - m : a[i] = s[m + i]
  BY <1>1, <1>3
<1>5. /\ b \in Seq(S) /\ Len(b) = (n - m) + 1 /\ \A i \in 1 .. (n - m) + 1 : b[i] = s[m + i - 1]
  BY <1>1, <1>3
<1> HIDE DEF a, b
<1>6. /\ ra \in Seq(S) /\ Len(ra) = n - m /\ \A i \in 1 .. n - m : ra[i] = s[n - i + 1]
  <2>1. /\ Reverse(a) \in Seq(S) /\ Len(Reverse(a)) = Len(a)
        /\ \A k \in 1 .. Len(a) : Reverse(a)[k] = a[Len(a) - k + 1]
    BY <1>4, ReverseFacts
  <2>2. ASSUME NEW i \in 1 .. n - m PROVE ra[i] = s[n - i + 1]
    <3>1. ra[i] = a[(n - m) - i + 1]
      BY <1>4, <2>1
    <3>2. (n - m) - i + 1 \in 1 .. n - m /\ m + ((n - m) - i + 1) = n - i + 1
      BY <1>3
    <3> QED BY <1>4, <3>1, <3>2
  <2> QED BY <1>4, <2>1, <2>2
<1>7. /\ rb \in Seq(S) /\ Len(rb) = (n - m) + 1 /\ \A i \in 1 .. (n - m) + 1 : rb[i] = s[n - i + 1]
  <2>1. /\ Reverse(b) \in Seq(S) /\ Len(Reverse(b)) = Len(b)
        /\ \A k \in 1 .. Len(b) : Reverse(b)[k] = b[Len(b) - k + 1]
    BY <1>5, ReverseFacts
  <2>2. ASSUME NEW i \in 1 .. (n - m) + 1 PROVE rb[i] = s[n - i + 1]
    <3>1. rb[i] = b[(n - m) + 1 - i + 1]
      BY <1>5, <2>1
    <3>2. (n - m) + 1 - i + 1 \in 1 .. (n - m) + 1
          /\ m + ((n - m) + 1 - i + 1) - 1 = n - i + 1
      BY <1>3
    <3> QED BY <1>5, <3>1, <3>2
  <2> QED BY <1>5, <2>1, <2>2
<1> HIDE DEF ra, rb
<1> DEFINE u == q \o ra
           v == Append(u, s[m])
           w == q \o rb
<1>8. /\ u \in Seq(S) /\ Len(u) = l + (n - m)
      /\ \A i \in 1 .. l : u[i] = q[i]
      /\ \A i \in 1 .. n - m : u[l + i] = ra[i]
  <2>1. /\ u \in Seq(S) /\ Len(u) = Len(q) + Len(ra)
        /\ \A i \in 1 .. Len(q) + Len(ra) :
             u[i] = IF i <= Len(q) THEN q[i] ELSE ra[i - Len(q)]
    BY <1>6, ConcatProperties
  <2> HIDE DEF u
  <2>2. Len(ra) \in Nat /\ Len(ra) = n - m
    BY <1>6, <1>3
  <2>3. ASSUME NEW i \in 1 .. l PROVE u[i] = q[i]
    <3>1. i \in 1 .. Len(q) + Len(ra) /\ i <= Len(q)
      BY <1>2, <1>3, <2>2
    <3> QED BY <2>1, <3>1
  <2>4. ASSUME NEW i \in 1 .. n - m PROVE u[l + i] = ra[i]
    <3>1. l + i \in 1 .. Len(q) + Len(ra) /\ ~(l + i <= Len(q)) /\ (l + i) - Len(q) = i
      BY <1>2, <1>3, <2>2
    <3> QED BY <2>1, <3>1
  <2> QED BY <1>2, <2>1, <2>2, <2>3, <2>4
<1>9. /\ w \in Seq(S) /\ Len(w) = l + ((n - m) + 1)
      /\ \A i \in 1 .. l : w[i] = q[i]
      /\ \A i \in 1 .. (n - m) + 1 : w[l + i] = rb[i]
  <2>1. /\ w \in Seq(S) /\ Len(w) = Len(q) + Len(rb)
        /\ \A i \in 1 .. Len(q) + Len(rb) :
             w[i] = IF i <= Len(q) THEN q[i] ELSE rb[i - Len(q)]
    BY <1>7, ConcatProperties
  <2> HIDE DEF w
  <2>2. Len(rb) \in Nat /\ Len(rb) = (n - m) + 1
    BY <1>7, <1>3
  <2>3. ASSUME NEW i \in 1 .. l PROVE w[i] = q[i]
    <3>1. i \in 1 .. Len(q) + Len(rb) /\ i <= Len(q)
      BY <1>2, <1>3, <2>2
    <3> QED BY <2>1, <3>1
  <2>4. ASSUME NEW i \in 1 .. (n - m) + 1 PROVE w[l + i] = rb[i]
    <3>1. l + i \in 1 .. Len(q) + Len(rb) /\ ~(l + i <= Len(q)) /\ (l + i) - Len(q) = i
      BY <1>2, <1>3, <2>2
    <3> QED BY <2>1, <3>1
  <2> QED BY <1>2, <2>1, <2>2, <2>3, <2>4
<1> HIDE DEF u, w
<1>10. /\ v \in Seq(S) /\ Len(v) = l + (n - m) + 1 /\ v[l + (n - m) + 1] = s[m]
       /\ \A i \in 1 .. l + (n - m) : v[i] = u[i]
  <2>1. s[m] \in S /\ u \in Seq(S)
    BY <1>1, <1>3, <1>8
  <2>2. /\ v \in Seq(S) /\ Len(v) = Len(u) + 1 /\ v[Len(u) + 1] = s[m]
        /\ \A i \in 1 .. Len(u) : v[i] = u[i]
    BY <2>1, AppendProperties
  <2> HIDE DEF v
  <2> QED BY <1>8, <2>2
<1> HIDE DEF v
<1>11. ASSUME NEW i \in 1 .. Len(v) PROVE v[i] = w[i]
  <2>1. i \in 1 .. l \/ (i - l \in 1 .. n - m /\ l + (i - l) = i) \/ i = l + (n - m) + 1
    BY <1>3, <1>10
  <2>2. CASE i \in 1 .. l
    BY <2>2, <1>3, <1>8, <1>9, <1>10
  <2>3. CASE i - l \in 1 .. n - m /\ l + (i - l) = i
    <3>1. v[i] = u[l + (i - l)] /\ w[i] = w[l + (i - l)]
      BY <2>3, <1>3, <1>10
    <3>2. u[l + (i - l)] = ra[i - l] /\ i - l \in 1 .. (n - m) + 1
      BY <2>3, <1>3, <1>8
    <3>3. w[l + (i - l)] = rb[i - l]
      BY <3>2, <1>9
    <3>4. ra[i - l] = s[n - (i - l) + 1] /\ rb[i - l] = s[n - (i - l) + 1]
      BY <2>3, <3>2, <1>6, <1>7
    <3> QED BY <3>1, <3>2, <3>3, <3>4
  <2>4. CASE i = l + (n - m) + 1
    <3>1. (n - m) + 1 \in 1 .. (n - m) + 1 /\ l + ((n - m) + 1) = i /\ n - ((n - m) + 1) + 1 = m
      BY <2>4, <1>3
    <3>2. w[i] = rb[(n - m) + 1]
      BY <3>1, <1>9
    <3>3. rb[(n - m) + 1] = s[n - ((n - m) + 1) + 1]
      BY <3>1, <1>7
    <3>4. v[i] = s[m]
      BY <2>4, <1>10
    <3> QED BY <3>1, <3>2, <3>3, <3>4
  <2> QED BY <2>1, <2>2, <2>3, <2>4
<1>12. Len(v) = Len(w)
  BY <1>3, <1>9, <1>10
<1>13. v = w
  BY <1>9, <1>10, <1>11, <1>12, SeqEqual
<1> QED BY <1>1, <1>13 DEF v, w, u, ra, rb, a, b
=============================================================================
