----------------------------- MODULE RingProofs ------------------------------
(***************************************************************************)
(* The two ring buffers. That of the renderer never lends bytes that the    *)
(* GPU may still be reading, for every capacity, alignment and sequence of  *)
(* requests. That of a socket is a queue of bytes, for every size of the    *)
(* buffer and every sequence of calls. The connection between two sockets   *)
(* is reliable until as many bytes were sent as a buffer holds.             *)
(***************************************************************************)
EXTENDS GpuRingBuffer, RingBuffer, PacketStream, SequenceLemmas

-----------------------------------------------------------------------------
(* The ring buffer of the renderer *)

End(e) == e.offset + e.count

(* An entry lies between the read and the write position.                   *)
EntryFits(e, W, w, R, r) ==
  /\ End(e) <= Capacity
  /\ e.wrap \in R .. W
  /\ e.wrap = W => End(e) <= w
  /\ e.wrap = R => e.offset >= r

(* Entries are in the order of their bytes.                                 *)
InOrder(d, e) == d.wrap <= e.wrap /\ (d.wrap = e.wrap => End(d) <= e.offset)

Ordered(s) ==
  \A i, j \in 1 .. Len(s) :
    i < j => InOrder(s[i], s[j])

AllFit(s, W, w, R, r) == \A i \in 1 .. Len(s) : EntryFits(s[i], W, w, R, r)

EntriesFit == AllFit(sync_entries, write_wrap_count, write_position,
                     read_wrap_count, read_offset)

(* The entries of wrap W end before offset.                                  *)
Behind(s, W, offset) == \A i \in 1 .. Len(s) : s[i].wrap = W => End(s[i]) <= offset

(* A range that is in use begins behind every entry of its wrap and ends      *)
(* before the read position.                                                *)
RangeFits ==
  /\ range.phase \in {"open", "closed"} =>
       /\ range.wrap = write_wrap_count
       /\ write_wrap_count = read_wrap_count => range.offset >= read_offset
       /\ Behind(sync_entries, write_wrap_count, range.offset)
  /\ range.phase = "open" =>
       range.offset = write_position /\ write_position + range.size <= FreeEnd
  /\ range.phase = "closed" => range.offset + range.written = write_position

RingInv ==
  /\ TypeOK
  /\ PositionsInOrder
  /\ EntriesFit
  /\ Ordered(sync_entries)
  /\ RangeFits

-----------------------------------------------------------------------------
(* Sequences of entries *)

LEMMA AppendEntry ==
  ASSUME NEW s \in Seq(SyncEntry), NEW e \in SyncEntry
  PROVE  /\ Append(s, e) \in Seq(SyncEntry)
         /\ Len(Append(s, e)) = Len(s) + 1
         /\ \A i \in 1 .. Len(s) : Append(s, e)[i] = s[i]
         /\ Append(s, e)[Len(s) + 1] = e
  OBVIOUS

LEMMA AppendOrdered ==
  ASSUME NEW s \in Seq(SyncEntry), NEW e \in SyncEntry, Ordered(s),
         \A i \in 1 .. Len(s) : InOrder(s[i], e)
  PROVE  Ordered(Append(s, e))
  <1> DEFINE t == Append(s, e)
  <1>1. /\ Len(t) = Len(s) + 1
        /\ \A i \in 1 .. Len(s) : t[i] = s[i]
        /\ t[Len(s) + 1] = e
    BY AppendEntry
  <1> HIDE DEF t
  <1>2. Len(s) \in Nat
    OBVIOUS
  <1>3. ASSUME NEW i \in 1 .. Len(t), NEW j \in 1 .. Len(t), i < j
        PROVE  InOrder(t[i], t[j])
    <2>1. i \in 1 .. Len(s) /\ t[i] = s[i]
      BY <1>1, <1>2, <1>3
    <2>2. CASE j = Len(s) + 1
      BY <2>1, <2>2, <1>1
    <2>3. CASE j # Len(s) + 1
      <3>1. j \in 1 .. Len(s) /\ t[j] = s[j]
        BY <1>1, <1>2, <2>3
      <3> QED BY <2>1, <3>1, <1>3 DEF Ordered
    <2> QED BY <2>2, <2>3
  <1>4. Ordered(t)
    BY <1>3 DEF Ordered
  <1> QED BY <1>4 DEF t

LEMMA AfterEntries ==
  ASSUME NEW s \in Seq(SyncEntry), NEW k \in 0 .. Len(s),
         NEW t, t = SubSeq(s, k + 1, Len(s))
  PROVE  /\ t \in Seq(SyncEntry)
         /\ Len(t) = Len(s) - k
         /\ \A i \in 1 .. Len(t) : k + i \in 1 .. Len(s) /\ t[i] = s[k + i]
  <1>1. Len(s) \in Nat /\ \A i \in k + 1 .. Len(s) : s[i] \in SyncEntry
    OBVIOUS
  <1>2. /\ t \in Seq(SyncEntry)
        /\ Len(t) = IF k + 1 <= Len(s) THEN Len(s) - (k + 1) + 1 ELSE 0
        /\ \A i \in 1 .. Len(s) - (k + 1) + 1 : t[i] = s[k + 1 + i - 1]
    BY <1>1, SubSeqProperties, k + 1 \in Int, Len(s) \in Int
  <1>3. Len(t) = Len(s) - k
    BY <1>1, <1>2
  <1>4. ASSUME NEW i \in 1 .. Len(t)
        PROVE  k + i \in 1 .. Len(s) /\ t[i] = s[k + i]
    <2>1. k + 1 + i - 1 = k + i /\ i \in 1 .. Len(s) - (k + 1) + 1
      BY <1>1, <1>3
    <2> QED BY <2>1, <1>1, <1>2, <1>3
  <1> QED BY <1>2, <1>3, <1>4

LEMMA DoneEntries ==
  ASSUME NEW s \in Seq(SyncEntry)
  PROVE  /\ AllDone(s) \in Seq(SyncEntry)
         /\ Len(AllDone(s)) = Len(s)
         /\ \A i \in 1 .. Len(s) :
              /\ AllDone(s)[i].done
              /\ AllDone(s)[i].wrap = s[i].wrap
              /\ AllDone(s)[i].offset = s[i].offset
              /\ AllDone(s)[i].count = s[i].count
  <1>1. \A i \in 1 .. Len(s) : s[i] \in SyncEntry
    OBVIOUS
  <1>2. \A i \in 1 .. Len(s) : [s[i] EXCEPT !.done = TRUE] \in SyncEntry
    BY <1>1 DEF SyncEntry
  <1>3. AllDone(s) = [i \in 1 .. Len(s) |-> [s[i] EXCEPT !.done = TRUE]]
    BY DEF AllDone
  <1>4. AllDone(s) \in Seq(SyncEntry) /\ Len(AllDone(s)) = Len(s)
    BY <1>2, <1>3
  <1>5. ASSUME NEW i \in 1 .. Len(s)
        PROVE  /\ AllDone(s)[i].done
               /\ AllDone(s)[i].wrap = s[i].wrap
               /\ AllDone(s)[i].offset = s[i].offset
               /\ AllDone(s)[i].count = s[i].count
    <2>1. AllDone(s)[i] = [s[i] EXCEPT !.done = TRUE]
      BY <1>3
    <2> QED BY <1>1, <2>1 DEF SyncEntry
  <1> QED BY <1>4, <1>5

LEMMA EntryTypes ==
  ASSUME NEW e \in SyncEntry
  PROVE  /\ e.wrap \in Nat /\ e.offset \in Nat /\ e.count \in Nat
         /\ e.done \in BOOLEAN /\ End(e) \in Nat
  BY DEF End, SyncEntry

(* The entries still fit when the write position has moved on.              *)
LEMMA FitsFurther ==
  ASSUME NEW s \in Seq(SyncEntry), NEW W \in Nat, NEW w \in Nat, NEW R \in Nat,
         NEW r \in Nat, NEW w2 \in Nat, w <= w2, AllFit(s, W, w, R, r)
  PROVE  AllFit(s, W, w2, R, r) /\ Behind(s, W, w2)
  <1>1. ASSUME NEW i \in 1 .. Len(s)
        PROVE  EntryFits(s[i], W, w2, R, r) /\ (s[i].wrap = W => End(s[i]) <= w2)
    <2>1. s[i] \in SyncEntry /\ End(s[i]) \in Nat
      BY EntryTypes
    <2>2. EntryFits(s[i], W, w, R, r)
      BY DEF AllFit
    <2> QED BY <2>1, <2>2 DEF EntryFits
  <1> QED BY <1>1 DEF AllFit, Behind

(* All entries are of the previous wrap once the write position has wrapped. *)
LEMMA FitsNextWrap ==
  ASSUME NEW s \in Seq(SyncEntry), NEW W \in Nat, NEW w \in Nat,
         NEW r \in Nat, AllFit(s, W, w, W, r)
  PROVE  AllFit(s, W + 1, 0, W, r) /\ Behind(s, W + 1, 0)
  <1>1. ASSUME NEW i \in 1 .. Len(s)
        PROVE  EntryFits(s[i], W + 1, 0, W, r) /\ s[i].wrap # W + 1
    <2>1. s[i] \in SyncEntry /\ End(s[i]) \in Nat /\ s[i].wrap \in Nat
      BY EntryTypes
    <2>2. EntryFits(s[i], W, w, W, r)
      BY DEF AllFit
    <2> QED BY <2>1, <2>2 DEF EntryFits
  <1> QED BY <1>1 DEF AllFit, Behind

(* An entry fits behind one that comes before it.                            *)
LEMMA FitsBehind ==
  ASSUME NEW d \in SyncEntry, NEW e \in SyncEntry, NEW W \in Nat, NEW w \in Nat,
         NEW R \in Nat, NEW r \in Nat, EntryFits(e, W, w, R, r), InOrder(d, e)
  PROVE  EntryFits(e, W, w, d.wrap, End(d))
  <1>1. PICK dw \in Nat, ew \in Nat, eo \in Nat, de \in Nat :
          dw = d.wrap /\ ew = e.wrap /\ eo = e.offset /\ de = End(d)
    BY EntryTypes
  <1>2. /\ End(e) <= Capacity /\ ew \in R .. W /\ (ew = W => End(e) <= w)
        /\ dw <= ew /\ (dw = ew => de <= eo)
    BY <1>1 DEF EntryFits, InOrder
  <1>3. ew \in dw .. W /\ (ew = dw => eo >= de)
    BY <1>2
  <1> QED BY <1>1, <1>2, <1>3 DEF EntryFits

(* The entries that stay fit behind the one that was read up to.             *)
LEMMA FitsAfter ==
  ASSUME NEW s \in Seq(SyncEntry), NEW W \in Nat, NEW w \in Nat, NEW R \in Nat,
         NEW r \in Nat, AllFit(s, W, w, R, r), Ordered(s), NEW k \in 1 .. Len(s),
         NEW t, t = SubSeq(s, k + 1, Len(s))
  PROVE  AllFit(t, W, w, s[k].wrap, End(s[k])) /\ Ordered(t)
  <1>1. /\ t \in Seq(SyncEntry) /\ Len(t) = Len(s) - k /\ Len(s) \in Nat
        /\ \A i \in 1 .. Len(t) : k + i \in 1 .. Len(s) /\ t[i] = s[k + i]
    <2>1. k \in 0 .. Len(s) /\ Len(s) \in Nat
      OBVIOUS
    <2>2. /\ t \in Seq(SyncEntry) /\ Len(t) = Len(s) - k
          /\ \A i \in 1 .. Len(t) : k + i \in 1 .. Len(s) /\ t[i] = s[k + i]
      BY <2>1, AfterEntries, Zenon
    <2> QED BY <2>1, <2>2
  <1>2. ASSUME NEW i \in 1 .. Len(t)
        PROVE  EntryFits(t[i], W, w, s[k].wrap, End(s[k]))
    <2>1. PICK m \in 1 .. Len(s) : t[i] = s[m] /\ k < m
      <3>1. k + i \in 1 .. Len(s) /\ t[i] = s[k + i]
        BY <1>1
      <3>2. k < k + i
        OBVIOUS
      <3> QED BY <3>1, <3>2, Zenon
    <2>2. s[k] \in SyncEntry /\ s[m] \in SyncEntry
      OBVIOUS
    <2>3. EntryFits(s[m], W, w, R, r)
      BY DEF AllFit
    <2>4. InOrder(s[k], s[m])
      BY <2>1 DEF Ordered
    <2> QED BY <2>1, <2>2, <2>3, <2>4, FitsBehind
  <1>3. ASSUME NEW i \in 1 .. Len(t), NEW j \in 1 .. Len(t), i < j
        PROVE  InOrder(t[i], t[j])
    <2>1. k + i \in 1 .. Len(s) /\ k + j \in 1 .. Len(s) /\ k + i < k + j
      BY <1>1, <1>3
    <2> QED BY <2>1, <1>1 DEF Ordered
  <1> QED BY <1>2, <1>3 DEF AllFit, Ordered

(* Nothing depends on which fences are signalled.                            *)
SameBytes(s, t) ==
  /\ Len(t) = Len(s)
  /\ \A i \in 1 .. Len(s) :
       t[i].wrap = s[i].wrap /\ t[i].offset = s[i].offset /\ t[i].count = s[i].count

LEMMA FitsWithSameBytes ==
  ASSUME NEW s, NEW t, SameBytes(s, t)
  PROVE  /\ \A W, w, R, r : AllFit(s, W, w, R, r) => AllFit(t, W, w, R, r)
         /\ \A W, o : Behind(s, W, o) => Behind(t, W, o)
         /\ Ordered(s) => Ordered(t)
  <1>1. \A i \in 1 .. Len(s) : End(t[i]) = End(s[i])
    BY DEF SameBytes, End
  <1> QED BY <1>1 DEF SameBytes, AllFit, EntryFits, Behind, Ordered, InOrder

-----------------------------------------------------------------------------
LEMMA GapIsNatural ==
  ASSUME write_position \in Nat
  PROVE  AlignmentGap \in Nat
  BY AlignmentAssumption DEF AlignmentGap

LEMMA InitRing == Init => RingInv
  BY CapacityAssumption
     DEF Init, RingInv, TypeOK, PositionsInOrder, WriteIsAhead, EntriesFit, AllFit, Ordered,
         RangeFits, NoRange, BufferRange, SyncEntry, write, read

(* What fits ahead of the write position, with the gap, ends before FreeEnd. *)
LEMMA RoomAhead ==
  ASSUME TypeOK, PositionsInOrder
  PROVE  /\ FreeEnd \in write_position .. Capacity
         /\ AvailableWithoutWrap \in Nat /\ AvailableWithWrap \in Nat
         /\ AvailableWithoutWrap > 0 =>
              write_position + AlignmentGap + AvailableWithoutWrap = FreeEnd
         /\ ByteCount \in Nat
  <1>1. AlignmentGap \in Nat
    BY GapIsNatural DEF TypeOK
  <1>2. FreeEnd \in write_position .. Capacity
    BY CapacityAssumption DEF FreeEnd, TypeOK, PositionsInOrder, WriteIsAhead
  <1>3. /\ AvailableWithoutWrap \in Nat
        /\ AvailableWithoutWrap > 0 =>
              write_position + AlignmentGap + AvailableWithoutWrap = FreeEnd
    BY <1>1, <1>2, CapacityAssumption DEF AvailableWithoutWrap, TypeOK
  <1>4. AvailableWithWrap \in Nat
    BY CapacityAssumption DEF AvailableWithWrap, TypeOK
  <1>5. ByteCount \in Nat
    BY <1>3, <1>4 DEF ByteCount, TypeOK, BufferRange
  <1> QED BY <1>2, <1>3, <1>4, <1>5

LEMMA OpenKeepsInv ==
  ASSUME RingInv, NEW n \in Requests, Open(n)
  PROVE  RingInv'
  BY RequestsAssumption
     DEF RingInv, Open, TypeOK, PositionsInOrder, WriteIsAhead, EntriesFit, EntryFits,
         End, Ordered, RangeFits, NoRange, BufferRange, FreeEnd, write, read

LEMMA TakeAheadKeepsInv ==
  ASSUME RingInv, TakeAhead
  PROVE  RingInv'
  <1> DEFINE gap == IF AvailableWithoutWrap > 0 THEN AlignmentGap ELSE 0
  <1>1. /\ TypeOK /\ PositionsInOrder /\ EntriesFit /\ Ordered(sync_entries)
        /\ write_wrap_count' = write_wrap_count /\ sync_entries' = sync_entries
        /\ read_wrap_count' = read_wrap_count /\ read_offset' = read_offset
        /\ ByteCount <= AvailableWithoutWrap
    BY DEF RingInv, TakeAhead, FitsAhead, read
  <1>2. PICK w \in Nat : w = write_position'
    <2>1. AlignmentGap \in Nat
      BY <1>1, GapIsNatural DEF TypeOK
    <2> QED BY <2>1, <1>1 DEF TakeAhead, TypeOK
  <1>3. /\ w >= write_position
        /\ w + ByteCount <= FreeEnd
        /\ ByteCount \in Nat
        /\ FreeEnd \in write_position .. Capacity
    <2>1. AlignmentGap \in Nat
      BY <1>1, GapIsNatural DEF TypeOK
    <2>2. w = write_position + gap
      BY <1>2 DEF TakeAhead
    <2> QED BY <1>1, <2>1, <2>2, RoomAhead, CapacityAssumption DEF TypeOK
  <1>4. range' = [phase |-> "open", wrap |-> write_wrap_count, offset |-> w,
                  size |-> ByteCount, written |-> 0]
    BY <1>2 DEF TakeAhead, Opened
  <1>5. w \in 0 .. Capacity /\ w <= FreeEnd
    BY <1>1, <1>3, CapacityAssumption DEF TypeOK
  <1>6. TypeOK'
    BY <1>1, <1>2, <1>3, <1>4, <1>5 DEF TypeOK, BufferRange
  <1>7. PositionsInOrder' /\ FreeEnd' = FreeEnd
    BY <1>1, <1>2, <1>3, <1>5, CapacityAssumption
       DEF PositionsInOrder, WriteIsAhead, FreeEnd, TypeOK
  <1>8. EntriesFit' /\ Ordered(sync_entries)' /\ Behind(sync_entries, write_wrap_count, w)
    BY <1>1, <1>2, <1>3, FitsFurther DEF EntriesFit, TypeOK
  <1>9. RangeFits'
    <2>1. write_wrap_count = read_wrap_count => w >= read_offset
      BY <1>1, <1>3 DEF PositionsInOrder, WriteIsAhead, TypeOK
    <2> QED BY <1>1, <1>2, <1>3, <1>4, <1>7, <1>8, <2>1 DEF RangeFits
  <1> QED BY <1>6, <1>7, <1>8, <1>9 DEF RingInv

LEMMA TakeWrappedKeepsInv ==
  ASSUME RingInv, TakeWrapped
  PROVE  RingInv'
  <1> DEFINE W == write_wrap_count
             s == IF write_position = Capacity THEN sync_entries
                  ELSE Append(sync_entries, Padding)
  <1>1. /\ TypeOK /\ PositionsInOrder /\ EntriesFit /\ Ordered(sync_entries)
        /\ read_wrap_count' = read_wrap_count /\ read_offset' = read_offset
        /\ write_wrap_count' = W + 1 /\ write_position' = 0 /\ sync_entries' = s
        /\ ~(ByteCount <= AvailableWithoutWrap) /\ ByteCount <= AvailableWithWrap
    BY DEF RingInv, TakeWrapped, FitsWrapped, FitsAhead, read
  <1>2. /\ W \in Nat /\ write_position \in Nat /\ write_position <= Capacity
        /\ read_offset \in Nat /\ read_offset <= Capacity
        /\ read_wrap_count \in Nat /\ sync_entries \in Seq(SyncEntry)
        /\ ByteCount \in Nat /\ AvailableWithoutWrap \in Nat
    BY <1>1, RoomAhead, CapacityAssumption DEF TypeOK
  <1>3. /\ W = read_wrap_count /\ ~WriteIsAhead /\ ByteCount <= read_offset
        /\ read_offset <= write_position
    BY <1>1, <1>2 DEF AvailableWithWrap, PositionsInOrder
  <1>4. range' = [phase |-> "open", wrap |-> W + 1, offset |-> 0,
                  size |-> ByteCount, written |-> 0]
    BY DEF TakeWrapped, Opened
  <1>5. s \in Seq(SyncEntry) /\ AllFit(s, W, Capacity, W, read_offset) /\ Ordered(s)
    <2>1. AllFit(sync_entries, W, Capacity, W, read_offset)
      BY <1>1, <1>2, <1>3, FitsFurther, CapacityAssumption DEF EntriesFit
    <2>2. CASE write_position = Capacity
      BY <1>1, <1>2, <2>1, <2>2
    <2>3. CASE write_position # Capacity
      <3>1. Padding \in SyncEntry /\ EntryFits(Padding, W, Capacity, W, read_offset)
        BY <1>2, <1>3, <2>3, CapacityAssumption DEF Padding, SyncEntry, EntryFits, End
      <3>2. \A i \in 1 .. Len(sync_entries) : InOrder(sync_entries[i], Padding)
        <4>1. TAKE i \in 1 .. Len(sync_entries)
        <4>2. EntryFits(sync_entries[i], W, write_position, W, read_offset)
          BY <1>1, <1>3 DEF EntriesFit, AllFit
        <4> QED BY <1>2, <4>2 DEF EntryFits, InOrder, Padding
      <3>3. s = Append(sync_entries, Padding)
        BY <2>3
      <3>4. /\ s \in Seq(SyncEntry) /\ Len(s) = Len(sync_entries) + 1
            /\ \A i \in 1 .. Len(sync_entries) : s[i] = sync_entries[i]
            /\ s[Len(sync_entries) + 1] = Padding
        BY <1>2, <3>1, <3>3, AppendEntry
      <3>5. Ordered(s)
        BY <1>1, <1>2, <3>1, <3>2, <3>3, AppendOrdered
      <3>6. AllFit(s, W, Capacity, W, read_offset)
        <4>1. ASSUME NEW i \in 1 .. Len(s)
              PROVE  i \in 1 .. Len(sync_entries) \/ i = Len(sync_entries) + 1
          BY <1>2, <3>4
        <4> QED BY <2>1, <3>1, <3>4, <4>1 DEF AllFit
      <3> QED BY <3>4, <3>5, <3>6
    <2> QED BY <2>2, <2>3
  <1> HIDE DEF s
  <1>6. AllFit(s, W + 1, 0, W, read_offset) /\ Behind(s, W + 1, 0)
    BY <1>2, <1>5, FitsNextWrap, CapacityAssumption
  <1>7. TypeOK'
    BY <1>1, <1>2, <1>4, <1>5, CapacityAssumption DEF TypeOK, BufferRange
  <1>8. PositionsInOrder' /\ FreeEnd' = read_offset
    BY <1>1, <1>2, <1>3 DEF PositionsInOrder, WriteIsAhead, FreeEnd
  <1>9. EntriesFit' /\ Ordered(sync_entries)'
    BY <1>1, <1>3, <1>5, <1>6 DEF EntriesFit
  <1>10. RangeFits'
    BY <1>1, <1>2, <1>3, <1>4, <1>6, <1>8 DEF RangeFits
  <1> QED BY <1>7, <1>8, <1>9, <1>10 DEF RingInv

(* update_entries() moves the read position to the end of an entry.          *)
LEMMA ReadUpToKeepsOrder ==
  ASSUME RingInv, NEW k \in 0 .. Len(sync_entries), ReadUpTo(k),
         range.phase \in {"opening", "stalled"}, UNCHANGED write
  PROVE  /\ read_offset' \in 0 .. Capacity /\ read_wrap_count' \in Nat
         /\ PositionsInOrder'
         /\ AllFit(After(k), write_wrap_count, write_position,
                   read_wrap_count', read_offset')
         /\ Ordered(After(k)) /\ After(k) \in Seq(SyncEntry)
         /\ \/ read_wrap_count' = read_wrap_count /\ read_offset' >= read_offset
            \/ read_wrap_count' = read_wrap_count + 1
  <1>1. /\ TypeOK /\ PositionsInOrder /\ EntriesFit /\ Ordered(sync_entries)
        /\ write_wrap_count' = write_wrap_count /\ write_position' = write_position
        /\ sync_entries \in Seq(SyncEntry)
        /\ write_wrap_count \in Nat /\ read_wrap_count \in Nat
        /\ write_position \in Nat /\ read_offset \in Nat
        /\ write_position <= Capacity /\ read_offset <= Capacity
    BY CapacityAssumption DEF RingInv, TypeOK, write
  <1>2. After(k) \in Seq(SyncEntry)
    BY <1>1, AfterEntries DEF After
  <1>3. CASE k = 0
    <2>1. read_wrap_count' = read_wrap_count /\ read_offset' = read_offset
      BY <1>3 DEF ReadUpTo, read
    <2>2. After(k) = sync_entries
      <3>1. After(k) = SubSeq(sync_entries, 1, Len(sync_entries))
        BY <1>3 DEF After
      <3> QED BY <1>1, <3>1
    <2>3. PositionsInOrder'
      BY <1>1, <2>1 DEF PositionsInOrder, WriteIsAhead
    <2> QED BY <1>1, <1>2, <2>1, <2>2, <2>3 DEF EntriesFit, TypeOK
  <1>4. CASE k # 0
    <2> DEFINE e == sync_entries[k]
    <2>1. k \in 1 .. Len(sync_entries) /\ e \in SyncEntry
      BY <1>1, <1>4
    <2>2. PICK W \in Nat, o \in Nat, d \in Nat : W = e.wrap /\ o = e.offset /\ d = End(e)
      BY <2>1, EntryTypes
    <2>3. read_wrap_count' = W /\ read_offset' = d
      BY <1>4, <2>2 DEF ReadUpTo, End
    <2>4. EntryFits(e, write_wrap_count, write_position, read_wrap_count, read_offset)
      BY <1>1, <2>1 DEF EntriesFit, AllFit
    <2>5. o <= d
      BY <2>1, <2>2 DEF End, SyncEntry
    <2>6. /\ d <= Capacity /\ W \in read_wrap_count .. write_wrap_count
          /\ W = write_wrap_count => d <= write_position
          /\ W = read_wrap_count => o >= read_offset
      BY <2>2, <2>4 DEF EntryFits
    <2>7. /\ PositionsInOrder'
          /\ \/ read_wrap_count' = read_wrap_count /\ read_offset' >= read_offset
             \/ read_wrap_count' = read_wrap_count + 1
      <3>1. W = read_wrap_count \/ W = read_wrap_count + 1
        BY <1>1, <2>6 DEF PositionsInOrder, WriteIsAhead
      <3>2. \/ write_wrap_count = W + 1 /\ write_position <= d
            \/ write_wrap_count = W /\ d <= write_position
        BY <1>1, <2>5, <2>6, <3>1 DEF PositionsInOrder, WriteIsAhead
      <3>3. W = read_wrap_count => d >= read_offset
        BY <1>1, <2>5, <2>6
      <3> QED BY <1>1, <2>3, <3>1, <3>2, <3>3 DEF PositionsInOrder, WriteIsAhead
    <2>8. AllFit(After(k), write_wrap_count, write_position, W, d) /\ Ordered(After(k))
      BY <1>1, <2>1, <2>2, FitsAfter DEF EntriesFit, After
    <2> QED BY <1>2, <2>3, <2>6, <2>7, <2>8, CapacityAssumption
  <1> QED BY <1>3, <1>4

LEMMA UpdateAndRetryKeepsInv ==
  ASSUME RingInv, UpdateAndRetry
  PROVE  RingInv'
  <1>1. PICK k \in 0 .. Len(sync_entries) : ReadUpTo(k) /\ sync_entries' = After(k)
    BY DEF UpdateAndRetry
  <1>2. /\ UNCHANGED write /\ range.phase \in {"opening", "stalled"}
        /\ write_wrap_count' = write_wrap_count /\ write_position' = write_position
        /\ range' = [range EXCEPT !.phase = "stalled"] /\ TypeOK
    BY DEF UpdateAndRetry, RingInv, write
  <1>3. /\ read_offset' \in 0 .. Capacity /\ read_wrap_count' \in Nat
        /\ PositionsInOrder'
        /\ AllFit(After(k), write_wrap_count, write_position, read_wrap_count', read_offset')
        /\ Ordered(After(k)) /\ After(k) \in Seq(SyncEntry)
    BY <1>1, <1>2, ReadUpToKeepsOrder
  <1>4. range' \in BufferRange /\ range'.phase = "stalled"
    BY <1>2 DEF TypeOK, BufferRange
  <1>5. TypeOK'
    BY <1>1, <1>2, <1>3, <1>4 DEF TypeOK
  <1> QED BY <1>1, <1>2, <1>3, <1>4, <1>5 DEF RingInv, EntriesFit, RangeFits

LEMMA StallForGpuKeepsInv ==
  ASSUME RingInv, StallForGpu
  PROVE  RingInv'
  <1>1. PICK k \in 0 .. Len(sync_entries) : ReadUpTo(k) /\ sync_entries' = AllDone(After(k))
    BY DEF StallForGpu
  <1>2. /\ UNCHANGED write /\ range.phase = "stalled" /\ range' = range /\ TypeOK
        /\ write_wrap_count' = write_wrap_count /\ write_position' = write_position
    BY DEF StallForGpu, RingInv, write
  <1>3. /\ read_offset' \in 0 .. Capacity /\ read_wrap_count' \in Nat
        /\ PositionsInOrder'
        /\ AllFit(After(k), write_wrap_count, write_position, read_wrap_count', read_offset')
        /\ Ordered(After(k)) /\ After(k) \in Seq(SyncEntry)
    BY <1>1, <1>2, ReadUpToKeepsOrder
  <1>4. AllDone(After(k)) \in Seq(SyncEntry) /\ SameBytes(After(k), AllDone(After(k)))
    BY <1>3, DoneEntries DEF SameBytes
  <1>5. TypeOK'
    BY <1>1, <1>2, <1>3, <1>4 DEF TypeOK
  <1>6. EntriesFit' /\ Ordered(sync_entries')
    BY <1>1, <1>2, <1>3, <1>4, FitsWithSameBytes DEF EntriesFit
  <1> QED BY <1>2, <1>3, <1>5, <1>6 DEF RingInv, RangeFits

LEMMA CloseKeepsInv ==
  ASSUME RingInv, NEW n \in 0 .. Capacity, Close(n)
  PROVE  RingInv'
  <1>1. /\ TypeOK /\ PositionsInOrder /\ EntriesFit /\ Ordered(sync_entries) /\ RangeFits
        /\ write_wrap_count' = write_wrap_count /\ sync_entries' = sync_entries
        /\ read_wrap_count' = read_wrap_count /\ read_offset' = read_offset
        /\ range.phase = "open" /\ n <= range.size
        /\ range' = [range EXCEPT !.phase = "closed", !.written = n]
    BY DEF RingInv, Close, read
  <1>2. PICK w \in Nat, size \in Nat : w = write_position' /\ size = range.size
    BY <1>1, CapacityAssumption DEF Close, TypeOK, BufferRange
  <1>3. /\ w = write_position + n /\ range.offset = write_position
        /\ w >= write_position /\ w <= FreeEnd
        /\ FreeEnd \in write_position .. Capacity
        /\ write_position \in Nat /\ n \in Nat
    <2>1. write_position + size <= FreeEnd /\ range.offset = write_position
      BY <1>1, <1>2 DEF RangeFits
    <2>2. FreeEnd \in write_position .. Capacity /\ write_position \in Nat /\ n \in Nat
      BY <1>1, RoomAhead, CapacityAssumption DEF TypeOK
    <2>3. w = write_position + n
      BY <1>2 DEF Close
    <2> QED BY <1>1, <1>2, <2>1, <2>2, <2>3, CapacityAssumption
  <1>4. w \in 0 .. Capacity
    BY <1>3, CapacityAssumption
  <1>5. /\ range' \in BufferRange /\ range'.phase = "closed"
        /\ range'.wrap = range.wrap /\ range'.offset = range.offset /\ range'.written = n
    BY <1>1, <1>3 DEF TypeOK, BufferRange
  <1>6. TypeOK'
    BY <1>1, <1>2, <1>4, <1>5 DEF TypeOK
  <1>7. PositionsInOrder'
    BY <1>1, <1>2, <1>3, CapacityAssumption
       DEF PositionsInOrder, WriteIsAhead, FreeEnd, TypeOK
  <1>8. EntriesFit'
    BY <1>1, <1>2, <1>3, FitsFurther DEF EntriesFit, TypeOK
  <1>9. RangeFits'
    BY <1>1, <1>2, <1>3, <1>5 DEF RangeFits
  <1> QED BY <1>1, <1>6, <1>7, <1>8, <1>9 DEF RingInv

(* The entry of a closed range comes after every other entry.                *)
LEMMA EntryIsLast ==
  ASSUME RingInv, range.phase = "closed", range.written # 0, NEW done \in BOOLEAN,
         NEW e, e = Entry(done)
  PROVE  /\ e \in SyncEntry
         /\ EntryFits(e, write_wrap_count, write_position, read_wrap_count, read_offset)
         /\ \A i \in 1 .. Len(sync_entries) : InOrder(sync_entries[i], e)
  <1>1. /\ TypeOK /\ PositionsInOrder /\ EntriesFit /\ RangeFits /\ range \in BufferRange
    BY DEF RingInv, TypeOK
  <1>2. /\ e.wrap = write_wrap_count /\ e.offset = range.offset /\ e.count = range.written
        /\ e \in SyncEntry /\ End(e) = write_position
        /\ write_wrap_count = read_wrap_count => range.offset >= read_offset
        /\ Behind(sync_entries, write_wrap_count, range.offset)
    BY <1>1 DEF Entry, SyncEntry, BufferRange, RangeFits, End
  <1>3. /\ write_wrap_count \in Nat /\ read_wrap_count \in Nat
        /\ write_position \in 0 .. Capacity /\ sync_entries \in Seq(SyncEntry)
    BY <1>1 DEF TypeOK
  <1>4. EntryFits(e, write_wrap_count, write_position, read_wrap_count, read_offset)
    BY <1>1, <1>2, <1>3, CapacityAssumption DEF EntryFits, PositionsInOrder, WriteIsAhead
  <1>5. ASSUME NEW i \in 1 .. Len(sync_entries)
        PROVE  InOrder(sync_entries[i], e)
    <2>1. sync_entries[i].wrap \in read_wrap_count .. write_wrap_count
      BY <1>1 DEF EntriesFit, AllFit, EntryFits
    <2>2. sync_entries[i].wrap = write_wrap_count => End(sync_entries[i]) <= range.offset
      BY <1>2 DEF Behind
    <2> QED BY <1>2, <1>3, <2>1, <2>2 DEF InOrder
  <1> QED BY <1>2, <1>4, <1>5

LEMMA PushKeepsInv ==
  ASSUME RingInv, NEW done \in BOOLEAN, Push(done)
  PROVE  RingInv'
  <1>1. /\ TypeOK /\ PositionsInOrder /\ EntriesFit /\ Ordered(sync_entries)
        /\ write_wrap_count' = write_wrap_count /\ write_position' = write_position
        /\ read_wrap_count' = read_wrap_count /\ read_offset' = read_offset
        /\ range.phase = "closed" /\ range' = NoRange
        /\ sync_entries \in Seq(SyncEntry)
    BY DEF RingInv, Push, write, read, TypeOK
  <1>2. /\ sync_entries' \in Seq(SyncEntry) /\ Ordered(sync_entries')
        /\ AllFit(sync_entries', write_wrap_count, write_position,
                  read_wrap_count, read_offset)
    <2>1. CASE range.written = 0
      BY <1>1, <2>1 DEF Push, EntriesFit
    <2>2. CASE range.written # 0
      <3>1. PICK e : e = Entry(done)
        OBVIOUS
      <3>2. /\ e \in SyncEntry
            /\ EntryFits(e, write_wrap_count, write_position, read_wrap_count, read_offset)
            /\ \A i \in 1 .. Len(sync_entries) : InOrder(sync_entries[i], e)
        BY <1>1, <2>2, <3>1, EntryIsLast
      <3>3. sync_entries' = Append(sync_entries, e)
        BY <2>2, <3>1 DEF Push
      <3>4. /\ sync_entries' \in Seq(SyncEntry)
            /\ Len(sync_entries') = Len(sync_entries) + 1
            /\ \A i \in 1 .. Len(sync_entries) : sync_entries'[i] = sync_entries[i]
            /\ sync_entries'[Len(sync_entries) + 1] = e
        BY <1>1, <3>2, <3>3, AppendEntry
      <3>5. Ordered(sync_entries')
        BY <1>1, <3>2, <3>3, AppendOrdered
      <3>6. ASSUME NEW i \in 1 .. Len(sync_entries')
            PROVE  i \in 1 .. Len(sync_entries) \/ i = Len(sync_entries) + 1
        BY <1>1, <3>4
      <3> QED BY <1>1, <3>2, <3>4, <3>5, <3>6 DEF EntriesFit, AllFit
    <2> QED BY <2>1, <2>2
  <1>3. range' \in BufferRange /\ range'.phase = "none"
    BY <1>1 DEF NoRange, BufferRange
  <1>4. TypeOK'
    BY <1>1, <1>2, <1>3 DEF TypeOK
  <1>5. PositionsInOrder'
    BY <1>1 DEF PositionsInOrder, WriteIsAhead
  <1> QED BY <1>1, <1>2, <1>3, <1>4, <1>5 DEF RingInv, EntriesFit, RangeFits

LEMMA SignalKeepsInv ==
  ASSUME RingInv, NEW i \in DOMAIN sync_entries, Signal(i)
  PROVE  RingInv'
  <1>1. /\ TypeOK /\ PositionsInOrder /\ EntriesFit /\ Ordered(sync_entries) /\ RangeFits
        /\ write_wrap_count' = write_wrap_count /\ write_position' = write_position
        /\ read_wrap_count' = read_wrap_count /\ read_offset' = read_offset
        /\ range' = range /\ sync_entries \in Seq(SyncEntry)
    BY DEF RingInv, Signal, write, read, TypeOK
  <1>2. sync_entries' \in Seq(SyncEntry) /\ SameBytes(sync_entries, sync_entries')
    <2>1. /\ sync_entries' = [sync_entries EXCEPT ![i] = [sync_entries[i] EXCEPT !.done = TRUE]]
          /\ i \in 1 .. Len(sync_entries) /\ sync_entries[i] \in SyncEntry
      BY <1>1 DEF Signal
    <2>2. PICK e \in SyncEntry : e = [sync_entries[i] EXCEPT !.done = TRUE]
      BY <2>1 DEF SyncEntry
    <2>3. /\ e.wrap = sync_entries[i].wrap /\ e.offset = sync_entries[i].offset
          /\ e.count = sync_entries[i].count
      BY <2>1, <2>2 DEF SyncEntry
    <2>4. sync_entries' = [sync_entries EXCEPT ![i] = e]
      BY <2>1, <2>2
    <2>5. /\ sync_entries' \in Seq(SyncEntry) /\ Len(sync_entries') = Len(sync_entries)
          /\ \A j \in 1 .. Len(sync_entries) :
               sync_entries'[j] = IF j = i THEN e ELSE sync_entries[j]
      <3>1. DOMAIN sync_entries = 1 .. Len(sync_entries) /\ Len(sync_entries) \in Nat
        BY <1>1
      <3>2. sync_entries' = [j \in 1 .. Len(sync_entries) |->
                               IF j = i THEN e ELSE sync_entries[j]]
        BY <3>1, <2>4
      <3>3. \A j \in 1 .. Len(sync_entries) :
              (IF j = i THEN e ELSE sync_entries[j]) \in SyncEntry
        BY <1>1
      <3> QED BY <3>1, <3>2, <3>3
    <2> QED BY <2>3, <2>5 DEF SameBytes
  <1>3. TypeOK' /\ PositionsInOrder'
    BY <1>1, <1>2 DEF TypeOK, PositionsInOrder, WriteIsAhead
  <1>4. EntriesFit' /\ Ordered(sync_entries')
    BY <1>1, <1>2, FitsWithSameBytes DEF EntriesFit
  <1>5. RangeFits'
    BY <1>1, <1>2, FitsWithSameBytes DEF RangeFits, FreeEnd, WriteIsAhead
  <1> QED BY <1>1, <1>3, <1>4, <1>5 DEF RingInv

LEMMA NextRing == RingInv /\ [Next]_vars => RingInv'
  <1> SUFFICES ASSUME RingInv, [Next]_vars PROVE RingInv'
    OBVIOUS
  <1>1. CASE UNCHANGED vars
    BY <1>1 DEF vars, write, read, RingInv, TypeOK, PositionsInOrder, WriteIsAhead,
                EntriesFit, RangeFits, FreeEnd
  <1>2. CASE Next
    BY <1>2, OpenKeepsInv, TakeAheadKeepsInv, TakeWrappedKeepsInv,
       UpdateAndRetryKeepsInv, StallForGpuKeepsInv, CloseKeepsInv, PushKeepsInv,
       SignalKeepsInv DEF Next, OpenLoop, Submit, Cancel
  <1> QED BY <1>1, <1>2

LEMMA AlwaysRingInv == Spec => []RingInv
  BY InitRing, NextRing, PTL DEF Spec

-----------------------------------------------------------------------------
(* Positions, entries and ranges keep their types: no position is ever       *)
(* outside the buffer.                                                       *)
THEOREM TypeCorrect == Spec => []TypeOK
  <1>1. RingInv => TypeOK
    BY DEF RingInv
  <1> QED BY <1>1, AlwaysRingInv, PTL

(* No ERHE_VERIFY of sanity_check() or update_entries() can fail.            *)
THEOREM SanityChecksAlwaysHold == Spec => []SanityChecksHold
  <1>1. ASSUME RingInv PROVE SanityChecksHold
    <2>1. ASSUME NEW i \in DOMAIN sync_entries
          PROVE  LET e == sync_entries[i]
                     end == e.offset + e.count
                 IN  \/ write_wrap_count = e.wrap + 1 /\ end >= write_position
                     \/ write_wrap_count = e.wrap /\ write_position >= end
      <3> DEFINE e == sync_entries[i]
      <3>1. i \in 1 .. Len(sync_entries) /\ e \in SyncEntry
        BY <1>1 DEF RingInv, TypeOK
      <3>2. PICK W \in Nat, o \in Nat, d \in Nat : W = e.wrap /\ o = e.offset /\ d = End(e)
        BY <3>1, EntryTypes
      <3>3. /\ W \in read_wrap_count .. write_wrap_count
            /\ W = write_wrap_count => d <= write_position
            /\ W = read_wrap_count => o >= read_offset
        BY <1>1, <3>1, <3>2 DEF RingInv, EntriesFit, AllFit, EntryFits
      <3>4. o <= d
        BY <3>1, <3>2 DEF End, SyncEntry
      <3>5. \/ write_wrap_count = W + 1 /\ d >= write_position
            \/ write_wrap_count = W /\ write_position >= d
        BY <1>1, <3>3, <3>4, CapacityAssumption
           DEF RingInv, PositionsInOrder, WriteIsAhead, TypeOK
      <3> QED BY <3>2, <3>5 DEF End
    <2> QED BY <1>1, <2>1 DEF SanityChecksHold, EntriesInOrder, RingInv
  <1> QED BY <1>1, AlwaysRingInv, PTL

LEMMA PendingByte ==
  ASSUME NEW s \in Seq(SyncEntry), NEW b
  PROVE  b \in PendingBytes(s) <=>
           \E i \in 1 .. Len(s) : ~s[i].done /\ b \in Bytes(s[i].offset, s[i].count)
  BY DEF PendingBytes

LEMMA InvNoOverwrite == RingInv => NoOverwrite
  <1> SUFFICES ASSUME RingInv, NEW b, b \in LentBytes, b \in GpuBytes PROVE FALSE
    BY DEF NoOverwrite
  <1>1. /\ TypeOK /\ PositionsInOrder /\ RangeFits /\ EntriesFit
        /\ sync_entries \in Seq(SyncEntry) /\ range \in BufferRange
    BY DEF RingInv, TypeOK
  <1>2. PICK i \in 1 .. Len(sync_entries) :
          b \in Bytes(sync_entries[i].offset, sync_entries[i].count)
    BY <1>1, PendingByte DEF GpuBytes
  <1> DEFINE e == sync_entries[i]
  <1>3. e \in SyncEntry
    BY <1>1
  <1>4. PICK W \in Nat, o \in Nat, d \in Nat : W = e.wrap /\ o = e.offset /\ d = End(e)
    BY <1>3, EntryTypes
  <1>5. b \in Int /\ o <= b /\ b < d
    BY <1>2, <1>3, <1>4 DEF Bytes, End, SyncEntry
  <1>6. /\ W \in read_wrap_count .. write_wrap_count
        /\ W = write_wrap_count => d <= write_position
        /\ W = read_wrap_count => o >= read_offset
    BY <1>1, <1>4 DEF EntriesFit, AllFit, EntryFits
  <1>7. PICK first \in Nat, last \in Int :
          /\ range.offset = first /\ first <= b /\ b < last
          /\ range.phase \in {"open", "closed"}
          /\ last <= FreeEnd
    <2>1. CASE range.phase = "open"
      <3>1. PICK offset \in Nat, size \in Nat : offset = range.offset /\ size = range.size
        BY <1>1 DEF BufferRange
      <3>2. b \in offset .. offset + size - 1 /\ offset + size <= FreeEnd
        BY <1>1, <2>1, <3>1 DEF LentBytes, Bytes, RangeFits
      <3> QED BY <2>1, <3>1, <3>2
    <2>2. CASE range.phase = "closed"
      <3>1. PICK offset \in Nat, size \in Nat : offset = range.offset /\ size = range.written
        BY <1>1 DEF BufferRange
      <3>2. b \in offset .. offset + size - 1 /\ offset + size = write_position
        BY <1>1, <2>2, <3>1 DEF LentBytes, Bytes, RangeFits
      <3>3. write_position <= FreeEnd
        BY <1>1, RoomAhead, CapacityAssumption DEF TypeOK
      <3> QED BY <2>2, <3>1, <3>2, <3>3
    <2>3. range.phase \in {"open", "closed"}
      BY DEF LentBytes
    <2> QED BY <2>1, <2>2, <2>3
  <1>8. W = write_wrap_count => d <= first
    BY <1>1, <1>4, <1>7 DEF RangeFits, Behind
  <1>9. W # write_wrap_count => o >= last
    BY <1>1, <1>6, <1>7, CapacityAssumption
       DEF PositionsInOrder, WriteIsAhead, FreeEnd, TypeOK
  <1> QED BY <1>5, <1>7, <1>8, <1>9

(* The program never writes a byte that a command of the GPU may still read. *)
THEOREM NeverOverwrites == Spec => []NoOverwrite
  BY InvNoOverwrite, AlwaysRingInv, PTL

-----------------------------------------------------------------------------
LEMMA ReadMovesOn ==
  RingInv /\ [Next]_vars =>
    \/ read_wrap_count' = read_wrap_count /\ read_offset' >= read_offset
    \/ read_wrap_count' = read_wrap_count + 1
  <1> SUFFICES ASSUME RingInv, [Next]_vars
               PROVE  \/ read_wrap_count' = read_wrap_count /\ read_offset' >= read_offset
                      \/ read_wrap_count' = read_wrap_count + 1
    OBVIOUS
  <1>1. read_offset \in Nat
    BY CapacityAssumption DEF RingInv, TypeOK
  <1>2. CASE UpdateAndRetry \/ StallForGpu
    <2>1. PICK k \in 0 .. Len(sync_entries) : ReadUpTo(k)
      BY <1>2 DEF UpdateAndRetry, StallForGpu
    <2>2. UNCHANGED write /\ range.phase \in {"opening", "stalled"}
      BY <1>2 DEF UpdateAndRetry, StallForGpu
    <2> QED BY <2>1, <2>2, ReadUpToKeepsOrder
  <1>3. CASE ~(UpdateAndRetry \/ StallForGpu)
    <2>1. read_wrap_count' = read_wrap_count /\ read_offset' = read_offset
      BY <1>3 DEF Next, OpenLoop, Open, TakeAhead, TakeWrapped, Close, Submit, Cancel,
                  Push, Signal, vars, read
    <2> QED BY <1>1, <2>1
  <1> QED BY <1>2, <1>3

(* update_entries() never gives back room that it has already reclaimed.     *)
THEOREM ReadAlwaysMovesOn == Spec => ReadNeverGoesBack
  <1>1. RingInv /\ [Next]_vars =>
          [ \/ read_wrap_count' = read_wrap_count /\ read_offset' >= read_offset
            \/ read_wrap_count' = read_wrap_count + 1 ]_vars
    BY ReadMovesOn
  <1> QED BY <1>1, AlwaysRingInv, PTL DEF Spec, ReadNeverGoesBack

-----------------------------------------------------------------------------
(* The ring lends its bytes as module BufferLoans says *)

LEMMA LentInBuffer == ASSUME RingInv PROVE LentBytes \subseteq 0 .. Capacity - 1
  <1>1. TypeOK /\ PositionsInOrder /\ RangeFits /\ range \in BufferRange
    BY DEF RingInv, TypeOK
  <1>2. PICK offset \in Nat, size \in Nat, written \in Nat, free \in Int :
          /\ offset = range.offset /\ size = range.size /\ written = range.written
          /\ free = FreeEnd /\ free <= Capacity /\ write_position <= free
    BY <1>1, RoomAhead, CapacityAssumption DEF BufferRange, TypeOK
  <1>3. CASE range.phase = "open"
    BY <1>1, <1>2, <1>3, CapacityAssumption DEF LentBytes, Bytes, RangeFits
  <1>4. CASE range.phase = "closed"
    <2>1. offset + written <= Capacity
      BY <1>1, <1>2, <1>4, CapacityAssumption DEF RangeFits, TypeOK
    <2> QED BY <1>2, <1>4, <2>1, CapacityAssumption DEF LentBytes, Bytes
  <1> QED BY <1>3, <1>4 DEF LentBytes

(* Entries that are done may come and go.                                    *)
LEMMA PendingAfter ==
  ASSUME NEW s \in Seq(SyncEntry), NEW k \in 0 .. Len(s), \A i \in 1 .. k : s[i].done
  PROVE  PendingBytes(SubSeq(s, k + 1, Len(s))) = PendingBytes(s)
  <1> DEFINE t == SubSeq(s, k + 1, Len(s))
  <1>1. /\ t \in Seq(SyncEntry) /\ Len(t) = Len(s) - k /\ Len(s) \in Nat
        /\ \A i \in 1 .. Len(t) : k + i \in 1 .. Len(s) /\ t[i] = s[k + i]
    BY AfterEntries
  <1> HIDE DEF t
  <1>2. ASSUME NEW b, b \in PendingBytes(t) PROVE b \in PendingBytes(s)
    <2>1. PICK i \in 1 .. Len(t) : ~t[i].done /\ b \in Bytes(t[i].offset, t[i].count)
      BY <1>1, <1>2, PendingByte
    <2>2. PICK j \in 1 .. Len(s) : t[i] = s[j]
      BY <1>1
    <2> QED BY <2>1, <2>2, PendingByte
  <1>3. ASSUME NEW b, b \in PendingBytes(s) PROVE b \in PendingBytes(t)
    <2>1. PICK i \in 1 .. Len(s) : ~s[i].done /\ b \in Bytes(s[i].offset, s[i].count)
      BY <1>3, PendingByte
    <2>2. ~(i \in 1 .. k)
      BY <2>1
    <2>3. PICK j \in 1 .. Len(t) : j = i - k
      BY <1>1, <2>2
    <2>4. t[j] = s[i]
      <3>1. k + j = i
        BY <1>1, <2>3
      <3> QED BY <1>1, <3>1
    <2> QED BY <1>1, <2>1, <2>4, PendingByte
  <1> QED BY <1>2, <1>3 DEF t

LEMMA PendingAppend ==
  ASSUME NEW s \in Seq(SyncEntry), NEW e \in SyncEntry
  PROVE  PendingBytes(Append(s, e)) =
           PendingBytes(s) \cup IF e.done THEN {} ELSE Bytes(e.offset, e.count)
  <1> DEFINE t == Append(s, e)
  <1>1. /\ t \in Seq(SyncEntry) /\ Len(t) = Len(s) + 1 /\ Len(s) \in Nat
        /\ \A i \in 1 .. Len(s) : t[i] = s[i]
        /\ t[Len(s) + 1] = e
    BY AppendEntry
  <1> HIDE DEF t
  <1>2. ASSUME NEW b, b \in PendingBytes(t)
        PROVE  b \in PendingBytes(s) \/ (~e.done /\ b \in Bytes(e.offset, e.count))
    <2>1. PICK i \in 1 .. Len(t) : ~t[i].done /\ b \in Bytes(t[i].offset, t[i].count)
      BY <1>1, <1>2, PendingByte
    <2>2. i \in 1 .. Len(s) \/ i = Len(s) + 1
      BY <1>1
    <2> QED BY <1>1, <2>1, <2>2, PendingByte
  <1>3. ASSUME NEW b, b \in PendingBytes(s) PROVE b \in PendingBytes(t)
    <2>1. PICK i \in 1 .. Len(s) : ~s[i].done /\ b \in Bytes(s[i].offset, s[i].count)
      BY <1>3, PendingByte
    <2>2. i \in 1 .. Len(t) /\ t[i] = s[i]
      BY <1>1
    <2> QED BY <1>1, <2>1, <2>2, PendingByte
  <1>4. ASSUME NEW b, ~e.done, b \in Bytes(e.offset, e.count) PROVE b \in PendingBytes(t)
    <2>1. Len(s) + 1 \in 1 .. Len(t)
      BY <1>1
    <2> QED BY <1>1, <1>4, <2>1, PendingByte
  <1>5. PendingBytes(t) = PendingBytes(s) \cup IF e.done THEN {} ELSE Bytes(e.offset, e.count)
    <2>1. CASE e.done
      BY <1>2, <1>3, <2>1
    <2>2. CASE ~e.done
      <3>1. PendingBytes(t) = PendingBytes(s) \cup Bytes(e.offset, e.count)
        BY <1>2, <1>3, <1>4, <2>2
      <3> QED BY <2>2, <3>1
    <2> QED BY <2>1, <2>2
  <1> QED BY <1>5 DEF t

LEMMA PendingDone ==
  ASSUME NEW s \in Seq(SyncEntry)
  PROVE  PendingBytes(AllDone(s)) = {}
  <1>1. AllDone(s) \in Seq(SyncEntry) /\ \A i \in 1 .. Len(AllDone(s)) : AllDone(s)[i].done
    BY DoneEntries
  <1> QED BY <1>1, PendingByte

LEMMA LoansStep ==
  ASSUME RingInv, RingInv', [Next]_vars
  PROVE  [Loans!Next]_(Loans!vars)
  <1> USE DEF Loans!vars
  <1>1. /\ sync_entries \in Seq(SyncEntry) /\ range \in BufferRange
        /\ LentBytes' \cap GpuBytes' = {}
        /\ LentBytes' \subseteq 0 .. Capacity - 1
    <2>1. (LentBytes \subseteq 0 .. Capacity - 1)'
      BY LentInBuffer, PTL
    <2>2. NoOverwrite'
      BY InvNoOverwrite, PTL
    <2>3. sync_entries \in Seq(SyncEntry) /\ range \in BufferRange
      BY DEF RingInv, TypeOK
    <2> QED BY <2>1, <2>2, <2>3 DEF NoOverwrite
  <1>2. CASE UNCHANGED vars
    BY <1>2 DEF vars, LentBytes, GpuBytes
  <1>3. ASSUME NEW n \in Requests, Open(n) PROVE UNCHANGED << LentBytes, GpuBytes >>
    BY <1>3 DEF Open, NoRange, LentBytes, GpuBytes
  <1>4. CASE TakeAhead \/ TakeWrapped
    <2>1. GpuBytes' = GpuBytes
      <3>1. CASE sync_entries' = sync_entries
        BY <3>1 DEF GpuBytes
      <3>2. CASE sync_entries' = Append(sync_entries, Padding) /\ TakeWrapped
        <4>1. /\ Padding \in SyncEntry /\ Padding.done
          <5>1. write_position \in 0 .. Capacity /\ write_wrap_count \in Nat
            BY DEF RingInv, TypeOK
          <5> QED BY <5>1, CapacityAssumption DEF Padding, SyncEntry
        <4> QED BY <1>1, <3>2, <4>1, PendingAppend DEF GpuBytes
      <3> QED BY <1>4, <3>1, <3>2 DEF TakeAhead, TakeWrapped
    <2>2. LentBytes = {}
      BY <1>4 DEF TakeAhead, TakeWrapped, Opening, LentBytes
    <2> QED BY <1>1, <2>1, <2>2 DEF Loans!Next, Loans!Lend
  <1>5. CASE UpdateAndRetry \/ StallForGpu
    <2>1. PICK k \in 0 .. Len(sync_entries) :
            /\ FirstPending(k)
            /\ sync_entries' = After(k) \/ sync_entries' = AllDone(After(k))
      BY <1>5 DEF UpdateAndRetry, StallForGpu
    <2>2. After(k) \in Seq(SyncEntry) /\ PendingBytes(After(k)) = GpuBytes
      BY <1>1, <2>1, AfterEntries, PendingAfter DEF After, FirstPending, GpuBytes
    <2>3. GpuBytes' \in SUBSET GpuBytes
      BY <2>1, <2>2, PendingDone DEF GpuBytes
    <2>4. LentBytes' = {} /\ LentBytes = {}
      BY <1>1, <1>5 DEF UpdateAndRetry, StallForGpu, LentBytes, BufferRange
    <2> QED BY <2>3, <2>4 DEF Loans!Next, Loans!Complete
  <1>6. ASSUME NEW n \in 0 .. Capacity, Close(n)
        PROVE  LentBytes' \in SUBSET LentBytes /\ UNCHANGED GpuBytes
    <2>1. PICK offset \in Nat, size \in Nat : offset = range.offset /\ size = range.size
      BY <1>1 DEF BufferRange
    <2>2. /\ range.phase = "open" /\ n <= size /\ n \in Nat
          /\ range'.phase = "closed" /\ range'.offset = offset /\ range'.written = n
      BY <1>1, <1>6, <2>1, CapacityAssumption DEF Close, BufferRange
    <2>3. LentBytes = offset .. offset + size - 1 /\ LentBytes' = offset .. offset + n - 1
      BY <2>1, <2>2 DEF LentBytes, Bytes
    <2> QED BY <1>6, <2>2, <2>3 DEF Close, GpuBytes
  <1>7. ASSUME NEW done \in BOOLEAN, Push(done)
        PROVE  LentBytes' = {} /\ (GpuBytes' = GpuBytes \/ GpuBytes' = GpuBytes \cup LentBytes)
    <2>1. LentBytes' = {}
      BY <1>7 DEF Push, NoRange, LentBytes
    <2>2. CASE range.written = 0
      BY <1>7, <2>1, <2>2 DEF Push, GpuBytes
    <2>3. CASE range.written # 0
      <3>1. /\ Entry(done) \in SyncEntry /\ Entry(done).done = done
            /\ Bytes(Entry(done).offset, Entry(done).count) = LentBytes
        BY <1>1, <1>7, <2>3 DEF Push, Entry, SyncEntry, BufferRange, LentBytes, RingInv,
                                RangeFits, TypeOK
      <3>2. sync_entries' = Append(sync_entries, Entry(done))
        BY <1>7, <2>3 DEF Push
      <3> QED BY <1>1, <2>1, <3>1, <3>2, PendingAppend DEF GpuBytes
    <2> QED BY <2>2, <2>3
  <1>8. ASSUME NEW i \in DOMAIN sync_entries, Signal(i)
        PROVE  GpuBytes' \in SUBSET GpuBytes /\ UNCHANGED LentBytes
    <2>1. UNCHANGED LentBytes
      BY <1>8 DEF Signal, LentBytes
    <2>2. sync_entries' \in Seq(SyncEntry)
      BY DEF RingInv, TypeOK
    <2>3. ASSUME NEW b, b \in PendingBytes(sync_entries')
          PROVE  b \in PendingBytes(sync_entries)
      <3>1. PICK j \in 1 .. Len(sync_entries') :
              ~sync_entries'[j].done /\ b \in Bytes(sync_entries'[j].offset, sync_entries'[j].count)
        BY <2>2, <2>3, PendingByte
      <3>2. /\ j \in 1 .. Len(sync_entries)
            /\ j # i => sync_entries'[j] = sync_entries[j]
            /\ sync_entries'[i].done
        <4>1. /\ DOMAIN sync_entries = 1 .. Len(sync_entries)
              /\ Len(sync_entries') = Len(sync_entries)
          BY <1>1, <1>8 DEF Signal
        <4>2. PICK e \in SyncEntry : e = sync_entries[i]
          BY <1>1, <1>8
        <4>3. sync_entries' = [sync_entries EXCEPT ![i] = [e EXCEPT !.done = TRUE]]
          BY <1>8, <4>2 DEF Signal
        <4>4. [e EXCEPT !.done = TRUE].done
          BY <4>2 DEF SyncEntry
        <4> QED BY <1>1, <1>8, <3>1, <4>1, <4>3, <4>4
      <3> QED BY <1>1, <3>1, <3>2, PendingByte
    <2> QED BY <2>1, <2>3 DEF GpuBytes
  <1> QED BY <1>2, <1>3, <1>4, <1>5, <1>6, <1>7, <1>8
          DEF Next, OpenLoop, Submit, Cancel, Loans!Next, Loans!Trim, Loans!HandOver,
              Loans!Complete

(* Every step of the ring is a step of BufferLoans, or changes no loan.      *)
THEOREM LendsAsPromised == Spec => LendsOnlyFreeBytes
  <1>1. Init => Loans!Init
    BY DEF Init, NoRange, LentBytes, GpuBytes, PendingBytes, Loans!Init
  <1> QED BY <1>1, LoansStep, AlwaysRingInv, PTL DEF Spec, LendsOnlyFreeBytes, Loans!Spec

-----------------------------------------------------------------------------
(* The ring buffer of a socket *)

(* A full buffer has equal offsets. *)
RingOK(r) == r \in Ring /\ (r.full => r.read = r.write)

QueueInv == RingOK(ring) /\ moved \in Seq(Byte)

-----------------------------------------------------------------------------
(* Operators on rings *)

(* What a change of the offsets leaves. *)
LEMMA Consumed ==
  ASSUME NEW r \in Ring, NEW n, Wrapped(r.read + n) \in Offset
  PROVE  LET q == EndConsume(r, n)
         IN  /\ q \in Ring
             /\ q.buffer = r.buffer /\ q.write = r.write
             /\ q.read = Wrapped(r.read + n) /\ ~q.full
  BY DEF EndConsume, Ring

LEMMA Produced ==
  ASSUME NEW r \in Ring, NEW n, Wrapped(r.write + n) \in Offset
  PROVE  LET q == EndProduce(r, n)
         IN  /\ q \in Ring
             /\ q.buffer = r.buffer /\ q.read = r.read
             /\ q.write = Wrapped(r.write + n)
             /\ q.full <=> q.write = q.read
  BY DEF EndProduce, Ring

(* With Z bytes between R and W, the one at distance k - 1 from R is at this  *)
(* distance from W.                                                         *)
LEMMA Distance ==
  ASSUME NEW N \in Nat, NEW R \in 0 .. N - 1, NEW W \in 0 .. N - 1, NEW Z \in Nat,
         Z = IF W >= R THEN W - R ELSE N + W - R,
         NEW k \in 1 .. N,
         NEW i, i = IF R + k - 1 < N THEN R + k - 1 ELSE R + k - 1 - N
  PROVE  1 + (IF i >= W THEN i - W ELSE i - W + N) = IF k <= Z THEN N - Z + k ELSE k - Z
  <1>1. CASE W >= R /\ R + k - 1 < N
    BY <1>1
  <1>2. CASE W >= R /\ ~(R + k - 1 < N)
    BY <1>2
  <1>3. CASE ~(W >= R) /\ R + k - 1 < N
    BY <1>3
  <1>4. CASE ~(W >= R) /\ ~(R + k - 1 < N)
    BY <1>4
  <1> QED BY <1>1, <1>2, <1>3, <1>4

LEMMA ConcatGives ==
  ASSUME NEW s \in Seq(Byte), NEW t \in Seq(Byte), NEW m \in Nat, m = Len(s) + Len(t)
  PROVE  /\ s \o t \in Seq(Byte)
         /\ Len(s \o t) = m
         /\ \A k \in 1 .. m : (s \o t)[k] = IF k <= Len(s) THEN s[k] ELSE t[k - Len(s)]
  BY ConcatProperties

LEMMA SizeInRange ==
  ASSUME NEW r, RingOK(r)
  PROVE  Size(r) \in 0 .. MaxSize
  BY MaxSizeAssumption DEF RingOK, Ring, Offset, Size

(* What peek() gives: the byte number k is at offset read + k - 1.           *)
LEMMA PeekGives ==
  ASSUME NEW r, RingOK(r), NEW n \in Nat
  PROVE  /\ Peek(r, n) \in Seq(Byte)
         /\ Len(Peek(r, n)) = Least(n, Size(r))
         /\ \A k \in 1 .. Least(n, Size(r)) :
              Peek(r, n)[k] = r.buffer[Wrapped(r.read + k - 1)]
  <1> DEFINE m == Least(n, Size(r))
  <1>1. m \in Nat /\ m <= MaxSize
    BY SizeInRange, MaxSizeAssumption DEF Least
  <1>2. \A k \in 1 .. m : r.buffer[Wrapped(r.read + k - 1)] \in Byte
    <2> SUFFICES ASSUME NEW k \in 1 .. m
                 PROVE  r.buffer[Wrapped(r.read + k - 1)] \in Byte
      OBVIOUS
    <2>1. Wrapped(r.read + k - 1) \in Offset
      BY <1>1, MaxSizeAssumption DEF RingOK, Ring, Offset, Wrapped
    <2> QED BY <2>1 DEF RingOK, Ring
  <1>3. Peek(r, n) \in [1 .. m -> Byte]
    BY <1>2 DEF Peek
  <1>4. Peek(r, n) \in Seq(Byte)
    BY <1>1, <1>3, SeqDef
  <1>5. Len(Peek(r, n)) = m
    BY <1>1, <1>3, <1>4, LenProperties
  <1> QED BY <1>4, <1>5 DEF Peek

LEMMA ContentsGives ==
  ASSUME NEW r, RingOK(r)
  PROVE  /\ Contents(r) \in Seq(Byte)
         /\ Len(Contents(r)) = Size(r)
         /\ \A k \in 1 .. Size(r) :
              Contents(r)[k] = r.buffer[Wrapped(r.read + k - 1)]
  <1>1. MaxSize \in Nat /\ Least(MaxSize, Size(r)) = Size(r)
    BY SizeInRange, MaxSizeAssumption DEF Least
  <1> QED BY <1>1, PeekGives DEF Contents

(* Bytes that fit are put at the end of the queue. *)
LEMMA ProduceAppends ==
  ASSUME NEW r, RingOK(r), NEW bytes \in Seq(Byte),
         0 < Len(bytes), Len(bytes) <= FreeSize(r)
  PROVE  LET q == EndProduce(Stored(r, bytes), Len(bytes))
         IN  RingOK(q) /\ Contents(q) = Contents(r) \o bytes
  <1> DEFINE n == Len(bytes)
             q == EndProduce(Stored(r, bytes), n)
             At(i) == 1 + IF i >= r.write THEN i - r.write ELSE i - r.write + MaxSize
  <1>1. n \in Nat /\ n > 0 /\ Size(r) \in Nat /\ n + Size(r) <= MaxSize
    BY SizeInRange, MaxSizeAssumption DEF FreeSize
  <1>2. ~r.full /\ r.read \in Offset /\ r.write \in Offset
    BY <1>1, MaxSizeAssumption DEF Size, RingOK, Ring
  <1>3. /\ Stored(r, bytes) \in Ring
        /\ Stored(r, bytes).read = r.read /\ Stored(r, bytes).write = r.write
        /\ \A i \in Offset :
             Stored(r, bytes).buffer[i] = IF At(i) <= n THEN bytes[At(i)] ELSE r.buffer[i]
    <2> DEFINE buffer == [i \in Offset |-> IF At(i) <= n THEN bytes[At(i)] ELSE r.buffer[i]]
    <2>1. \A i \in Offset : At(i) <= n => At(i) \in 1 .. n
      BY <1>1, <1>2, MaxSizeAssumption DEF Offset
    <2>2. \A i \in Offset : IF At(i) <= n THEN bytes[At(i)] \in Byte ELSE r.buffer[i] \in Byte
      BY <2>1, ElementOfSeq DEF RingOK, Ring
    <2>3. buffer \in [Offset -> Byte]
      BY <2>2
    <2>4. Stored(r, bytes) = [r EXCEPT !.buffer = buffer]
      BY DEF Stored, RingOK, Ring
    <2>5. \A i \in Offset : buffer[i] = IF At(i) <= n THEN bytes[At(i)] ELSE r.buffer[i]
      OBVIOUS
    <2> HIDE DEF buffer
    <2> QED BY <2>3, <2>4, <2>5 DEF RingOK, Ring
  <1>4. /\ q \in Ring
        /\ q.read = r.read /\ q.write = Wrapped(r.write + n)
        /\ q.full <=> q.write = q.read
        /\ \A i \in Offset :
             q.buffer[i] = IF At(i) <= n THEN bytes[At(i)] ELSE r.buffer[i]
    <2>1. Wrapped(r.write + n) \in Offset
      BY <1>1, <1>2, MaxSizeAssumption DEF Wrapped, Offset
    <2> QED BY <1>3, <2>1, Produced
  <1> HIDE DEF q, At
  <1>5. RingOK(q)
    BY <1>4 DEF RingOK
  <1>6. Size(q) = Size(r) + n
    <2>1. PICK R \in Offset, W \in Offset : R = r.read /\ W = r.write
      BY <1>2
    <2>2. Size(r) = IF W >= R THEN W - R ELSE MaxSize + W - R
      BY <1>2, <2>1 DEF Size
    <2>3. Size(q) = IF Wrapped(W + n) = R THEN MaxSize
                    ELSE IF Wrapped(W + n) >= R THEN Wrapped(W + n) - R
                    ELSE MaxSize + Wrapped(W + n) - R
      BY <1>4, <2>1 DEF Size
    <2> QED BY <1>1, <2>2, <2>3, MaxSizeAssumption DEF Wrapped, Offset
  <1>7. ASSUME NEW k \in 1 .. Size(q)
        PROVE  Contents(q)[k] = IF k <= Size(r) THEN Contents(r)[k] ELSE bytes[k - Size(r)]
    <2> DEFINE i == Wrapped(r.read + k - 1)
    <2>1. k \in Nat /\ 1 <= k /\ k <= Size(r) + n
      BY <1>1, <1>6
    <2>2. i \in Offset
      BY <1>1, <1>2, <2>1, MaxSizeAssumption DEF Wrapped, Offset
    <2>3. At(i) = IF k <= Size(r) THEN MaxSize - Size(r) + k ELSE k - Size(r)
      <3>1. PICK R \in Offset, W \in Offset : R = r.read /\ W = r.write
        BY <1>2
      <3>2. Size(r) = IF W >= R THEN W - R ELSE MaxSize + W - R
        BY <1>2, <3>1 DEF Size
      <3>3. i = IF R + k - 1 < MaxSize THEN R + k - 1 ELSE R + k - 1 - MaxSize
        BY <2>1, <3>1, MaxSizeAssumption DEF Wrapped, Offset
      <3>4. At(i) = 1 + IF i >= W THEN i - W ELSE i - W + MaxSize
        BY <3>1 DEF At
      <3> HIDE DEF i
      <3>5. /\ MaxSize \in Nat /\ Size(r) \in Nat /\ k \in 1 .. MaxSize
            /\ R \in 0 .. MaxSize - 1 /\ W \in 0 .. MaxSize - 1
        BY <1>1, <2>1, <3>1, MaxSizeAssumption DEF Offset
      <3>6. 1 + (IF i >= W THEN i - W ELSE i - W + MaxSize)
              = IF k <= Size(r) THEN MaxSize - Size(r) + k ELSE k - Size(r)
        BY <3>2, <3>3, <3>5, Distance
      <3> QED BY <3>4, <3>6
    <2>4. Contents(q)[k] = q.buffer[i]
      BY <1>4, <1>5, ContentsGives
    <2>5. q.buffer[i] = IF At(i) <= n THEN bytes[At(i)] ELSE r.buffer[i]
      BY <1>4, <2>2
    <2>6. CASE k <= Size(r)
      <3>1. Contents(r)[k] = r.buffer[i]
        BY <2>1, <2>6, ContentsGives
      <3>2. ~(At(i) <= n)
        BY <1>1, <2>1, <2>3, <2>6, MaxSizeAssumption
      <3> QED BY <2>4, <2>5, <2>6, <3>1, <3>2
    <2>7. CASE ~(k <= Size(r))
      <3>1. At(i) = k - Size(r) /\ At(i) <= n
        BY <1>1, <2>1, <2>3, <2>7
      <3> QED BY <2>4, <2>5, <2>7, <3>1
    <2> QED BY <2>6, <2>7
  <1>8. Contents(q) = Contents(r) \o bytes
    <2>1. /\ Contents(q) \in Seq(Byte) /\ Len(Contents(q)) = Size(q)
          /\ Contents(r) \in Seq(Byte) /\ Len(Contents(r)) = Size(r)
      BY <1>5, ContentsGives
    <2>2. Size(q) \in Nat /\ Size(q) = Len(Contents(r)) + Len(bytes)
      BY <1>1, <1>6, <2>1
    <2> HIDE DEF n
    <2>3. /\ Contents(r) \o bytes \in Seq(Byte)
          /\ Len(Contents(r) \o bytes) = Size(q)
          /\ \A k \in 1 .. Size(q) :
               (Contents(r) \o bytes)[k] =
                 IF k <= Size(r) THEN Contents(r)[k] ELSE bytes[k - Size(r)]
      BY <2>1, <2>2, ConcatGives
    <2> QED BY <1>7, <2>1, <2>3, SeqEqual
  <1> QED BY <1>5, <1>8 DEF q

(* Bytes that are taken out were the first of the queue. *)
LEMMA ConsumeTakes ==
  ASSUME NEW r, RingOK(r), NEW n \in Nat, 0 < n, n <= Size(r)
  PROVE  LET q == EndConsume(r, n)
         IN  RingOK(q) /\ Contents(r) = Peek(r, n) \o Contents(q)
  <1> DEFINE q == EndConsume(r, n)
  <1>1. Size(r) \in Nat /\ Size(r) <= MaxSize /\ r.read \in Offset /\ r.write \in Offset
    BY SizeInRange, MaxSizeAssumption DEF RingOK, Ring
  <1>2. /\ q \in Ring
        /\ q.buffer = r.buffer /\ q.write = r.write
        /\ q.read = Wrapped(r.read + n) /\ ~q.full
    <2>1. Wrapped(r.read + n) \in Offset
      BY <1>1, MaxSizeAssumption DEF Wrapped, Offset
    <2> QED BY <2>1, Consumed DEF RingOK
  <1> HIDE DEF q
  <1>3. RingOK(q)
    BY <1>2 DEF RingOK
  <1>4. PICK R \in Offset, W \in Offset :
          /\ R = r.read /\ W = r.write
          /\ Size(r) = IF r.full THEN MaxSize ELSE IF W >= R THEN W - R ELSE MaxSize + W - R
          /\ r.full => R = W
    BY <1>1 DEF Size, RingOK
  <1>5. Size(q) = Size(r) - n
    <2>1. Size(q) = IF W >= Wrapped(R + n) THEN W - Wrapped(R + n)
                    ELSE MaxSize + W - Wrapped(R + n)
      BY <1>2, <1>4 DEF Size
    <2> QED BY <1>1, <1>4, <2>1, MaxSizeAssumption DEF Wrapped, Offset
  <1>6. /\ Peek(r, n) \in Seq(Byte) /\ Len(Peek(r, n)) = n
        /\ \A k \in 1 .. n : Peek(r, n)[k] = r.buffer[Wrapped(R + k - 1)]
    <2>1. Least(n, Size(r)) = n
      BY <1>1 DEF Least
    <2> QED BY <1>4, <2>1, PeekGives
  <1>7. /\ Contents(q) \in Seq(Byte) /\ Len(Contents(q)) = Size(r) - n
        /\ \A k \in 1 .. Size(r) - n :
             Contents(q)[k] = r.buffer[Wrapped(Wrapped(R + n) + k - 1)]
    BY <1>2, <1>3, <1>4, <1>5, ContentsGives
  <1>8. /\ Contents(r) \in Seq(Byte) /\ Len(Contents(r)) = Size(r)
        /\ \A k \in 1 .. Size(r) : Contents(r)[k] = r.buffer[Wrapped(R + k - 1)]
    BY <1>4, ContentsGives
  <1>9. /\ Peek(r, n) \o Contents(q) \in Seq(Byte)
        /\ Len(Peek(r, n) \o Contents(q)) = Size(r)
        /\ \A k \in 1 .. Size(r) :
             (Peek(r, n) \o Contents(q))[k] =
               IF k <= n THEN Peek(r, n)[k] ELSE Contents(q)[k - n]
    <2>1. /\ Size(r) \in Nat /\ Size(r) = Len(Peek(r, n)) + Len(Contents(q))
          /\ Peek(r, n) \in Seq(Byte) /\ Contents(q) \in Seq(Byte) /\ Len(Peek(r, n)) = n
      BY <1>1, <1>6, <1>7
    <2> DEFINE taken == Peek(r, n)
               left == Contents(q)
               size == Size(r)
    <2> HIDE DEF taken, left, size
    <2>2. /\ size \in Nat /\ size = Len(taken) + Len(left) /\ Len(taken) = n
          /\ taken \in Seq(Byte) /\ left \in Seq(Byte)
      BY <2>1 DEF taken, left, size
    <2>3. /\ taken \o left \in Seq(Byte)
          /\ Len(taken \o left) = size
          /\ \A k \in 1 .. size :
               (taken \o left)[k] = IF k <= n THEN taken[k] ELSE left[k - n]
      BY <2>2, ConcatGives
    <2> QED BY <2>3 DEF taken, left, size
  <1>10. ASSUME NEW k \in 1 .. Size(r)
         PROVE  Contents(r)[k] = (Peek(r, n) \o Contents(q))[k]
    <2>1. k \in Nat /\ Contents(r)[k] = r.buffer[Wrapped(R + k - 1)]
      BY <1>1, <1>8
    <2>2. CASE k <= n
      BY <1>6, <1>9, <2>1, <2>2
    <2>3. CASE ~(k <= n)
      <3>1. k - n \in 1 .. Size(r) - n
        BY <1>1, <2>3
      <3>2. Wrapped(Wrapped(R + n) + (k - n) - 1) = Wrapped(R + k - 1)
        BY <1>1, <2>1, <2>3, MaxSizeAssumption DEF Wrapped, Offset
      <3> QED BY <1>7, <1>9, <2>1, <2>3, <3>1, <3>2
    <2> QED BY <2>2, <2>3
  <1>11. Contents(r) = Peek(r, n) \o Contents(q)
    BY <1>8, <1>9, <1>10, SeqEqual
  <1> QED BY <1>3, <1>11 DEF q

(* There is nothing in a buffer with equal offsets that is not full. *)
LEMMA NothingInside ==
  ASSUME NEW r, RingOK(r), ~r.full, r.read = r.write
  PROVE  Contents(r) = << >>
  <1>1. Size(r) = 0
    BY MaxSizeAssumption DEF Size, RingOK, Ring, Offset
  <1> QED BY <1>1, ContentsGives, EmptySeq

LEMMA NewIsEmpty ==
  RingOK(NewRing) /\ Contents(NewRing) = << >>
  <1>1. NewRing \in Ring
    BY MaxSizeAssumption, BlankAssumption DEF NewRing, Ring, Offset
  <1>2. NewRing.read = NewRing.write /\ ~NewRing.full
    BY DEF NewRing
  <1> QED BY <1>1, <1>2, NothingInside DEF RingOK

LEMMA ResetEmpties ==
  ASSUME NEW r, RingOK(r)
  PROVE  RingOK(Reset(r)) /\ Contents(Reset(r)) = << >>
  <1>1. /\ Reset(r) \in Ring /\ ~Reset(r).full
        /\ Reset(r).read = Reset(r).write
    <2>1. 0 \in Offset
      BY MaxSizeAssumption DEF Offset
    <2> QED BY <2>1 DEF Reset, RingOK, Ring
  <1> QED BY <1>1, NothingInside DEF RingOK

(* Some of the bytes that a caller has are accepted. *)
LEMMA AcceptedFits ==
  ASSUME NEW r, RingOK(r), NEW bytes \in Seq(Byte)
  PROVE  /\ Accepted(r, bytes) \in Seq(Byte)
         /\ Len(Accepted(r, bytes)) = Least(FreeSize(r), Len(bytes))
  <1> DEFINE n == Least(FreeSize(r), Len(bytes))
  <1>1. n \in Nat /\ n <= Len(bytes) /\ 1 \in Int /\ n \in Int
    BY SizeInRange, MaxSizeAssumption DEF FreeSize, Least
  <1>2. \A i \in 1 .. n : bytes[i] \in Byte
    BY <1>1, ElementOfSeq
  <1>3. Len(SubSeq(bytes, 1, n)) = IF 1 <= n THEN n - 1 + 1 ELSE 0
    BY <1>1, <1>2, SubSeqProperties
  <1>4. SubSeq(bytes, 1, n) \in Seq(Byte)
    BY <1>1, <1>2, SubSeqProperties
  <1> HIDE DEF n
  <1>5. Len(SubSeq(bytes, 1, n)) = n
    BY <1>1, <1>3
  <1> QED BY <1>4, <1>5 DEF Accepted, n

LEMMA StringsAreSequences ==
  ASSUME NEW n \in Nat
  PROVE  Strings(n) \subseteq Seq(Byte)
  BY SeqDef DEF Strings

-----------------------------------------------------------------------------
(* Every call keeps the buffer right and is a step of a queue. *)
Step == QueueInv' /\ [Queue!Next]_(Queue!vars)

LEMMA QueueSteps ==
  /\ QueueInv' /\ Contents(ring') = Contents(ring) \o moved' => Step
  /\ QueueInv' /\ Contents(ring) = moved' \o Contents(ring') => Step
  /\ QueueInv' /\ Contents(ring') = << >> /\ moved' = << >> => Step
  <1>1. QueueInv' => Len(Contents(ring')) <= MaxSize
    <2>1. QueueInv' => RingOK(ring')
      BY DEF QueueInv, RingOK
    <2> QED BY <2>1, SizeInRange, ContentsGives
  <1> QED BY <1>1 DEF Step, Queue!Next, Queue!Put, Queue!Take, Queue!Clear

LEMMA WriteStep ==
  ASSUME QueueInv, NEW bytes \in Seq(Byte), WriteBytes(bytes)
  PROVE  Step
  <1> DEFINE accepted == Accepted(ring, bytes)
  <1>1. RingOK(ring) /\ accepted \in Seq(Byte) /\ Len(accepted) <= FreeSize(ring)
    BY AcceptedFits, SizeInRange, MaxSizeAssumption DEF QueueInv, FreeSize, Least
  <1>2. moved' = accepted /\ ring' = Write(ring, bytes)
    BY DEF WriteBytes
  <1>3. CASE accepted = << >>
    <2>1. ring' = ring
      BY <1>2, <1>3 DEF Write
    <2>2. Contents(ring) \o << >> = Contents(ring)
      BY <1>1, ContentsGives, ConcatEmptySeq
    <2>3. QueueInv'
      BY <1>1, <1>2, <2>1 DEF QueueInv, RingOK
    <2> QED BY <1>2, <1>3, <2>1, <2>2, <2>3, QueueSteps
  <1>4. CASE accepted # << >>
    <2>1. Len(accepted) > 0
      BY <1>1, <1>4, EmptySeq
    <2>2. ring' = EndProduce(Stored(ring, accepted), Len(accepted))
      BY <1>2, <1>4 DEF Write
    <2> HIDE DEF accepted
    <2>3. RingOK(ring') /\ Contents(ring') = Contents(ring) \o accepted
      BY <1>1, <2>1, <2>2, ProduceAppends
    <2>4. QueueInv'
      BY <1>1, <1>2, <2>3 DEF QueueInv, RingOK
    <2> QED BY <1>2, <2>3, <2>4, QueueSteps
  <1> QED BY <1>3, <1>4

LEMMA ProduceStep ==
  ASSUME QueueInv, NEW bytes \in Seq(Byte), bytes # << >>, Produce(bytes)
  PROVE  Step
  <1>1. Len(bytes) > 0 /\ Len(bytes) <= FreeSize(ring)
    <2>1. RingOK(ring) /\ Len(bytes) \in Nat /\ Len(bytes) > 0
      BY EmptySeq DEF QueueInv
    <2>2. FreeSize(ring) \in Int /\ MaxSize - ring.write \in Int
      BY <2>1, SizeInRange, MaxSizeAssumption DEF FreeSize, RingOK, Ring, Offset
    <2>3. Len(bytes) <= Least(FreeSize(ring), MaxSize - ring.write)
      BY DEF Produce, FreeBeforeWrap
    <2> QED BY <2>1, <2>2, <2>3 DEF Least
  <1>2. /\ RingOK(ring') /\ Contents(ring') = Contents(ring) \o bytes
        /\ moved' = bytes
    BY <1>1, ProduceAppends DEF Produce, QueueInv
  <1>3. QueueInv'
    BY <1>2 DEF QueueInv, RingOK
  <1> QED BY <1>2, <1>3, QueueSteps

(* Taking n bytes out, in either style. *)
LEMMA TakeStep ==
  ASSUME QueueInv, NEW n \in Nat, 0 < n, n <= Size(ring),
         ring' = EndConsume(ring, n), moved' = Peek(ring, n)
  PROVE  Step
  <1>1. RingOK(ring') /\ Contents(ring) = Peek(ring, n) \o Contents(ring')
    BY ConsumeTakes DEF QueueInv
  <1>2. moved' \in Seq(Byte)
    BY PeekGives DEF QueueInv
  <1>3. QueueInv'
    BY <1>1, <1>2 DEF QueueInv, RingOK
  <1> QED BY <1>1, <1>3, QueueSteps

LEMMA ReadStep ==
  ASSUME QueueInv, NEW n \in Nat, ReadBytes(n)
  PROVE  Step
  <1> DEFINE count == Least(n, Size(ring))
  <1>1. RingOK(ring) /\ count \in Nat /\ count <= Size(ring) /\ Size(ring) \in Nat
    BY SizeInRange, MaxSizeAssumption DEF QueueInv, Least
  <1>2. moved' = Peek(ring, count)
    <2>1. Least(count, Size(ring)) = count
      BY <1>1 DEF Least
    <2> QED BY <2>1 DEF ReadBytes, Peek
  <1>3. CASE count = 0
    <2>1. ring' = ring
      BY <1>3 DEF ReadBytes, Read
    <2>2. moved' = << >>
      <3>1. moved' \in Seq(Byte) /\ Len(moved') = 0
        BY <1>1, <1>2, <1>3, PeekGives DEF Least
      <3> QED BY <3>1, EmptySeq
    <2>3. Contents(ring) = << >> \o Contents(ring)
      BY <1>1, ContentsGives, ConcatEmptySeq
    <2>4. QueueInv'
      BY <1>1, <2>1, <2>2, EmptySeq DEF QueueInv, RingOK
    <2> QED BY <2>1, <2>2, <2>3, <2>4, QueueSteps
  <1>4. CASE count # 0
    <2>1. ring' = EndConsume(ring, count) /\ 0 < count
      BY <1>1, <1>4 DEF ReadBytes, Read
    <2> QED BY <1>1, <1>2, <2>1, TakeStep
  <1> QED BY <1>3, <1>4

LEMMA NextStep ==
  ASSUME QueueInv, [RingNext]_ringVars
  PROVE  Step
  <1>1. ASSUME NEW bytes \in Strings(MaxSize), WriteBytes(bytes) PROVE Step
    BY <1>1, StringsAreSequences, WriteStep, MaxSizeAssumption
  <1>2. ASSUME NEW bytes \in Strings(MaxSize), bytes # << >>, Produce(bytes) PROVE Step
    BY <1>2, StringsAreSequences, ProduceStep, MaxSizeAssumption
  <1>3. ASSUME NEW n \in 1 .. MaxSize, Consume(n) PROVE Step
    <2>1. n \in Nat /\ 0 < n /\ n <= Size(ring)
      BY <1>3, SizeInRange, MaxSizeAssumption
         DEF Consume, UsedBeforeWrap, Least, QueueInv, RingOK, Ring, Offset
    <2> QED BY <1>3, <2>1, TakeStep DEF Consume
  <1>4. ASSUME NEW n \in 0 .. MaxSize, ReadBytes(n) PROVE Step
    BY <1>4, ReadStep, MaxSizeAssumption
  <1>5. CASE ResetRing
    <2>1. RingOK(ring') /\ Contents(ring') = << >> /\ moved' = << >>
      BY <1>5, ResetEmpties DEF ResetRing, QueueInv
    <2>2. QueueInv'
      BY <2>1, EmptySeq DEF QueueInv, RingOK
    <2> QED BY <2>1, <2>2, QueueSteps
  <1>6. CASE UNCHANGED ringVars
    BY <1>6 DEF ringVars, Step, QueueInv, RingOK, Queue!vars
  <1> QED BY <1>1, <1>2, <1>3, <1>4, <1>5, <1>6 DEF RingNext

LEMMA InitQueue == RingInit => QueueInv /\ Queue!Init
  BY NewIsEmpty, EmptySeq DEF RingInit, QueueInv, Queue!Init

LEMMA AlwaysQueueInv == RingSpec => []QueueInv
  <1>1. QueueInv /\ [RingNext]_ringVars => QueueInv'
    BY NextStep DEF Step
  <1> QED BY <1>1, InitQueue, PTL DEF RingSpec

-----------------------------------------------------------------------------
(* The offsets stay inside the buffer. *)
THEOREM OffsetsStayInside == RingSpec => []OffsetsInside
  <1>1. QueueInv => OffsetsInside
    BY DEF QueueInv, RingOK, OffsetsInside
  <1> QED BY <1>1, AlwaysQueueInv, PTL

(* Whatever the size of the buffer and the calls, bytes come out of it in the *)
(* order in which they went in, none lost and none twice.                    *)
THEOREM RingIsQueue == RingSpec => IsQueue
  <1>1. QueueInv /\ [RingNext]_ringVars => [Queue!Next]_(Queue!vars)
    BY NextStep DEF Step
  <1> QED BY <1>1, InitQueue, AlwaysQueueInv, PTL DEF RingSpec, IsQueue, Queue!Spec

-----------------------------------------------------------------------------
(* Parts of a sequence *)

(* What comes after the first m elements, up to the element n.               *)
Slice(s, m, n) == SubSeq(s, m + 1, n)

(* A slice is what has its length and its elements. *)
CutFrom(t, s, m, n) == Len(t) = n - m /\ \A k \in 1 .. n - m : t[k] = s[m + k]

LEMMA SliceGives ==
  ASSUME NEW X, NEW s \in Seq(X), NEW m \in Nat, NEW n \in Nat, m <= n, n <= Len(s)
  PROVE  Slice(s, m, n) \in Seq(X) /\ CutFrom(Slice(s, m, n), s, m, n)
<1>1. \A i \in m + 1 .. n : s[i] \in X
  <2>1. Len(s) \in Nat
    OBVIOUS
  <2> QED BY <2>1, ElementOfSeq
<1>2. PICK p \in Int : p = m + 1
  OBVIOUS
<1>3. /\ SubSeq(s, p, n) \in Seq(X)
      /\ Len(SubSeq(s, p, n)) = IF p <= n THEN n - p + 1 ELSE 0
      /\ \A i \in 1 .. n - p + 1 : SubSeq(s, p, n)[i] = s[p + i - 1]
  BY <1>1, <1>2, SubSeqProperties
<1>4. \A i \in 1 .. n - m : i \in 1 .. n - p + 1 /\ p + i - 1 = m + i
  BY <1>2
<1>5. Len(SubSeq(s, p, n)) = n - m
  BY <1>2, <1>3
<1> QED BY <1>2, <1>3, <1>4, <1>5 DEF Slice, CutFrom

LEMMA IsSlice ==
  ASSUME NEW X, NEW s \in Seq(X), NEW m \in Nat, NEW n \in Nat, m <= n, n <= Len(s),
         NEW t \in Seq(X), CutFrom(t, s, m, n)
  PROVE  t = Slice(s, m, n)
<1> DEFINE u == Slice(s, m, n)
<1>1. u \in Seq(X) /\ CutFrom(u, s, m, n)
  BY SliceGives
<1> HIDE DEF u
<1>2. Len(t) = Len(u) /\ \A k \in 1 .. Len(t) : t[k] = u[k]
  BY <1>1 DEF CutFrom
<1>3. t = u
  BY <1>1, <1>2, SeqEqual
<1> QED BY <1>3 DEF u

LEMMA SliceEnds ==
  ASSUME NEW X, NEW s \in Seq(X)
  PROVE  /\ Slice(s, 0, Len(s)) = s
         /\ \A m \in Nat : m <= Len(s) => Slice(s, m, m) = << >>
<1>1. Slice(s, 0, Len(s)) = s
  BY SubSeqFull DEF Slice
<1>2. ASSUME NEW m \in Nat, m <= Len(s) PROVE Slice(s, m, m) = << >>
  <2>1. Slice(s, m, m) \in Seq(X) /\ Len(Slice(s, m, m)) = 0
    BY <1>2, SliceGives DEF CutFrom
  <2> QED BY <2>1, EmptySeq
<1> QED BY <1>1, <1>2

LEMMA SliceJoin ==
  ASSUME NEW X, NEW s \in Seq(X), NEW m \in Nat, NEW k \in Nat, NEW n \in Nat,
         m <= k, k <= n, n <= Len(s)
  PROVE  Slice(s, m, k) \o Slice(s, k, n) = Slice(s, m, n)
<1>1. /\ Len(s) \in Nat
      /\ m + 1 \in 1 .. Len(s) + 1 /\ k \in (m + 1) - 1 .. Len(s) /\ n \in k .. Len(s)
  OBVIOUS
<1> QED BY <1>1, ConcatAdjacentSubSeq DEF Slice

(* A slice of a slice: the first k elements, and what comes after them.      *)
SplitsAt(s, m, n, k) ==
  /\ SubSeq(Slice(s, m, n), 1, k) = Slice(s, m, m + k)
  /\ SubSeq(Slice(s, m, n), k + 1, Len(Slice(s, m, n))) = Slice(s, m + k, n)

LEMMA SliceSplit ==
  ASSUME NEW X, NEW s \in Seq(X), NEW m \in Nat, NEW n \in Nat, m <= n, n <= Len(s),
         NEW k \in Nat, k <= n - m
  PROVE  SplitsAt(s, m, n, k)
<1> DEFINE t == Slice(s, m, n)
<1>1. t \in Seq(X) /\ CutFrom(t, s, m, n)
  BY SliceGives
<1> HIDE DEF t
<1>2. PICK z \in Nat : z = n - m
  OBVIOUS
<1>3. Len(s) \in Nat /\ Len(t) = z
  BY <1>1, <1>2 DEF CutFrom
<1>4. Slice(t, 0, k) \in Seq(X) /\ CutFrom(Slice(t, 0, k), t, 0, k)
  BY <1>1, <1>2, <1>3, SliceGives
<1>5. Slice(t, 0, k) = Slice(s, m, m + k)
  <2>1. PICK e \in Nat : e = m + k
    OBVIOUS
  <2>2. m <= e /\ e <= Len(s)
    BY <1>3, <2>1
  <2>3. ASSUME NEW i \in 1 .. e - m PROVE Slice(t, 0, k)[i] = s[m + i]
    <3>1. i \in 1 .. k - 0 /\ 0 + i = i /\ i \in 1 .. n - m
      BY <2>1
    <3> QED BY <1>1, <1>4, <3>1 DEF CutFrom
  <2>4. CutFrom(Slice(t, 0, k), s, m, e)
    BY <1>4, <2>1, <2>3 DEF CutFrom
  <2>5. Slice(t, 0, k) = Slice(s, m, e)
    BY <1>4, <2>2, <2>4, IsSlice
  <2> QED BY <2>1, <2>5
<1>6. Slice(t, k, z) = Slice(s, m + k, n)
  <2>0. Slice(t, k, z) \in Seq(X) /\ CutFrom(Slice(t, k, z), t, k, z)
    BY <1>1, <1>2, <1>3, SliceGives
  <2>1. PICK e \in Nat : e = m + k
    OBVIOUS
  <2>2. e <= n /\ n - e = z - k
    BY <1>2, <2>1
  <2>3. ASSUME NEW i \in 1 .. n - e PROVE Slice(t, k, z)[i] = s[e + i]
    <3>1. i \in 1 .. z - k /\ k + i \in 1 .. n - m /\ m + (k + i) = e + i
      BY <1>2, <2>1
    <3> QED BY <1>1, <2>0, <3>1 DEF CutFrom
  <2>4. CutFrom(Slice(t, k, z), s, e, n)
    BY <2>0, <2>2, <2>3 DEF CutFrom
  <2>5. Slice(t, k, z) = Slice(s, e, n)
    BY <2>0, <2>2, <2>4, IsSlice
  <2> QED BY <2>1, <2>5
<1>7. SubSeq(t, 1, k) = Slice(t, 0, k) /\ SubSeq(t, k + 1, Len(t)) = Slice(t, k, z)
  BY <1>3 DEF Slice
<1> QED BY <1>5, <1>6, <1>7 DEF t, SplitsAt

(* What is put at the end of a sequence changes no slice of it. *)
LEMMA SliceOfLonger ==
  ASSUME NEW X, NEW s \in Seq(X), NEW t \in Seq(X)
  PROVE  /\ s \o t \in Seq(X) /\ Len(s \o t) = Len(s) + Len(t)
         /\ \A m, n \in Nat : m <= n /\ n <= Len(s) => Slice(s \o t, m, n) = Slice(s, m, n)
         /\ Slice(s \o t, Len(s), Len(s) + Len(t)) = t
<1> DEFINE u == s \o t
<1>1. /\ u \in Seq(X) /\ Len(u) = Len(s) + Len(t)
      /\ \A i \in 1 .. Len(s) + Len(t) : u[i] = IF i <= Len(s) THEN s[i] ELSE t[i - Len(s)]
  BY ConcatProperties
<1> HIDE DEF u
<1>2. Len(s) \in Nat /\ Len(t) \in Nat
  OBVIOUS
<1>3. ASSUME NEW m \in Nat, NEW n \in Nat, m <= n, n <= Len(s)
      PROVE  Slice(u, m, n) = Slice(s, m, n)
  <2>0. n <= Len(u)
    BY <1>1, <1>2, <1>3
  <2>1. Slice(u, m, n) \in Seq(X) /\ CutFrom(Slice(u, m, n), u, m, n)
    BY <1>1, <1>3, <2>0, SliceGives
  <2>2. \A k \in 1 .. n - m : u[m + k] = s[m + k]
    BY <1>1, <1>2, <1>3
  <2>3. CutFrom(Slice(u, m, n), s, m, n)
    BY <2>1, <2>2 DEF CutFrom
  <2> QED BY <1>3, <2>1, <2>3, IsSlice
<1>4. t = Slice(u, Len(s), Len(s) + Len(t))
  <2>1. PICK m \in Nat, n \in Nat : m = Len(s) /\ n = Len(s) + Len(t)
    BY <1>2
  <2>2. m <= n /\ n <= Len(u) /\ Len(t) = n - m
    BY <1>1, <1>2, <2>1
  <2>3. ASSUME NEW k \in 1 .. n - m PROVE t[k] = u[m + k]
    <3>1. m + k \in 1 .. Len(s) + Len(t) /\ ~(m + k <= Len(s)) /\ (m + k) - Len(s) = k
      BY <1>2, <2>1
    <3> QED BY <1>1, <3>1
  <2>4. CutFrom(t, u, m, n)
    BY <2>2, <2>3 DEF CutFrom
  <2>5. t = Slice(u, m, n)
    BY <1>1, <2>2, <2>4, IsSlice
  <2> QED BY <2>1, <2>5
<1> QED BY <1>1, <1>3, <1>4 DEF u

-----------------------------------------------------------------------------
(* The bytes of packets *)

(* SliceJoin of bytes. *)
LEMMA BytesJoin ==
  ASSUME NEW B \in Seq(Byte), NEW m \in Nat, NEW k \in Nat, NEW n \in Nat,
         m <= k, k <= n, n <= Len(B)
  PROVE  Slice(B, m, k) \o Slice(B, k, n) = Slice(B, m, n)
BY SliceJoin, Zenon

SentOK(s) == s \in Seq(Lengths) /\ Len(s) <= MaxPackets

(* The bytes of the packets from number i + 1 to number j. *)
Between(s, i, j) == FlattenSeq([k \in 1 .. j - i |-> Packet(i + k, s[i + k])])

(* All bytes, and where those of the packet i end. *)
Total(s) == Between(s, 0, Len(s))
EndOfPacket(s, i) == Len(Between(s, 0, i))

LEMMA PacketGives ==
  ASSUME NEW s, SentOK(s), NEW i \in 1 .. Len(s)
  PROVE  /\ s[i] \in Lengths /\ s[i] \in Nat
         /\ Packet(i, s[i]) \in Seq(Byte) /\ Len(Packet(i, s[i])) = 2 + s[i]
         /\ \A k \in 1 .. 2 + s[i] : Packet(i, s[i])[k] = Place(i, k)
<1>1. Len(s) \in Nat /\ s[i] \in Lengths
  BY LenProperties, ElementOfSeq DEF SentOK
<1>2. PICK length \in Lengths : length = s[i]
  BY <1>1
<1>3. length \in Nat /\ i \in 1 .. MaxPackets
  BY <1>1, LengthsAssumption, PacketsAssumption DEF SentOK
<1>4. \A k \in 1 .. 2 + length : Place(i, k) \in Byte
  BY <1>3, BytesAssumption DEF Place
<1>5. Packet(i, length) = [k \in 1 .. 2 + length |-> Place(i, k)]
  BY DEF Packet, Header
<1>6. PICK n \in Nat : n = 2 + length
  BY <1>3
<1>7. Packet(i, length) \in [1 .. n -> Byte]
  BY <1>4, <1>5, <1>6
<1>8. Packet(i, length) \in Seq(Byte)
  BY <1>7, SeqDef
<1>9. Len(Packet(i, length)) = n
  BY <1>7, <1>8, LenProperties
<1> QED BY <1>1, <1>2, <1>3, <1>5, <1>6, <1>8, <1>9

LEMMA BetweenList ==
  ASSUME NEW s, SentOK(s), NEW i \in Nat, NEW j \in Nat, i <= j, j <= Len(s)
  PROVE  [k \in 1 .. j - i |-> Packet(i + k, s[i + k])] \in Seq(Seq(Byte))
<1> DEFINE ss == [k \in 1 .. j - i |-> Packet(i + k, s[i + k])]
<1>1. ASSUME NEW k \in 1 .. j - i PROVE Packet(i + k, s[i + k]) \in Seq(Byte)
  <2>1. Len(s) \in Nat
    BY LenProperties DEF SentOK
  <2>2. PICK m \in 1 .. Len(s) : m = i + k
    BY <2>1
  <2>3. Packet(m, s[m]) \in Seq(Byte)
    BY PacketGives
  <2> QED BY <2>2, <2>3
<1>2. PICK n \in Nat : n = j - i
  OBVIOUS
<1>3. ss \in [1 .. n -> Seq(Byte)]
  BY <1>1, <1>2
<1> HIDE DEF ss
<1>4. ss \in Seq(Seq(Byte))
  BY <1>3, SeqDef
<1> QED BY <1>4 DEF ss

LEMMA BetweenGives ==
  ASSUME NEW s, SentOK(s), NEW i \in Nat, NEW j \in Nat, i <= j, j <= Len(s)
  PROVE  Between(s, i, j) \in Seq(Byte)
BY BetweenList, FlattenSeqType DEF Between

LEMMA BetweenNothing ==
  ASSUME NEW s, NEW i \in Nat
  PROVE  Between(s, i, i) = << >>
<1>1. [k \in 1 .. i - i |-> Packet(i + k, s[i + k])] = << >>
  <2>1. 1 .. i - i = {}
    OBVIOUS
  <2> QED BY <2>1
<1> QED BY <1>1, FlattenNothing DEF Between

LEMMA BetweenStep ==
  ASSUME NEW s, SentOK(s), NEW i \in Nat, NEW j \in Nat, i <= j, j < Len(s)
  PROVE  Between(s, i, j + 1) = Between(s, i, j) \o Packet(j + 1, s[j + 1])
<1> DEFINE Part(k) == Packet(i + k, s[i + k])
           ss == [k \in 1 .. j - i |-> Part(k)]
           tt == [k \in 1 .. (j + 1) - i |-> Part(k)]
           e == Packet(j + 1, s[j + 1])
<1>1. Len(s) \in Nat
  BY LenProperties DEF SentOK
<1>2. ss \in Seq(Seq(Byte)) /\ e \in Seq(Byte)
  <2>1. j <= Len(s)
    BY <1>1
  <2>2. PICK m \in 1 .. Len(s) : m = j + 1
    BY <1>1
  <2>3. e \in Seq(Byte)
    BY <2>2, PacketGives
  <2> QED BY <2>1, <2>3, BetweenList
<1>3. tt \in Seq(Seq(Byte))
  <2>1. j + 1 \in Nat /\ i <= j + 1 /\ j + 1 <= Len(s)
    BY <1>1
  <2> QED BY <2>1, BetweenList
<1>4. PICK n \in Nat : n = j - i
  OBVIOUS
<1>5. Part(n + 1) = e
  BY <1>4
<1>6. ss = [k \in 1 .. n |-> Part(k)] /\ tt = [k \in 1 .. n + 1 |-> Part(k)]
  BY <1>4
<1>7. FlattenSeq(ss) = Between(s, i, j) /\ FlattenSeq(tt) = Between(s, i, j + 1)
  BY DEF Between
<1> HIDE DEF Part, ss, tt, e
<1>8. Len(ss) = n /\ Len(tt) = n + 1
  <2>1. DOMAIN ss = 1 .. n /\ DOMAIN tt = 1 .. n + 1 /\ n + 1 \in Nat
    BY <1>4, <1>6
  <2>2. /\ DOMAIN ss = 1 .. Len(ss) /\ DOMAIN tt = 1 .. Len(tt)
        /\ Len(ss) \in Nat /\ Len(tt) \in Nat
    BY <1>2, <1>3, LenProperties
  <2> QED BY <2>1, <2>2
<1>9. tt = Append(ss, e)
  <2>1. /\ Append(ss, e) \in Seq(Seq(Byte)) /\ Len(Append(ss, e)) = n + 1
        /\ \A k \in 1 .. n : Append(ss, e)[k] = ss[k]
        /\ Append(ss, e)[n + 1] = e
    BY <1>2, <1>8, AppendProperties
  <2>2. ASSUME NEW k \in 1 .. n + 1 PROVE tt[k] = Append(ss, e)[k]
    <3>1. CASE k \in 1 .. n
      BY <1>6, <2>1, <3>1
    <3>2. CASE k = n + 1
      BY <1>5, <1>6, <2>1, <3>2
    <3>3. k \in 1 .. n \/ k = n + 1
      OBVIOUS
    <3> QED BY <3>1, <3>2, <3>3
  <2> QED BY <1>3, <1>8, <2>1, <2>2, SeqEqual
<1>10. FlattenSeq(Append(ss, e)) = FlattenSeq(ss) \o e
  BY <1>2, FlattenStep
<1> QED BY <1>7, <1>9, <1>10 DEF e

(* The packets lie one behind the other in the bytes of all. *)
LiesIn(s, i, j, n) ==
  /\ EndOfPacket(s, i) <= EndOfPacket(s, j)
  /\ EndOfPacket(s, j) <= EndOfPacket(s, n)
  /\ Between(s, i, j) = Slice(Between(s, 0, n), EndOfPacket(s, i), EndOfPacket(s, j))

LEMMA PacketsFollow ==
  ASSUME NEW s, SentOK(s)
  PROVE  \A n \in 0 .. Len(s) : \A i, j \in 0 .. n : i <= j => LiesIn(s, i, j, n)
<1> DEFINE B(n) == Between(s, 0, n)
           E(n) == EndOfPacket(s, n)
           P == {n \in Nat : n <= Len(s) => \A i, j \in 0 .. n : i <= j => LiesIn(s, i, j, n)}
<1>0. Len(s) \in Nat
  BY LenProperties DEF SentOK
<1>1. ASSUME NEW n \in Nat, n <= Len(s)
      PROVE  B(n) \in Seq(Byte) /\ E(n) = Len(B(n)) /\ E(n) \in Nat
  <2>1. B(n) \in Seq(Byte)
    BY <1>1, BetweenGives
  <2> QED BY <2>1 DEF EndOfPacket
<1>2. 0 \in P
  <2>1. B(0) = << >> /\ B(0) \in Seq(Byte) /\ E(0) = 0
    BY BetweenNothing, EmptySeq DEF EndOfPacket
  <2>2. Slice(B(0), 0, 0) = B(0)
    BY <2>1, SliceEnds
  <2>3. LiesIn(s, 0, 0, 0)
    BY <2>1, <2>2 DEF LiesIn
  <2> QED BY <2>3
<1>3. ASSUME NEW n \in P PROVE n + 1 \in P
  <2>0. n \in Nat
    OBVIOUS
  <2> SUFFICES ASSUME n + 1 <= Len(s), NEW i \in 0 .. n + 1, NEW j \in 0 .. n + 1, i <= j
               PROVE  LiesIn(s, i, j, n + 1)
    OBVIOUS
  <2>1. n <= Len(s) /\ n < Len(s) /\ n + 1 \in Nat
    BY <1>0, <2>0
  <2>2. \A a, b \in 0 .. n : a <= b => LiesIn(s, a, b, n)
    BY <2>1
  <2> DEFINE packet == Packet(n + 1, s[n + 1])
  <2>3. packet \in Seq(Byte)
    <3>1. PICK m \in 1 .. Len(s) : m = n + 1
      BY <2>0
    <3> QED BY <3>1, PacketGives
  <2>4. B(n) \in Seq(Byte) /\ E(n) = Len(B(n)) /\ E(n) \in Nat
    BY <1>1, <2>1
  <2>5. B(n + 1) \in Seq(Byte) /\ E(n + 1) = Len(B(n + 1)) /\ E(n + 1) \in Nat
    BY <1>1, <2>1
  <2>6. \A a \in 0 .. n : a \in Nat /\ a <= Len(s) /\ E(a) \in Nat
    BY <1>1, <2>1, <1>0
  <2>7. B(n + 1) = B(n) \o packet
    BY <2>0, <2>1, BetweenStep
  <2>8. i \in 0 .. n => Between(s, i, n + 1) = Between(s, i, n) \o packet
    BY <2>0, <2>1, BetweenStep
  <2> HIDE DEF P, packet, B, E
  <2>9. /\ E(n + 1) = E(n) + Len(packet) /\ E(n) <= E(n + 1)
        /\ \A a, b \in Nat : a <= b /\ b <= E(n) => Slice(B(n + 1), a, b) = Slice(B(n), a, b)
        /\ Slice(B(n + 1), E(n), E(n + 1)) = packet
    <3>1. /\ Len(B(n) \o packet) = Len(B(n)) + Len(packet)
          /\ \A a, b \in Nat : a <= b /\ b <= Len(B(n)) => Slice(B(n) \o packet, a, b) = Slice(B(n), a, b)
          /\ Slice(B(n) \o packet, Len(B(n)), Len(B(n)) + Len(packet)) = packet
      BY <2>3, <2>4, SliceOfLonger
    <3>2. Len(packet) \in Nat
      BY <2>3
    <3>3. E(n + 1) = E(n) + Len(packet)
      BY <2>4, <2>5, <2>7, <3>1, Zenon
    <3>4. \A a, b \in Nat : a <= b /\ b <= E(n) => Slice(B(n + 1), a, b) = Slice(B(n), a, b)
      BY <2>4, <2>7, <3>1, Zenon
    <3>5. Slice(B(n + 1), E(n), E(n + 1)) = packet
      BY <2>4, <2>7, <3>1, <3>3, Zenon
    <3>6. E(n) <= E(n + 1)
      BY <2>4, <3>2, <3>3
    <3> QED BY <3>3, <3>4, <3>5, <3>6
  <2>10. ASSUME NEW a \in 0 .. n, NEW b \in 0 .. n, a <= b
         PROVE  /\ E(a) <= E(b) /\ E(b) <= E(n)
                /\ Between(s, a, b) = Slice(B(n + 1), E(a), E(b))
    <3>1. /\ E(a) <= E(b) /\ E(b) <= E(n) /\ Between(s, a, b) = Slice(B(n), E(a), E(b))
      BY <2>2, <2>10 DEF LiesIn, B, E
    <3> QED BY <2>6, <2>9, <3>1
  <2>11. CASE j \in 0 .. n
    <3>1. i \in 0 .. n
      BY <2>0, <2>11
    <3>2. E(i) <= E(j) /\ E(j) <= E(n) /\ Between(s, i, j) = Slice(B(n + 1), E(i), E(j))
      BY <2>10, <2>11, <3>1
    <3>3. E(j) <= E(n + 1)
      BY <2>4, <2>5, <2>6, <2>9, <2>11, <3>2
    <3> QED BY <3>2, <3>3 DEF LiesIn, B, E
  <2>12. CASE j = n + 1 /\ i \in 0 .. n
    <3>1. n \in 0 .. n /\ i <= n
      BY <2>0, <2>12
    <3>2. E(i) <= E(n) /\ Between(s, i, n) = Slice(B(n + 1), E(i), E(n))
      BY <2>10, <2>12, <3>1
    <3>3. Slice(B(n + 1), E(i), E(n)) \o Slice(B(n + 1), E(n), E(n + 1)) = Slice(B(n + 1), E(i), E(n + 1))
      <4>1. E(n + 1) <= Len(B(n + 1)) /\ E(i) \in Nat
        BY <2>5, <2>6, <2>12
      <4> QED BY <2>4, <2>5, <2>9, <3>2, <4>1, SliceJoin
    <3>4. Between(s, i, n + 1) = Slice(B(n + 1), E(i), E(n + 1))
      BY <2>8, <2>9, <2>12, <3>2, <3>3
    <3>5. E(i) <= E(n + 1)
      BY <2>4, <2>5, <2>6, <2>9, <2>12, <3>2
    <3>6. E(n + 1) <= E(n + 1)
      BY <2>5
    <3> QED BY <2>12, <3>4, <3>5, <3>6 DEF LiesIn, B, E
  <2>13. CASE i = n + 1 /\ j = n + 1
    <3>1. Between(s, n + 1, n + 1) = << >>
      BY <2>1, BetweenNothing
    <3>2. Slice(B(n + 1), E(n + 1), E(n + 1)) = << >>
      BY <2>5, SliceEnds
    <3>3. E(n + 1) <= E(n + 1)
      BY <2>5
    <3> QED BY <2>13, <3>1, <3>2, <3>3 DEF LiesIn, B, E
  <2> QED BY <2>0, <2>11, <2>12, <2>13
<1>4. P \in SUBSET Nat
  OBVIOUS
<1> HIDE DEF P
<1>5. P = Nat
  BY <1>2, <1>3, <1>4, NatSetInduction
<1> QED BY <1>0, <1>5 DEF P

(* The packet d + 1 and its header, in the bytes of all. *)
LEMMA NextPacket ==
  ASSUME NEW s, SentOK(s), NEW d \in Nat, d < Len(s)
  PROVE  LET E == EndOfPacket(s, d) IN
         /\ E \in Nat /\ s[d + 1] \in Nat /\ s[d + 1] \in Lengths
         /\ EndOfPacket(s, d + 1) = E + (2 + s[d + 1])
         /\ E + (2 + s[d + 1]) <= Len(Total(s))
         /\ Slice(Total(s), E, E + (2 + s[d + 1])) = Packet(d + 1, s[d + 1])
         /\ Total(s)[E + 1] = Place(d + 1, 1) /\ Total(s)[E + 2] = Place(d + 1, 2)
<1> DEFINE E(n) == EndOfPacket(s, n)
           packet == Packet(d + 1, s[d + 1])
<1>1. Len(s) \in Nat /\ d \in 0 .. Len(s) /\ d + 1 \in 0 .. Len(s) /\ d + 1 \in Nat
  BY LenProperties DEF SentOK
<1>2. PICK m \in 1 .. Len(s) : m = d + 1
  BY <1>1
<1>3. /\ s[d + 1] \in Lengths /\ s[d + 1] \in Nat
      /\ packet \in Seq(Byte) /\ Len(packet) = 2 + s[d + 1]
      /\ \A k \in 1 .. 2 + s[d + 1] : packet[k] = Place(d + 1, k)
  BY <1>2, PacketGives
<1>4. Between(s, 0, d) \in Seq(Byte) /\ Total(s) \in Seq(Byte)
  BY <1>1, BetweenGives DEF Total
<1>5. Between(s, 0, d + 1) = Between(s, 0, d) \o packet
  BY <1>1, BetweenStep
<1>6. Between(s, d, d + 1) = packet
  <2>1. Between(s, d, d + 1) = Between(s, d, d) \o packet
    BY <1>1, BetweenStep
  <2>2. Between(s, d, d) = << >>
    BY BetweenNothing
  <2> QED BY <1>3, <2>1, <2>2, ConcatEmptySeq
<1>7. LiesIn(s, d, d + 1, Len(s))
  <2>1. Len(s) \in 0 .. Len(s) /\ d <= d + 1
    BY <1>1
  <2> QED BY <1>1, <2>1, PacketsFollow
<1>8. E(d) = Len(Between(s, 0, d)) /\ E(d + 1) = Len(Between(s, 0, d + 1))
  BY DEF EndOfPacket
<1> HIDE DEF packet, E
<1>9. E(d) \in Nat /\ E(d + 1) = E(d) + (2 + s[d + 1])
  <2>1. Len(Between(s, 0, d) \o packet) = Len(Between(s, 0, d)) + Len(packet)
    BY <1>3, <1>4, ConcatProperties
  <2>2. E(d + 1) = E(d) + Len(packet)
    BY <1>5, <1>8, <2>1, Zenon
  <2>3. E(d) \in Nat
    BY <1>4, <1>8
  <2> QED BY <1>3, <2>2, <2>3
<1>10. E(d + 1) <= Len(Total(s)) /\ packet = Slice(Total(s), E(d), E(d + 1))
  BY <1>6, <1>7 DEF LiesIn, Total, EndOfPacket, E
<1>11. \A k \in 1 .. 2 : Total(s)[E(d) + k] = Place(d + 1, k)
  <2>1. E(d + 1) \in Nat /\ E(d) <= E(d + 1)
    BY <1>3, <1>9
  <2>2. CutFrom(packet, Total(s), E(d), E(d + 1))
    BY <1>4, <1>9, <1>10, <2>1, SliceGives
  <2>3. \A k \in 1 .. 2 : k \in 1 .. E(d + 1) - E(d) /\ k \in 1 .. 2 + s[d + 1]
    BY <1>3, <1>9
  <2> QED BY <1>3, <2>2, <2>3 DEF CutFrom
<1>12. 1 \in 1 .. 2 /\ 2 \in 1 .. 2
  OBVIOUS
<1>13. Total(s)[E(d) + 1] = Place(d + 1, 1) /\ Total(s)[E(d) + 2] = Place(d + 1, 2)
  BY <1>11, <1>12
<1> QED BY <1>3, <1>9, <1>10, <1>13 DEF E, packet

(* One more packet: what was sent before stays. *)
LEMMA OneMore ==
  ASSUME NEW s, SentOK(s), NEW length \in Lengths, Len(s) < MaxPackets
  PROVE  LET t == Append(s, length) IN
         /\ SentOK(t) /\ Len(t) = Len(s) + 1
         /\ Total(t) = Total(s) \o Packet(Len(s) + 1, length)
         /\ \A i \in 0 .. Len(s) : EndOfPacket(t, i) = EndOfPacket(s, i)
         /\ \A i \in 1 .. Len(s) : t[i] = s[i]
         /\ t[Len(s) + 1] = length
<1> DEFINE t == Append(s, length)
<1>1. /\ t \in Seq(Lengths) /\ Len(t) = Len(s) + 1 /\ t[Len(s) + 1] = length
      /\ \A i \in 1 .. Len(s) : t[i] = s[i]
  BY AppendProperties DEF SentOK
<1> HIDE DEF t
<1>2. PICK n \in Nat : n = Len(s)
  BY LenProperties DEF SentOK
<1>3. SentOK(t)
  BY <1>1, <1>2, PacketsAssumption DEF SentOK
<1>4. ASSUME NEW i \in 0 .. n PROVE Between(t, 0, i) = Between(s, 0, i)
  <2>1. \A k \in 1 .. i - 0 : 0 + k \in 1 .. Len(s)
    BY <1>2
  <2>2. \A k \in 1 .. i - 0 : t[0 + k] = s[0 + k]
    BY <1>1, <2>1
  <2>3. [k \in 1 .. i - 0 |-> Packet(0 + k, t[0 + k])] = [k \in 1 .. i - 0 |-> Packet(0 + k, s[0 + k])]
    BY <2>2
  <2> QED BY <2>3 DEF Between
<1>5. Between(t, 0, n + 1) = Between(t, 0, n) \o Packet(n + 1, t[n + 1])
  <2>1. 0 <= n /\ n < Len(t)
    BY <1>1, <1>2
  <2> QED BY <1>3, <2>1, BetweenStep
<1>6. Between(t, 0, n) = Between(s, 0, n)
  BY <1>4
<1> QED BY <1>1, <1>2, <1>3, <1>4, <1>5, <1>6 DEF t, Total, EndOfPacket

-----------------------------------------------------------------------------
(* A buffer that has not come to its end *)

(* The buffer holds the bytes after number m up to number n of all bytes B,   *)
(* each at the offset that is its number.                                    *)
Holds(r, B, m, n) ==
  /\ r \in Ring /\ ~r.full /\ r.read = m /\ r.write = n
  /\ m \in Nat /\ n \in Nat /\ m <= n /\ n <= Len(B)
  /\ B \in Seq(Byte) /\ Len(B) < MaxSize
  /\ \A p \in m .. n - 1 : r.buffer[p] = B[p + 1]

LEMMA HoldsSizes ==
  ASSUME NEW r, NEW B, NEW m, NEW n, Holds(r, B, m, n)
  PROVE  /\ Size(r) = n - m /\ (IsEmpty(r) <=> m = n)
         /\ FreeSize(r) = MaxSize - (n - m)
         /\ FreeBeforeWrap(r) = MaxSize - n /\ FreeAfterWrap(r) = m
         /\ UsedBeforeWrap(r) = n - m /\ UsedAfterWrap(r) = 0
<1>1. Len(B) \in Nat /\ MaxSize \in Nat
  BY MaxSizeAssumption DEF Holds
<1>2. Size(r) = n - m /\ (IsEmpty(r) <=> m = n)
  BY DEF Holds, Size, IsEmpty
<1>3. FreeSize(r) = MaxSize - (n - m)
  BY <1>2 DEF FreeSize
<1>4. FreeBeforeWrap(r) = MaxSize - n
  BY <1>1, <1>3 DEF FreeBeforeWrap, Least, Holds
<1>5. UsedBeforeWrap(r) = n - m
  BY <1>1, <1>2 DEF UsedBeforeWrap, Least, Holds
<1> QED BY <1>1, <1>2, <1>3, <1>4, <1>5 DEF FreeAfterWrap, UsedAfterWrap, Holds

LEMMA HoldsPeek ==
  ASSUME NEW r, NEW B, NEW m, NEW n, Holds(r, B, m, n), NEW k \in Nat
  PROVE  Peek(r, k) = Slice(B, m, m + Least(k, n - m))
<1>1. Len(B) \in Nat /\ MaxSize \in Nat /\ m \in Nat /\ n \in Nat /\ m <= n /\ n <= Len(B)
      /\ n < MaxSize /\ r.read = m /\ Size(r) = n - m /\ B \in Seq(Byte)
  BY HoldsSizes, MaxSizeAssumption DEF Holds
<1>2. PICK z \in Nat : z = Least(k, n - m) /\ z <= n - m
  <2>1. Least(k, n - m) \in Nat /\ Least(k, n - m) <= n - m
    BY <1>1 DEF Least
  <2> QED BY <2>1
<1>3. PICK e \in Nat : e = m + z /\ m <= e /\ e <= n
  BY <1>1, <1>2
<1>4. ASSUME NEW j \in 1 .. z
      PROVE  /\ r.buffer[Wrapped(r.read + j - 1)] = B[m + j]
             /\ m + j \in 1 .. Len(B)
  <2>1. PICK p \in m .. n - 1 : p = m + j - 1
    BY <1>1, <1>2
  <2>2. Wrapped(r.read + j - 1) = p /\ p + 1 = m + j
    BY <1>1, <2>1 DEF Wrapped
  <2>3. r.buffer[p] = B[p + 1]
    BY DEF Holds
  <2>4. m + j \in 1 .. Len(B)
    BY <1>1, <1>2
  <2>5. r.buffer[Wrapped(r.read + j - 1)] = B[m + j]
    BY <2>2, <2>3, Zenon
  <2> QED BY <2>4, <2>5
<1>5. Peek(r, k) = [j \in 1 .. z |-> r.buffer[Wrapped(r.read + j - 1)]]
  BY <1>1, <1>2 DEF Peek
<1>6. Peek(r, k) = [j \in 1 .. z |-> B[m + j]]
  BY <1>4, <1>5
<1>7. Peek(r, k) \in Seq(Byte) /\ Len(Peek(r, k)) = z
  <2>1. \A j \in 1 .. z : B[m + j] \in Byte
    BY <1>1, <1>4, ElementOfSeq
  <2>2. Peek(r, k) \in [1 .. z -> Byte]
    BY <1>6, <2>1
  <2>3. Peek(r, k) \in Seq(Byte)
    BY <2>2, SeqDef
  <2> QED BY <2>2, <2>3, LenProperties
<1>8. CutFrom(Peek(r, k), B, m, e)
  BY <1>1, <1>3, <1>6, <1>7 DEF CutFrom
<1>9. Peek(r, k) = Slice(B, m, e)
  BY <1>1, <1>3, <1>7, <1>8, IsSlice
<1> QED BY <1>2, <1>3, <1>9

LEMMA HoldsContents ==
  ASSUME NEW r, NEW B, NEW m, NEW n, Holds(r, B, m, n)
  PROVE  Contents(r) = Slice(B, m, n)
<1>1. MaxSize \in Nat /\ m \in Nat /\ n \in Nat /\ n - m <= MaxSize /\ Len(B) \in Nat
  BY MaxSizeAssumption DEF Holds
<1>2. m + Least(MaxSize, n - m) = n
  BY <1>1 DEF Least
<1> QED BY <1>1, <1>2, HoldsPeek DEF Contents

LEMMA HoldsConsume ==
  ASSUME NEW r, NEW B, NEW m, NEW n, Holds(r, B, m, n), NEW k \in Nat, k <= n - m
  PROVE  Holds(EndConsume(r, k), B, m + k, n)
<1>1. Len(B) \in Nat /\ MaxSize \in Nat /\ m \in Nat /\ n \in Nat /\ m + k \in Nat
      /\ m + k <= n /\ n <= Len(B) /\ Len(B) < MaxSize /\ r.read = m /\ r.write = n
  BY MaxSizeAssumption DEF Holds
<1>2. Wrapped(r.read + k) = m + k /\ m + k \in Offset
  BY <1>1 DEF Wrapped, Offset
<1> DEFINE q == EndConsume(r, k)
<1>3. q \in Ring /\ q.buffer = r.buffer /\ q.write = n /\ q.read = m + k /\ ~q.full
  BY <1>1, <1>2 DEF EndConsume, Ring, Holds
<1>4. \A p \in (m + k) .. n - 1 : p \in m .. n - 1
  BY <1>1
<1> HIDE DEF q
<1>5. Holds(q, B, m + k, n)
  BY <1>1, <1>3, <1>4 DEF Holds
<1> QED BY <1>5 DEF q

LEMMA HoldsProduce ==
  ASSUME NEW r, NEW B, NEW m, NEW n, Holds(r, B, m, n), NEW k \in Nat, 0 < k,
         n + k <= Len(B), NEW bytes, bytes = Slice(B, n, n + k)
  PROVE  Holds(EndProduce(Stored(r, bytes), k), B, m, n + k)
<1>1. /\ Len(B) \in Nat /\ MaxSize \in Nat /\ m \in Nat /\ n \in Nat /\ m <= n
      /\ Len(B) < MaxSize /\ r.read = m /\ r.write = n /\ B \in Seq(Byte)
      /\ r \in Ring
  BY MaxSizeAssumption DEF Holds
<1>2. PICK e \in Nat : e = n + k
  BY <1>1
<1>3. bytes \in Seq(Byte) /\ CutFrom(bytes, B, n, e)
  <2>1. n <= e /\ e <= Len(B)
    BY <1>1, <1>2
  <2> QED BY <1>1, <1>2, <2>1, SliceGives
<1>4. Len(bytes) = k /\ \A j \in 1 .. k : bytes[j] = B[n + j] /\ bytes[j] \in Byte
  BY <1>1, <1>2, <1>3, ElementOfSeq DEF CutFrom
<1> DEFINE At(i) == 1 + IF i >= r.write THEN i - r.write ELSE i - r.write + MaxSize
           buffer == [i \in Offset |-> IF At(i) <= Len(bytes) THEN bytes[At(i)] ELSE r.buffer[i]]
<1>5. buffer \in [Offset -> Byte]
  <2> SUFFICES ASSUME NEW i \in Offset
               PROVE  (IF At(i) <= Len(bytes) THEN bytes[At(i)] ELSE r.buffer[i]) \in Byte
    OBVIOUS
  <2>1. At(i) <= Len(bytes) => At(i) \in 1 .. k
    BY <1>1, <1>4 DEF Offset
  <2>2. r.buffer[i] \in Byte
    BY <1>1 DEF Ring
  <2> QED BY <1>4, <2>1, <2>2
<1>6. ASSUME NEW p \in m .. e - 1 PROVE buffer[p] = B[p + 1]
  <2>1. p \in Offset /\ p \in Nat
    BY <1>1, <1>2 DEF Offset
  <2>2. CASE p < n
    <3>1. At(p) = 1 + (p - n + MaxSize) /\ ~(At(p) <= k)
      BY <1>1, <1>2, <2>1, <2>2
    <3>2. buffer[p] = r.buffer[p]
      BY <1>4, <2>1, <3>1
    <3>3. p \in m .. n - 1
      BY <1>1, <2>1, <2>2
    <3> QED BY <3>2, <3>3 DEF Holds
  <2>3. CASE ~(p < n)
    <3>1. At(p) = 1 + (p - n) /\ At(p) <= k /\ At(p) \in 1 .. k /\ n + At(p) = p + 1
      BY <1>1, <1>2, <2>1, <2>3
    <3>2. buffer[p] = bytes[At(p)]
      BY <1>4, <2>1, <3>1
    <3>3. bytes[At(p)] = B[n + At(p)]
      BY <1>4, <3>1
    <3> QED BY <3>1, <3>2, <3>3
  <2> QED BY <2>2, <2>3
<1>7. Stored(r, bytes) = [r EXCEPT !.buffer = buffer]
  BY <1>1 DEF Stored, Ring
<1> HIDE DEF buffer, At
<1> DEFINE q == EndProduce(Stored(r, bytes), k)
<1>8. Wrapped(n + k) = e /\ e \in Offset /\ e # m
  BY <1>1, <1>2 DEF Wrapped, Offset
<1>9. q \in Ring /\ q.buffer = buffer /\ q.write = e /\ q.read = m /\ ~q.full
  <2>1. PICK u \in Ring : u = Stored(r, bytes) /\ u.buffer = buffer /\ u.read = m /\ u.write = n
    BY <1>1, <1>5, <1>7 DEF Ring
  <2> QED BY <1>8, <2>1 DEF EndProduce, Ring
<1> HIDE DEF q
<1>10. Holds(q, B, m, e)
  BY <1>1, <1>2, <1>6, <1>9 DEF Holds
<1> QED BY <1>2, <1>10 DEF q

(* end_produce(0) leaves a buffer alone that is not empty.                   *)
LEMMA HoldsProduceNothing ==
  ASSUME NEW r, NEW B, NEW m, NEW n, Holds(r, B, m, n), m < n
  PROVE  Holds(EndProduce(r, 0), B, m, n)
<1>1. Wrapped(r.write + 0) = n /\ n \in Offset /\ n # m
  BY MaxSizeAssumption DEF Wrapped, Offset, Holds
<1> DEFINE q == EndProduce(r, 0)
<1>2. q \in Ring /\ q.buffer = r.buffer /\ q.write = n /\ q.read = m /\ ~q.full
  BY <1>1 DEF EndProduce, Ring, Holds
<1> HIDE DEF q
<1>3. Holds(q, B, m, n)
  BY <1>2 DEF Holds
<1> QED BY <1>3 DEF q

(* More bytes are to come. *)
LEMMA HoldsLonger ==
  ASSUME NEW r, NEW B, NEW m, NEW n, Holds(r, B, m, n), NEW t \in Seq(Byte),
         Len(B \o t) < MaxSize
  PROVE  Holds(r, B \o t, m, n)
<1>1. /\ B \in Seq(Byte) /\ Len(B) \in Nat /\ Len(t) \in Nat /\ m \in Nat /\ n \in Nat
      /\ n <= Len(B)
  BY DEF Holds
<1>2. /\ B \o t \in Seq(Byte) /\ Len(B \o t) = Len(B) + Len(t)
      /\ \A i \in 1 .. Len(B) + Len(t) : (B \o t)[i] = IF i <= Len(B) THEN B[i] ELSE t[i - Len(B)]
  BY <1>1, ConcatProperties
<1>3. \A p \in m .. n - 1 : p + 1 \in 1 .. Len(B) + Len(t) /\ p + 1 <= Len(B)
  BY <1>1
<1>4. \A p \in m .. n - 1 : (B \o t)[p + 1] = B[p + 1]
  BY <1>2, <1>3
<1>5. n <= Len(B \o t)
  BY <1>1, <1>2
<1> DEFINE longer == B \o t
<1> HIDE DEF longer
<1>6. /\ longer \in Seq(Byte) /\ Len(longer) < MaxSize /\ n <= Len(longer)
      /\ \A p \in m .. n - 1 : longer[p + 1] = B[p + 1]
  BY <1>2, <1>4, <1>5 DEF longer
<1>7. Holds(r, longer, m, n)
  BY <1>6 DEF Holds
<1> QED BY <1>7 DEF longer

LEMMA HoldsNew == Holds(NewRing, << >>, 0, 0)
<1>1. NewRing \in Ring /\ ~NewRing.full /\ NewRing.read = 0 /\ NewRing.write = 0
  BY MaxSizeAssumption, BlankAssumption DEF NewRing, Ring, Offset
<1>2. << >> \in Seq(Byte) /\ Len(<< >>) = 0 /\ 0 < MaxSize
  BY EmptySeq, MaxSizeAssumption
<1>3. 0 .. 0 - 1 = {}
  OBVIOUS
<1> QED BY <1>1, <1>2, <1>3 DEF Holds

-----------------------------------------------------------------------------
(* Sending *)

(* Of the bytes B, those after number m up to some number e go out, and the   *)
(* buffer keeps the rest, if there was no error.                             *)
SendsUpTo(o, B, m, e) ==
  /\ m <= e /\ e <= Len(B)
  /\ o.bytes = Slice(B, m, e)
  /\ o.ok => Holds(o.ring, B, e, Len(B))

Sends(o, B, m) == \E e \in Nat : SendsUpTo(o, B, m, e)

LEMMA PendingSends ==
  ASSUME NEW r, NEW B, NEW m, Holds(r, B, m, Len(B)), NEW room \in Int,
         NEW o \in SendPending(r, room)
  PROVE  Sends(o, B, m)
<1>1. PICK n \in Nat : n = Len(B) /\ m \in Nat /\ m <= n /\ B \in Seq(Byte)
  BY DEF Holds
<1>2. /\ Size(r) = n - m /\ (IsEmpty(r) <=> m = n) /\ UsedAfterWrap(r) = 0
  BY <1>1, HoldsSizes
<1>3. ASSUME NEW k \in Nat, k <= n - m, NEW buffer, NEW ok,
             ok => Holds(buffer, B, m + k, n), o = Outcome(buffer, Peek(r, k), ok)
      PROVE  Sends(o, B, m)
  <2>1. m + Least(k, n - m) = m + k
    BY <1>1, <1>3 DEF Least
  <2>2. Peek(r, k) = Slice(B, m, m + k)
    BY <1>1, <2>1, HoldsPeek
  <2>3. o.bytes = Peek(r, k) /\ o.ok = ok /\ o.ring = buffer
    BY <1>3 DEF Outcome
  <2>4. PICK e \in Nat : e = m + k /\ m <= e /\ e <= n
    BY <1>1, <1>3
  <2>5. SendsUpTo(o, B, m, e)
    BY <1>1, <1>3, <2>2, <2>3, <2>4 DEF SendsUpTo
  <2> QED BY <2>5 DEF Sends
<1>4. CASE IsEmpty(r)
  <2>1. o = Outcome(r, << >>, TRUE)
    BY <1>4 DEF SendPending
  <2>2. o.bytes = << >> /\ o.ok /\ o.ring = r
    BY <2>1 DEF Outcome
  <2>3. Slice(B, m, m) = << >>
    BY <1>1, SliceEnds
  <2>4. SendsUpTo(o, B, m, m)
    BY <1>1, <2>2, <2>3 DEF SendsUpTo
  <2> QED BY <1>1, <2>4 DEF Sends
<1>5. CASE ~IsEmpty(r)
  <2>1. CASE o \in Broken(r, room)
    <3>1. o = Outcome(NewRing, Peek(r, 0), FALSE)
      <4>1. PICK k \in {0} \cup {u \in {UsedBeforeWrap(r)} : u <= room /\ UsedAfterWrap(r) > 0} :
              o = Outcome(NewRing, Peek(r, k), FALSE)
        BY <2>1 DEF Broken
      <4>2. k = 0
        BY <1>2
      <4> QED BY <4>1, <4>2
    <3>2. 0 \in Nat /\ 0 <= n - m
      BY <1>1
    <3> QED BY <1>3, <3>1, <3>2
  <2>2. CASE \E k \in IF room = 0 THEN {0} ELSE 1 .. Least(room, Size(r)) :
               o = Outcome(EndConsume(r, k), Peek(r, k), TRUE)
    <3>1. PICK k \in IF room = 0 THEN {0} ELSE 1 .. Least(room, Size(r)) :
               o = Outcome(EndConsume(r, k), Peek(r, k), TRUE)
      BY <2>2
    <3>2. k \in Nat /\ k <= n - m
      BY <1>1, <1>2 DEF Least
    <3>3. Holds(EndConsume(r, k), B, m + k, n)
      BY <1>1, <3>2, HoldsConsume
    <3> QED BY <1>3, <3>1, <3>2, <3>3
  <2> QED BY <1>5, <2>1, <2>2 DEF SendPending
<1> QED BY <1>4, <1>5

(* send() with a packet that fits. *)
LEMMA EnqueueSends ==
  ASSUME NEW r, NEW B, NEW m, Holds(r, B, m, Len(B)), NEW packet \in Seq(Byte),
         0 < Len(packet), Fits(r, packet), Len(B \o packet) < MaxSize,
         NEW l \in Nat, l <= m, NEW before, before = Slice(B, l, m),
         NEW room \in Int, NEW o \in Enqueue(r, packet, before, room)
  PROVE  o.queued /\ Sends(o, B \o packet, l)
<1> DEFINE longer == B \o packet
<1>1. /\ B \in Seq(Byte) /\ Len(B) \in Nat /\ Len(packet) \in Nat /\ m \in Nat /\ m <= Len(B)
  BY DEF Holds
<1>2. /\ longer \in Seq(Byte) /\ Len(longer) = Len(B) + Len(packet)
      /\ Slice(longer, l, m) = before
      /\ Slice(longer, Len(B), Len(B) + Len(packet)) = packet
  BY <1>1, SliceOfLonger
<1>3. Holds(r, longer, m, Len(B))
  BY HoldsLonger
<1> HIDE DEF longer
<1>4. Accepted(r, packet) = packet
  <2>1. Least(FreeSize(r), Len(packet)) = Len(packet)
    <3>1. FreeSize(r) \in Int
      BY <1>1, HoldsSizes, MaxSizeAssumption
    <3> QED BY <1>1, <3>1 DEF Fits, Least
  <2>2. SubSeq(packet, 1, Len(packet)) = packet
    BY SubSeqFull
  <2> QED BY <2>1, <2>2 DEF Accepted
<1>5. Write(r, packet) = EndProduce(Stored(r, packet), Len(packet))
  <2>1. packet # << >>
    BY EmptySeq
  <2> QED BY <1>4, <2>1 DEF Write
<1>6. Holds(Write(r, packet), longer, m, Len(longer))
  <2>1. Len(B) + Len(packet) <= Len(longer)
    BY <1>1, <1>2
  <2>2. Holds(EndProduce(Stored(r, packet), Len(packet)), longer, m, Len(B) + Len(packet))
    BY <1>1, <1>2, <1>3, <2>1, HoldsProduce
  <2> QED BY <1>2, <1>5, <2>2
<1>7. PICK p \in SendPending(Write(r, packet), room - Len(before)) :
        o = [queued |-> TRUE, ok |-> p.ok, ring |-> p.ring, bytes |-> before \o p.bytes]
  BY DEF Enqueue
<1>8. Sends(p, longer, m)
  <2>1. Len(before) \in Int
    <3>1. before \in Seq(Byte)
      BY <1>1, SliceGives
    <3> QED BY <3>1
  <2>2. room - Len(before) \in Int
    BY <2>1
  <2> QED BY <1>6, <2>2, PendingSends
<1>9. PICK e \in Nat : SendsUpTo(p, longer, m, e)
  BY <1>8 DEF Sends
<1>10. before \o p.bytes = Slice(longer, l, e)
  <2>1. m <= e /\ e <= Len(longer) /\ p.bytes = Slice(longer, m, e)
    BY <1>9 DEF SendsUpTo
  <2>2. Slice(longer, l, m) \o Slice(longer, m, e) = Slice(longer, l, e)
    <3>1. longer \in Seq(Byte) /\ m \in Nat
      BY <1>1, <1>2
    <3> HIDE DEF longer
    <3> QED BY <2>1, <3>1, BytesJoin
  <2> QED BY <1>2, <2>1, <2>2
<1>11. SendsUpTo(o, longer, l, e) /\ o.queued
  BY <1>1, <1>7, <1>9, <1>10 DEF SendsUpTo
<1> QED BY <1>11 DEF Sends, longer

(* send(): queued or not, no byte is lost unless the connection breaks.      *)
LEMMA PacketSends ==
  ASSUME NEW r, NEW B, NEW m, Holds(r, B, m, Len(B)), NEW packet \in Seq(Byte),
         0 < Len(packet), Len(packet) <= MaxSize, NEW room \in Int,
         NEW o \in SendPacket(r, packet, room),
         o.queued => Len(B \o packet) < MaxSize
  PROVE  /\ o.queued => Sends(o, B \o packet, m)
         /\ ~o.queued => Sends(o, B, m)
<1>1. B \in Seq(Byte) /\ Len(B) \in Nat /\ Len(packet) \in Nat /\ m \in Nat /\ m <= Len(B)
  BY DEF Holds
<1>2. CASE Fits(r, packet)
  <2>1. o \in Enqueue(r, packet, << >>, room)
    BY <1>2 DEF SendPacket
  <2>2. o.queued
    BY <2>1 DEF Enqueue
  <2>3. << >> = Slice(B, m, m)
    BY <1>1, SliceEnds
  <2> QED BY <1>1, <1>2, <2>1, <2>2, <2>3, EnqueueSends
<1>3. CASE ~Fits(r, packet)
  <2>1. PICK p \in SendPending(r, room) :
          o \in IF p.ok /\ Fits(p.ring, packet) THEN Enqueue(p.ring, packet, p.bytes, room)
                ELSE {[queued |-> FALSE, ok |-> p.ok, bytes |-> p.bytes,
                       ring |-> IF p.ok THEN EndProduce(p.ring, 0) ELSE p.ring]}
    BY <1>3 DEF SendPacket
  <2>2. PICK e \in Nat : SendsUpTo(p, B, m, e)
    BY PendingSends DEF Sends
  <2>3. m <= e /\ e <= Len(B) /\ p.bytes = Slice(B, m, e) /\ (p.ok => Holds(p.ring, B, e, Len(B)))
    BY <2>2 DEF SendsUpTo
  <2>4. CASE p.ok /\ Fits(p.ring, packet)
    <3>1. o \in Enqueue(p.ring, packet, p.bytes, room)
      BY <2>1, <2>4
    <3>2. o.queued
      <4>1. PICK u \in SendPending(Write(p.ring, packet), room - Len(p.bytes)) :
              o = [queued |-> TRUE, ok |-> u.ok, ring |-> u.ring, bytes |-> p.bytes \o u.bytes]
        BY <3>1 DEF Enqueue
      <4> QED BY <4>1
    <3> QED BY <1>1, <2>3, <2>4, <3>1, <3>2, EnqueueSends
  <2>5. CASE ~(p.ok /\ Fits(p.ring, packet))
    <3>1. o = [queued |-> FALSE, ok |-> p.ok, bytes |-> p.bytes,
               ring |-> IF p.ok THEN EndProduce(p.ring, 0) ELSE p.ring]
      BY <2>1, <2>5
    <3>2. p.ok => Holds(EndProduce(p.ring, 0), B, e, Len(B))
      <4> SUFFICES ASSUME p.ok PROVE Holds(EndProduce(p.ring, 0), B, e, Len(B))
        OBVIOUS
      <4>1. Holds(p.ring, B, e, Len(B)) /\ ~(Len(packet) <= FreeSize(p.ring))
        BY <2>3, <2>5 DEF Fits
      <4>2. FreeSize(p.ring) = MaxSize - (Len(B) - e)
        BY <4>1, HoldsSizes
      <4>3. e < Len(B)
        BY <1>1, <2>3, <4>1, <4>2, MaxSizeAssumption
      <4> QED BY <4>1, <4>3, HoldsProduceNothing
    <3>3. SendsUpTo(o, B, m, e) /\ ~o.queued
      BY <2>3, <3>1, <3>2 DEF SendsUpTo
    <3> QED BY <3>3 DEF Sends
  <2> QED BY <2>4, <2>5
<1> QED BY <1>2, <1>3

-----------------------------------------------------------------------------
(* Receiving *)

(* The messages so far, each one whole. *)
Whole(messages, s) ==
  /\ messages \in Seq(Seq(Byte)) /\ Len(messages) <= Len(s)
  /\ \A i \in 1 .. Len(messages) : messages[i] = Payload(Packet(i, s[i]))

Progress ==
  [ring : Ring, delivered : Seq(Seq(Byte)), coming : Seq(Byte),
   failed : BOOLEAN, again : BOOLEAN, closed : BOOLEAN]

(* recv() goes well: the bytes up to number w have arrived, and of those the  *)
(* buffer holds the ones behind the packets that were delivered.             *)
GoesWell(a, w, coming) ==
  /\ a \in Progress /\ ~a.failed /\ ~a.again /\ ~a.closed /\ a.coming = coming
  /\ Whole(a.delivered, sent)
  /\ Holds(a.ring, Total(sent), EndOfPacket(sent, Len(a.delivered)), w)

LEMMA LengthRead ==
  ASSUME SentOK(sent), NEW d \in Nat, d <= Len(sent), NEW r, NEW w,
         Holds(r, Total(sent), EndOfPacket(sent, d), w)
  PROVE  /\ MagicIsRight(r)
         /\ PacketLength(r) = 0 \/ (d < Len(sent) /\ PacketLength(r) = sent[d + 1])
<1> DEFINE B == Total(sent)
           E == EndOfPacket(sent, d)
<1>1. /\ E \in Nat /\ w \in Nat /\ E <= w /\ w <= Len(B) /\ B \in Seq(Byte) /\ Len(B) \in Nat
      /\ r.read = E /\ Len(B) < MaxSize /\ Len(sent) \in Nat
  BY LenProperties DEF Holds, SentOK
<1>2. Size(r) = w - E
  BY HoldsSizes
<1>3. Peek(r, 2) = Slice(B, E, E + Least(2, w - E))
  BY HoldsPeek
<1>4. \A p \in E .. w - 1 : r.buffer[p] = B[p + 1]
  BY DEF Holds
<1>5. d = Len(sent) => E = Len(B)
  BY DEF EndOfPacket, Total
<1>6. d < Len(sent) => B[E + 1] = Place(d + 1, 1) /\ B[E + 2] = Place(d + 1, 2)
  BY NextPacket
<1> HIDE DEF B, E
<1>7. CASE w - E < 2
  <2>1. Least(2, w - E) = w - E
    BY <1>1, <1>7 DEF Least
  <2>2. E + (w - E) = w
    BY <1>1
  <2>3. Peek(r, 2) = Slice(B, E, w)
    BY <1>3, <2>1, <2>2
  <2>4. Len(Peek(r, 2)) = w - E
    <3>1. CutFrom(Slice(B, E, w), B, E, w)
      BY <1>1, SliceGives
    <3> QED BY <2>3, <3>1 DEF CutFrom
  <2>5. PacketLength(r) = 0
    BY <1>7, <2>4 DEF PacketLength, Header
  <2>6. MagicIsRight(r)
    BY <1>2, <1>7, <1>1 DEF MagicIsRight, Header
  <2> QED BY <2>5, <2>6
<1>8. CASE ~(w - E < 2)
  <2>1. d < Len(sent) /\ E + 2 <= w
    BY <1>1, <1>5, <1>8
  <2>2. Least(2, w - E) = 2
    BY <1>1, <1>8 DEF Least
  <2>3. PICK e \in Nat : e = E + 2 /\ E <= e /\ e <= Len(B)
    BY <1>1, <2>1
  <2>4. Peek(r, 2) = Slice(B, E, e)
    BY <1>3, <2>2, <2>3
  <2>5. CutFrom(Peek(r, 2), B, E, e)
    BY <1>1, <2>3, <2>4, SliceGives
  <2>6. Len(Peek(r, 2)) = 2 /\ Peek(r, 2)[1] = B[E + 1] /\ Peek(r, 2)[2] = B[E + 2]
    <3>1. e - E = 2 /\ 1 \in 1 .. e - E /\ 2 \in 1 .. e - E
      BY <1>1, <2>3
    <3>2. Len(Peek(r, 2)) = e - E /\ \A k \in 1 .. e - E : Peek(r, 2)[k] = B[E + k]
      BY <2>5 DEF CutFrom
    <3> HIDE DEF E
    <3> QED BY <3>1, <3>2
  <2>7. Peek(r, 2)[1].packet = d + 1 /\ Peek(r, 2)[2] = Place(d + 1, 2)
    BY <1>6, <2>1, <2>6 DEF Place
  <2>8. PacketLength(r) = sent[d + 1]
    BY <2>6, <2>7 DEF PacketLength, Header
  <2>9. MagicIsRight(r)
    <3>1. E \in E .. w - 1
      BY <1>1, <2>1
    <3>2. r.buffer[r.read] = Place(d + 1, 1)
      BY <1>1, <1>4, <1>6, <2>1, <3>1
    <3> QED BY <3>2 DEF MagicIsRight, Place
  <2> QED BY <2>1, <2>8, <2>9
<1> QED BY <1>7, <1>8

LEMMA PayloadGives ==
  ASSUME NEW s, SentOK(s), NEW i \in 1 .. Len(s)
  PROVE  Payload(Packet(i, s[i])) \in Seq(Byte)
<1>1. PICK packet \in Seq(Byte) : packet = Packet(i, s[i]) /\ 2 <= Len(packet)
  BY PacketGives
<1>2. Slice(packet, 2, Len(packet)) \in Seq(Byte)
  BY <1>1, SliceGives
<1> QED BY <1>1, <1>2 DEF Payload, Slice, Header

LEMMA WholeAppend ==
  ASSUME NEW s, SentOK(s), NEW messages, Whole(messages, s), Len(messages) < Len(s),
         NEW d, d = Len(messages), NEW message, message = Payload(Packet(d + 1, s[d + 1]))
  PROVE  /\ Whole(Append(messages, message), s)
         /\ Len(Append(messages, message)) = d + 1
<1>1. d \in Nat /\ Len(s) \in Nat /\ d + 1 \in 1 .. Len(s)
  BY LenProperties DEF Whole, SentOK
<1>2. message \in Seq(Byte)
  BY <1>1, PayloadGives
<1>3. messages \in Seq(Seq(Byte))
  BY DEF Whole
<1> DEFINE more == Append(messages, message)
<1>4. /\ more \in Seq(Seq(Byte)) /\ Len(more) = d + 1 /\ more[d + 1] = message
      /\ \A i \in 1 .. d : more[i] = messages[i]
  BY <1>2, <1>3, AppendProperties
<1> HIDE DEF more
<1>5. ASSUME NEW i \in 1 .. d + 1 PROVE more[i] = Payload(Packet(i, s[i]))
  <2>1. CASE i = d + 1
    BY <1>4, <2>1
  <2>2. CASE i \in 1 .. d
    BY <1>4, <2>2 DEF Whole
  <2>3. i = d + 1 \/ i \in 1 .. d
    BY <1>1
  <2> QED BY <2>1, <2>2, <2>3
<1>6. Whole(more, s)
  BY <1>1, <1>4, <1>5 DEF Whole
<1> QED BY <1>4, <1>6 DEF more

LEMMA ProcessGoesWell ==
  ASSUME SentOK(sent), NEW a, NEW w, NEW coming, GoesWell(a, w, coming)
  PROVE  GoesWell(ProcessPacket(a), w, coming)
<1> DEFINE d == Len(a.delivered)
           B == Total(sent)
           E == EndOfPacket(sent, d)
           length == PacketLength(a.ring)
<1>1. /\ a \in Progress /\ Whole(a.delivered, sent) /\ Holds(a.ring, B, E, w)
      /\ d \in Nat /\ d <= Len(sent)
  BY LenProperties DEF GoesWell, Whole
<1>2. MagicIsRight(a.ring) /\ (length = 0 \/ (d < Len(sent) /\ length = sent[d + 1]))
  BY <1>1, LengthRead
<1>3. Size(a.ring) = w - E /\ UsedBeforeWrap(a.ring) = w - E
  BY <1>1, HoldsSizes
<1>4. E \in Nat /\ w \in Nat /\ E <= w
  BY <1>1 DEF Holds
<1>5. CASE length = 0
  <2>1. ProcessPacket(a) = a
    BY <1>2, <1>5 DEF ProcessPacket
  <2> QED BY <2>1
<1>6. CASE length # 0
  <2>1. /\ d < Len(sent) /\ length = sent[d + 1] /\ length \in Nat
        /\ EndOfPacket(sent, d + 1) = E + (2 + length)
        /\ Slice(B, E, E + (2 + length)) = Packet(d + 1, sent[d + 1])
    BY <1>1, <1>2, <1>6, NextPacket
  <2>2. CASE Incomplete(a.ring, length)
    <3>1. ProcessPacket(a) = [a EXCEPT !.ring = EndConsume(@, 0)]
      BY <1>2, <1>6, <2>2 DEF ProcessPacket
    <3>2. Holds(EndConsume(a.ring, 0), B, E + 0, w)
      BY <1>1, <1>4, HoldsConsume
    <3>3. Holds(EndConsume(a.ring, 0), B, E, w) /\ EndConsume(a.ring, 0) \in Ring
      BY <1>4, <3>2 DEF Holds
    <3> DEFINE b == [a EXCEPT !.ring = EndConsume(@, 0)]
    <3>4. /\ b \in Progress /\ b.ring = EndConsume(a.ring, 0) /\ b.delivered = a.delivered
          /\ b.coming = a.coming /\ b.failed = a.failed /\ b.again = a.again
          /\ b.closed = a.closed
      BY <1>1, <3>3 DEF Progress
    <3> HIDE DEF b
    <3>5. GoesWell(b, w, coming)
      BY <3>3, <3>4 DEF GoesWell
    <3> QED BY <3>1, <3>5 DEF b
  <2>3. CASE ~Incomplete(a.ring, length)
    <3> DEFINE n == Header + length
    <3>1. n \in Nat /\ n <= w - E /\ n = 2 + length
      BY <1>3, <1>4, <2>1, <2>3 DEF Incomplete, Header
    <3>2. ~(UsedBeforeWrap(a.ring) < n)
      BY <1>3, <1>4, <3>1
    <3>3. ProcessPacket(a) = Deliver(a, a.ring, length)
      BY <1>2, <1>6, <2>3, <3>2 DEF ProcessPacket, Straight
    <3>4. Peek(a.ring, n) = Packet(d + 1, sent[d + 1])
      <4>1. Least(n, w - E) = n
        BY <3>1 DEF Least
      <4>2. Peek(a.ring, n) = Slice(B, E, E + Least(n, w - E))
        BY <1>1, <3>1, HoldsPeek
      <4> QED BY <2>1, <3>1, <4>1, <4>2
    <3>5. Holds(EndConsume(a.ring, n), B, E + n, w)
      BY <1>1, <3>1, HoldsConsume
    <3> DEFINE message == Payload(Peek(a.ring, n))
               buffer == EndConsume(a.ring, n)
               more == Append(a.delivered, message)
               b == [a EXCEPT !.delivered = Append(@, message), !.ring = buffer]
    <3>6. Whole(more, sent) /\ Len(more) = d + 1
      BY <1>1, <2>1, <3>4, WholeAppend
    <3>7. buffer \in Ring /\ more \in Seq(Seq(Byte))
      BY <3>5, <3>6 DEF Holds, Whole
    <3>8. Deliver(a, a.ring, length) = b
      BY DEF Deliver
    <3>9. Holds(buffer, B, EndOfPacket(sent, Len(more)), w)
      BY <2>1, <3>1, <3>5, <3>6
    <3> HIDE DEF buffer, message
    <3>10. /\ b \in Progress /\ b.ring = buffer /\ b.delivered = more
           /\ b.coming = a.coming /\ b.failed = a.failed /\ b.again = a.again
           /\ b.closed = a.closed
      BY <1>1, <3>7 DEF Progress
    <3> HIDE DEF b, more
    <3>11. GoesWell(b, w, coming)
      BY <3>6, <3>9, <3>10 DEF GoesWell
    <3> QED BY <3>3, <3>8, <3>11
  <2> QED BY <2>2, <2>3
<1> QED BY <1>5, <1>6

(* The loop over the packets that have arrived. *)
LEMMA LoopGoesWell ==
  ASSUME SentOK(sent), NEW a, NEW w, NEW coming, GoesWell(a, w, coming)
  PROVE  \A b \in ProcessPackets(a) : GoesWell(b, w, coming)
<1> DEFINE D == {b \in Progress : GoesWell(b, w, coming)}
           Turn(v) == {ProcessPacket(b) : b \in v}
           s == [p \in Nat \X SUBSET D |-> Turn(p[2])]
           Body(f, k) == IF k = 0 THEN {a} ELSE {ProcessPacket(b) : b \in f[k - 1]}
           after == CHOOSE f : f = [k \in Nat |-> Body(f, k)]
           turns == Size(a.ring) \div Header + 1
<1>1. {a} \in SUBSET D
  BY DEF GoesWell
<1>2. ASSUME NEW v \in SUBSET D PROVE Turn(v) \in SUBSET D
  <2>1. ASSUME NEW b \in v PROVE ProcessPacket(b) \in D
    <3>1. GoesWell(ProcessPacket(b), w, coming)
      BY ProcessGoesWell
    <3> QED BY <3>1 DEF GoesWell
  <2> QED BY <2>1
<1>3. s \in [Nat \X SUBSET D -> SUBSET D] /\ \A k \in Nat, v \in SUBSET D : s[<<k, v>>] = Turn(v)
  <2> HIDE DEF D, Turn
  <2> QED BY <1>2
<1> HIDE DEF D, s
<1>4. PICK f : Iterates(f, SUBSET D, {a}, s)
  BY <1>1, <1>3, NatRecursion
<1>5. f \in [Nat -> SUBSET D] /\ f[0] = {a} /\ \A k \in Nat : f[k + 1] = Turn(f[k])
  <2> HIDE DEF Turn
  <2> QED BY <1>3, <1>4 DEF Iterates
<1>6. f = [k \in Nat |-> Body(f, k)]
  <2>1. ASSUME NEW k \in Nat PROVE f[k] = Body(f, k)
    <3>1. CASE k = 0
      BY <1>5, <3>1
    <3>2. CASE k # 0
      <4>1. PICK j \in Nat : j = k - 1 /\ j + 1 = k
        BY <3>2
      <4>2. f[k] = Turn(f[j])
        BY <1>5, <4>1
      <4> QED BY <3>2, <4>1, <4>2
    <3> QED BY <3>1, <3>2
  <2> HIDE DEF Body
  <2> QED BY <1>5, <2>1
<1>7. after = [k \in Nat |-> Body(after, k)]
  <2> HIDE DEF Body
  <2> QED BY <1>6, Zenon
<1>8. ProcessPackets(a) = after[turns]
  BY DEF ProcessPackets
<1> HIDE DEF after
<1>9. ASSUME NEW k \in Nat PROVE after[k] = Body(after, k)
  <2> HIDE DEF Body
  <2> QED BY <1>7, Zenon
<1> DEFINE P == {k \in Nat : after[k] \in SUBSET D}
<1>10. 0 \in P
  BY <1>1, <1>9
<1>11. ASSUME NEW k \in P PROVE k + 1 \in P
  <2>1. k \in Nat /\ after[k] \in SUBSET D /\ k + 1 # 0 /\ (k + 1) - 1 = k
    OBVIOUS
  <2>2. after[k + 1] = Turn(after[k])
    <3>1. PICK j \in Nat : j = k + 1 /\ j # 0 /\ j - 1 = k
      BY <2>1
    <3>2. after[j] = Body(after, j)
      BY <1>9
    <3> QED BY <3>1, <3>2
  <2> HIDE DEF Turn
  <2> QED BY <1>2, <2>1, <2>2
<1>12. P \in SUBSET Nat
  OBVIOUS
<1> HIDE DEF P
<1>13. P = Nat
  BY <1>10, <1>11, <1>12, NatSetInduction
<1>14. turns \in Nat
  <2>1. PICK size \in Nat : size = Size(a.ring)
    BY HoldsSizes DEF GoesWell, Holds
  <2> QED BY <2>1 DEF Header
<1>15. after[turns] \in SUBSET D
  BY <1>13, <1>14 DEF P
<1> QED BY <1>8, <1>15 DEF D

(* What a call of recv() leaves of the bytes up to number e. *)
Received(b, e) ==
  /\ ~b.failed /\ ~b.again /\ Whole(b.delivered, sent)
  /\ ~b.closed => \E v \in Nat : v <= e /\ GoesWell(b, v, Slice(Total(sent), v, e))

LEMMA CallGoesWell ==
  ASSUME SentOK(sent), NEW a, NEW w \in Nat, NEW e \in Nat, w <= e, e <= Len(Total(sent)),
         GoesWell(a, w, Slice(Total(sent), w, e)),
         a.coming # << >> \/ ~IsConnected(sender), NEW b \in Call(a)
  PROVE  Received(b, e)
<1> DEFINE B == Total(sent)
<1>1. /\ a \in Progress /\ ~a.failed /\ ~a.again /\ Whole(a.delivered, sent)
      /\ Holds(a.ring, B, EndOfPacket(sent, Len(a.delivered)), w)
      /\ a.coming = Slice(B, w, e)
  BY DEF GoesWell
<1>2. B \in Seq(Byte) /\ ~a.ring.full /\ Len(B) \in Nat /\ Len(B) < MaxSize /\ MaxSize \in Nat
  BY <1>1, MaxSizeAssumption DEF Holds
<1>3. CASE b = [a EXCEPT !.closed = TRUE, !.again = FALSE]
  <2>1. b.closed /\ ~b.again /\ b.failed = a.failed /\ b.delivered = a.delivered
    BY <1>1, <1>3 DEF Progress
  <2> QED BY <1>1, <2>1 DEF Received
<1>4. CASE a.coming = << >>
  <2>1. b = NothingThere(a)
    BY <1>2, <1>4 DEF Call
  <2> QED BY <1>3, <1>4, <2>1 DEF NothingThere
<1>5. CASE a.coming # << >> /\ b # [a EXCEPT !.closed = TRUE, !.again = FALSE]
  <2>1. PICK n \in 1 .. Least(FreeBeforeWrap(a.ring), Len(a.coming)) :
          b \in ProcessPackets(Arrive(a, n))
    BY <1>2, <1>5 DEF Call
  <2>2. /\ Len(a.coming) = e - w /\ FreeBeforeWrap(a.ring) = MaxSize - w
        /\ a.coming \in Seq(Byte)
    BY <1>1, <1>2, HoldsSizes, SliceGives DEF CutFrom
  <2>3. n \in Nat /\ 0 < n /\ w + n <= e /\ n # FreeBeforeWrap(a.ring)
    BY <1>2, <2>1, <2>2 DEF Least
  <2>4. PICK v \in Nat : v = w + n /\ v <= e /\ w <= v /\ v <= Len(B)
    BY <1>2, <2>3
  <2>5. /\ SubSeq(a.coming, 1, n) = Slice(B, w, w + n)
        /\ SubSeq(a.coming, n + 1, Len(a.coming)) = Slice(B, v, e)
    <3>1. B \in Seq(Byte) /\ w <= e /\ e <= Len(B) /\ n \in Nat /\ n <= e - w
      BY <1>2, <2>3
    <3> HIDE DEF B
    <3>2. SplitsAt(B, w, e, n)
      BY <3>1, SliceSplit
    <3> QED BY <1>1, <2>4, <3>2, Zenon DEF SplitsAt
  <2> DEFINE buffer == EndProduce(Stored(a.ring, SubSeq(a.coming, 1, n)), n)
             coming == SubSeq(a.coming, n + 1, Len(a.coming))
             filled == n = FreeBeforeWrap(a.ring) /\ FreeAfterWrap(a.ring) > 0
             c == [a EXCEPT !.ring = buffer, !.coming = coming, !.again = filled]
  <2>6. Holds(buffer, B, EndOfPacket(sent, Len(a.delivered)), v)
    <3>1. w + n <= Len(B)
      BY <2>4
    <3>2. Holds(buffer, B, EndOfPacket(sent, Len(a.delivered)), w + n)
      BY <1>1, <2>3, <2>5, <3>1, HoldsProduce
    <3> QED BY <2>4, <3>2
  <2>7. coming = Slice(B, v, e) /\ coming \in Seq(Byte)
    BY <1>2, <2>4, <2>5, SliceGives
  <2>8. filled = FALSE
    BY <2>3
  <2>9. buffer \in Ring
    BY <2>6 DEF Holds
  <2>10. Arrive(a, n) = c
    BY DEF Arrive
  <2> HIDE DEF buffer, coming, filled
  <2>11. /\ c \in Progress /\ c.ring = buffer /\ c.coming = coming /\ ~c.again
         /\ c.delivered = a.delivered /\ c.failed = a.failed /\ c.closed = a.closed
    BY <1>1, <2>7, <2>8, <2>9 DEF Progress
  <2> HIDE DEF c
  <2>12. GoesWell(c, v, coming)
    BY <1>1, <2>6, <2>11 DEF GoesWell
  <2>13. GoesWell(b, v, Slice(B, v, e))
    BY <2>1, <2>7, <2>10, <2>12, LoopGoesWell
  <2>14. ~b.failed /\ ~b.again /\ Whole(b.delivered, sent)
    BY <2>13 DEF GoesWell
  <2> QED BY <2>4, <2>13, <2>14 DEF Received
<1> QED BY <1>3, <1>4, <1>5

LEMMA RecvGoesWell ==
  ASSUME SentOK(sent), NEW a, NEW w \in Nat, NEW e \in Nat, w <= e, e <= Len(Total(sent)),
         GoesWell(a, w, Slice(Total(sent), w, e)),
         a.coming # << >> \/ ~IsConnected(sender), NEW b \in Recv(a)
  PROVE  Received(b, e)
<1>1. PICK c \in Call(a) : b \in IF c.again /\ ~c.failed THEN Call(c) ELSE {c}
  BY DEF Recv
<1>2. Received(c, e)
  BY CallGoesWell
<1>3. b = c
  BY <1>1, <1>2 DEF Received
<1> QED BY <1>2, <1>3

-----------------------------------------------------------------------------
(* The connection *)

Socket == [state : {"CONNECTED", "CLOSED"}, ring : Ring]

(* Of the bytes of the packets s, those up to number e have been passed on    *)
(* and those up to number r have arrived; n packets have been delivered.     *)
Carries(s, from, to, bytes, n, r, e) ==
  /\ r <= e /\ e <= Len(Total(s))
  /\ IsConnected(from) => Holds(from.ring, Total(s), e, Len(Total(s)))
  /\ IsConnected(to) =>
       Holds(to.ring, Total(s), EndOfPacket(s, n), r) /\ bytes = Slice(Total(s), r, e)

(* While the bytes of all packets fit in a buffer, none is lost.             *)
NoneLost ==
  /\ fault = "none" /\ Whole(delivered, sent)
  /\ sender \in Socket /\ receiver \in Socket /\ wire \in Seq(Byte)
  /\ \E r, e \in Nat : Carries(sent, sender, receiver, wire, Len(delivered), r, e)

ConnectionInv == SentOK(sent) /\ (Len(Total(sent)) < MaxSize => NoneLost)

LEMMA ClosedSocket == Closed \in Socket /\ ~IsConnected(Closed)
BY HoldsNew DEF Closed, IsConnected, Socket, Holds

(* The packets t are the packets s or some more. *)
Extends(t, s) ==
  /\ SentOK(s) /\ SentOK(t) /\ Len(s) <= Len(t)
  /\ \E packet \in Seq(Byte) : Total(t) = Total(s) \o packet
  /\ \A i \in 0 .. Len(s) : EndOfPacket(t, i) = EndOfPacket(s, i)
  /\ \A i \in 1 .. Len(s) : t[i] = s[i]

LEMMA ExtendsItself ==
  ASSUME NEW s, SentOK(s)
  PROVE  Extends(s, s) /\ Total(s) \in Seq(Byte)
<1>1. Len(s) \in Nat
  BY LenProperties DEF SentOK
<1>2. Total(s) \in Seq(Byte)
  BY <1>1, BetweenGives DEF Total
<1>3. Total(s) = Total(s) \o << >> /\ << >> \in Seq(Byte)
  BY <1>2, ConcatEmptySeq
<1>4. \E packet \in Seq(Byte) : Total(s) = Total(s) \o packet
  BY <1>3, Zenon
<1> QED BY <1>1, <1>2, <1>4 DEF Extends

LEMMA ExtendsByOne ==
  ASSUME NEW s, SentOK(s), NEW length \in Lengths, Len(s) < MaxPackets
  PROVE  Extends(Append(s, length), s)
<1> DEFINE t == Append(s, length)
<1>1. /\ SentOK(t) /\ Len(t) = Len(s) + 1
      /\ Total(t) = Total(s) \o Packet(Len(s) + 1, length)
      /\ \A i \in 0 .. Len(s) : EndOfPacket(t, i) = EndOfPacket(s, i)
      /\ \A i \in 1 .. Len(s) : t[i] = s[i]
      /\ t[Len(s) + 1] = length
  BY OneMore
<1> HIDE DEF t
<1>2. Len(s) \in Nat
  BY LenProperties DEF SentOK
<1>3. Packet(Len(s) + 1, length) \in Seq(Byte)
  <2>1. PICK m \in 1 .. Len(t) : m = Len(s) + 1
    BY <1>1, <1>2
  <2>2. Packet(m, t[m]) \in Seq(Byte)
    BY <1>1, PacketGives
  <2> QED BY <1>1, <2>1, <2>2
<1>4. Extends(t, s)
  BY <1>1, <1>2, <1>3 DEF Extends
<1> QED BY <1>4 DEF t

LEMMA ExtendsLonger ==
  ASSUME NEW s, NEW t, Extends(t, s), Len(Total(t)) < MaxSize
  PROVE  /\ Len(Total(s)) < MaxSize /\ Len(Total(s)) <= Len(Total(t))
         /\ \A m, n \in Nat : m <= n /\ n <= Len(Total(s)) =>
              Slice(Total(t), m, n) = Slice(Total(s), m, n)
         /\ \A r, m, n : Holds(r, Total(s), m, n) => Holds(r, Total(t), m, n)
         /\ \A messages : Whole(messages, s) =>
              /\ Whole(messages, t)
              /\ EndOfPacket(t, Len(messages)) = EndOfPacket(s, Len(messages))
<1>1. Total(s) \in Seq(Byte) /\ Total(t) \in Seq(Byte)
  BY ExtendsItself DEF Extends
<1>2. PICK packet \in Seq(Byte) : Total(t) = Total(s) \o packet
  BY DEF Extends
<1>3. /\ Len(Total(s) \o packet) = Len(Total(s)) + Len(packet)
      /\ \A m, n \in Nat : m <= n /\ n <= Len(Total(s)) =>
              Slice(Total(s) \o packet, m, n) = Slice(Total(s), m, n)
  BY <1>1, <1>2, SliceOfLonger
<1>4. Len(Total(s)) \in Nat /\ Len(packet) \in Nat /\ MaxSize \in Nat
  BY <1>1, <1>2, MaxSizeAssumption
<1>5. ASSUME NEW r, NEW m, NEW n, Holds(r, Total(s), m, n) PROVE Holds(r, Total(t), m, n)
  BY <1>2, <1>5, HoldsLonger
<1>6. ASSUME NEW messages, Whole(messages, s)
      PROVE  /\ Whole(messages, t)
             /\ EndOfPacket(t, Len(messages)) = EndOfPacket(s, Len(messages))
  <2>1. /\ Len(messages) \in Nat /\ Len(s) \in Nat /\ Len(t) \in Nat
        /\ Len(messages) <= Len(s) /\ Len(s) <= Len(t)
    BY <1>6, LenProperties DEF Whole, Extends, SentOK
  <2>2. \A i \in 1 .. Len(messages) : i \in 1 .. Len(s)
    BY <2>1
  <2>3. \A i \in 1 .. Len(messages) : t[i] = s[i]
    BY <2>2 DEF Extends
  <2>4. Len(messages) \in 0 .. Len(s)
    BY <2>1
  <2> QED BY <1>6, <2>1, <2>3, <2>4 DEF Whole, Extends
<1>7. Len(Total(t)) = Len(Total(s)) + Len(packet)
  BY <1>2, <1>3, Zenon
<1>8. \A m, n \in Nat : m <= n /\ n <= Len(Total(s)) => Slice(Total(t), m, n) = Slice(Total(s), m, n)
  BY <1>2, <1>3, Zenon
<1>9. Len(Total(s)) < MaxSize /\ Len(Total(s)) <= Len(Total(t))
  BY <1>4, <1>7
<1> QED BY <1>5, <1>6, <1>8, <1>9

(* Bytes go out, also of a packet that was just queued. *)
LEMMA GoesOut ==
  ASSUME NEW s, NEW t, Extends(t, s), Len(Total(t)) < MaxSize,
         NEW from, NEW to, NEW bytes \in Seq(Byte), NEW messages, Whole(messages, s),
         NEW r \in Nat, NEW e \in Nat, Carries(s, from, to, bytes, Len(messages), r, e),
         NEW o, Sends(o, Total(t), e),
         NEW left, IsConnected(left) => o.ok /\ left.ring = o.ring,
         NEW more, more = IF IsConnected(to) THEN bytes \o o.bytes ELSE << >>
  PROVE  /\ more \in Seq(Byte)
         /\ \E q, f \in Nat : Carries(t, left, to, more, Len(messages), q, f)
<1> DEFINE B == Total(s)
           C == Total(t)
           d == Len(messages)
<1>1. PICK f \in Nat : SendsUpTo(o, C, e, f)
  BY DEF Sends
<1>2. e <= f /\ f <= Len(C) /\ o.bytes = Slice(C, e, f) /\ (o.ok => Holds(o.ring, C, f, Len(C)))
  BY <1>1 DEF SendsUpTo
<1>3. /\ \A m, n \in Nat : m <= n /\ n <= Len(B) => Slice(C, m, n) = Slice(B, m, n)
      /\ \A buffer, m, n : Holds(buffer, B, m, n) => Holds(buffer, C, m, n)
      /\ EndOfPacket(t, d) = EndOfPacket(s, d)
  BY ExtendsLonger
<1>4. B \in Seq(Byte) /\ C \in Seq(Byte)
  BY ExtendsItself DEF Extends
<1>5. /\ r <= e /\ e <= Len(B)
      /\ IsConnected(to) => Holds(to.ring, B, EndOfPacket(s, d), r) /\ bytes = Slice(B, r, e)
  BY DEF Carries
<1>6. IsConnected(left) => Holds(left.ring, C, f, Len(C))
  BY <1>2
<1>7. o.bytes \in Seq(Byte)
  BY <1>2, <1>4, SliceGives
<1>8. more \in Seq(Byte)
  BY <1>7, EmptySeq, ConcatProperties
<1>9. ASSUME IsConnected(to)
      PROVE  Holds(to.ring, C, EndOfPacket(t, d), r) /\ more = Slice(C, r, f)
  <2>1. Holds(to.ring, C, EndOfPacket(t, d), r)
    BY <1>3, <1>5, <1>9
  <2>2. bytes = Slice(C, r, e)
    BY <1>3, <1>5, <1>9
  <2>3. Slice(C, r, e) \o Slice(C, e, f) = Slice(C, r, f)
    <3>1. C \in Seq(Byte) /\ r <= e /\ e <= f /\ f <= Len(C)
      BY <1>2, <1>4, <1>5
    <3> HIDE DEF C
    <3> QED BY <3>1, BytesJoin
  <2>4. more = bytes \o o.bytes
    BY <1>9
  <2>5. more = Slice(C, r, f)
    BY <1>2, <2>2, <2>3, <2>4, Zenon
  <2> QED BY <2>1, <2>5
<1>10. r <= f /\ f <= Len(C)
  BY <1>2, <1>5
<1>11. Carries(t, left, to, more, d, r, f)
  BY <1>6, <1>9, <1>10 DEF Carries
<1> QED BY <1>8, <1>11

(* Every message is short enough for the buffer. *)
MessagesFit == \A length \in Lengths : Header + length <= MaxSize

LEMMA InitConnection == PacketInit => ConnectionInv
<1> SUFFICES ASSUME PacketInit PROVE ConnectionInv
  OBVIOUS
<1>1. /\ sender = Connected /\ receiver = Connected
      /\ wire = << >> /\ sent = << >> /\ delivered = << >> /\ fault = "none"
  BY DEF PacketInit
<1>2. SentOK(sent) /\ Len(sent) = 0
  BY <1>1, EmptySeq, PacketsAssumption DEF SentOK
<1>3. Total(sent) = << >> /\ EndOfPacket(sent, 0) = 0
  BY <1>2, BetweenNothing, EmptySeq DEF Total, EndOfPacket
<1>4. Holds(NewRing, << >>, 0, 0) /\ NewRing \in Ring
  BY HoldsNew DEF Holds
<1>5. << >> = Slice(<< >>, 0, 0) /\ Len(<< >>) = 0
  <2>1. << >> \in Seq(Byte) /\ Len(<< >>) = 0
    BY EmptySeq
  <2> QED BY <2>1, SliceEnds
<1>6. sender \in Socket /\ receiver \in Socket /\ sender.ring = NewRing /\ receiver.ring = NewRing
  BY <1>1, <1>4 DEF Connected, Socket
<1>7. Whole(delivered, sent) /\ Len(delivered) = 0
  BY <1>1, <1>2, EmptySeq DEF Whole
<1>8. Carries(sent, sender, receiver, wire, Len(delivered), 0, 0)
  BY <1>1, <1>3, <1>4, <1>5, <1>6, <1>7 DEF Carries
<1> QED BY <1>1, <1>2, <1>6, <1>7, <1>8, EmptySeq DEF ConnectionInv, NoneLost

LEMMA SendKeepsAll ==
  ASSUME MessagesFit, ConnectionInv, NEW length \in Lengths, Send(length)
  PROVE  ConnectionInv'
<1> DEFINE packet == Packet(Len(sent) + 1, length)
<1>1. /\ IsConnected(sender) /\ Len(sent) < MaxPackets /\ SentOK(sent)
      /\ UNCHANGED << receiver, delivered, fault >>
  BY DEF Send, ConnectionInv
<1>2. PICK o \in SendPacket(sender.ring, packet, Room) :
        /\ sender' = IF o.ok THEN [sender EXCEPT !.ring = o.ring] ELSE Closed
        /\ wire' = IF IsConnected(receiver) THEN wire \o o.bytes ELSE << >>
        /\ sent' = IF o.queued THEN Append(sent, length) ELSE sent
  BY DEF Send, Transmit
<1>3. Extends(sent', sent)
  BY <1>1, <1>2, ExtendsItself, ExtendsByOne
<1>4. Total(sent') = IF o.queued THEN Total(sent) \o packet ELSE Total(sent)
  BY <1>1, <1>2, OneMore
<1>5. /\ packet \in Seq(Byte) /\ Len(packet) = 2 + length
      /\ 0 < Len(packet) /\ Len(packet) <= MaxSize
  <2> DEFINE t == Append(sent, length)
  <2>1. SentOK(t) /\ Len(t) = Len(sent) + 1 /\ t[Len(sent) + 1] = length /\ Len(sent) \in Nat
    BY <1>1, OneMore, LenProperties DEF SentOK
  <2> HIDE DEF t
  <2>2. PICK m \in 1 .. Len(t) : m = Len(sent) + 1
    BY <2>1
  <2>3. Packet(m, t[m]) \in Seq(Byte) /\ Len(Packet(m, t[m])) = 2 + t[m] /\ t[m] \in Nat
    BY <2>1, PacketGives
  <2>4. 2 + length <= MaxSize
    BY DEF MessagesFit, Header
  <2> QED BY <2>1, <2>2, <2>3, <2>4
<1> HIDE DEF packet
<1>6. SentOK(sent')
  BY <1>3 DEF Extends
<1>7. ASSUME Len(Total(sent')) < MaxSize PROVE NoneLost'
  <2>1. Len(Total(sent)) < MaxSize
    BY <1>3, <1>7, ExtendsLonger
  <2>2. /\ fault = "none" /\ Whole(delivered, sent)
        /\ sender \in Socket /\ receiver \in Socket /\ wire \in Seq(Byte)
    BY <2>1 DEF ConnectionInv, NoneLost
  <2>3. PICK r \in Nat, e \in Nat :
          Carries(sent, sender, receiver, wire, Len(delivered), r, e)
    BY <2>1 DEF ConnectionInv, NoneLost
  <2>4. Sends(o, Total(sent'), e)
    <3>1. Holds(sender.ring, Total(sent), e, Len(Total(sent)))
      BY <1>1, <2>3 DEF Carries
    <3>2. Room \in Int
      BY <2>2, LenProperties, WireAssumption DEF Room
    <3>3. o.queued => Len(Total(sent) \o packet) < MaxSize
      BY <1>4, <1>7
    <3>4. /\ o.queued => Sends(o, Total(sent) \o packet, e)
          /\ ~o.queued => Sends(o, Total(sent), e)
      BY <1>2, <1>5, <3>1, <3>2, <3>3, PacketSends
    <3> QED BY <1>4, <3>4
  <2>5. sender' \in Socket /\ (IsConnected(sender') => o.ok /\ sender'.ring = o.ring)
    <3>1. CASE o.ok
      <4>1. o.ring \in Ring
        BY <2>4, <3>1 DEF Sends, SendsUpTo, Holds
      <4> QED BY <1>2, <2>2, <3>1, <4>1 DEF Socket
    <3>2. CASE ~o.ok
      BY <1>2, <3>2, ClosedSocket
    <3> QED BY <3>1, <3>2
  <2>6. /\ wire' \in Seq(Byte)
        /\ \E q, f \in Nat : Carries(sent', sender', receiver, wire', Len(delivered), q, f)
    <3> DEFINE t == sent'
               left == sender'
               more == wire'
    <3>1. /\ Extends(t, sent) /\ Len(Total(t)) < MaxSize /\ Sends(o, Total(t), e)
          /\ IsConnected(left) => o.ok /\ left.ring = o.ring
          /\ more = IF IsConnected(receiver) THEN wire \o o.bytes ELSE << >>
      BY <1>2, <1>3, <1>7, <2>4, <2>5
    <3> HIDE DEF t, left, more
    <3>2. /\ more \in Seq(Byte)
          /\ \E q, f \in Nat : Carries(t, left, receiver, more, Len(delivered), q, f)
      BY <2>2, <2>3, <3>1, GoesOut
    <3> QED BY <3>2 DEF t, left, more
  <2>7. Whole(delivered, sent')
    BY <1>3, <1>7, <2>2, ExtendsLonger
  <2> QED BY <1>1, <2>2, <2>5, <2>6, <2>7 DEF NoneLost
<1> QED BY <1>6, <1>7 DEF ConnectionInv

LEMMA SenderPollKeepsAll ==
  ASSUME ConnectionInv, SenderPoll
  PROVE  ConnectionInv'
<1>1. /\ IsConnected(sender) /\ SentOK(sent)
      /\ UNCHANGED << receiver, sent, delivered, fault >>
  BY DEF SenderPoll, ConnectionInv
<1>2. PICK o \in IF Room > 0 THEN SendPending(sender.ring, Room)
                 ELSE {Outcome(sender.ring, << >>, TRUE)} :
        /\ sender' = IF o.ok /\ IsConnected(receiver)
                     THEN [sender EXCEPT !.ring = o.ring] ELSE Closed
        /\ wire' = IF IsConnected(receiver) THEN wire \o o.bytes ELSE << >>
  BY DEF SenderPoll, Transmit
<1>3. ASSUME Len(Total(sent)) < MaxSize PROVE NoneLost'
  <2>2. /\ fault = "none" /\ Whole(delivered, sent)
        /\ sender \in Socket /\ receiver \in Socket /\ wire \in Seq(Byte)
    BY <1>3 DEF ConnectionInv, NoneLost
  <2>3. PICK r \in Nat, e \in Nat :
          Carries(sent, sender, receiver, wire, Len(delivered), r, e)
    BY <1>3 DEF ConnectionInv, NoneLost
  <2>4. Sends(o, Total(sent), e)
    <3>1. Holds(sender.ring, Total(sent), e, Len(Total(sent))) /\ e <= Len(Total(sent))
      BY <1>1, <2>3 DEF Carries
    <3>2. Room \in Int
      BY <2>2, LenProperties, WireAssumption DEF Room
    <3>3. CASE Room > 0
      BY <1>2, <3>1, <3>2, <3>3, PendingSends
    <3>4. CASE ~(Room > 0)
      <4>1. o.bytes = << >> /\ o.ok /\ o.ring = sender.ring
        BY <1>2, <3>4 DEF Outcome
      <4>2. Slice(Total(sent), e, e) = << >>
        BY <1>1, <3>1, ExtendsItself, SliceEnds
      <4>3. SendsUpTo(o, Total(sent), e, e)
        BY <3>1, <4>1, <4>2 DEF SendsUpTo
      <4> QED BY <4>3 DEF Sends
    <3> QED BY <3>3, <3>4
  <2>5. sender' \in Socket /\ (IsConnected(sender') => o.ok /\ sender'.ring = o.ring)
    <3>1. CASE o.ok /\ IsConnected(receiver)
      <4>1. o.ring \in Ring
        BY <2>4, <3>1 DEF Sends, SendsUpTo, Holds
      <4> QED BY <1>2, <2>2, <3>1, <4>1 DEF Socket
    <3>2. CASE ~(o.ok /\ IsConnected(receiver))
      BY <1>2, <3>2, ClosedSocket
    <3> QED BY <3>1, <3>2
  <2>6. Extends(sent, sent)
    BY <1>1, ExtendsItself
  <2>7. /\ wire' \in Seq(Byte)
        /\ \E q, f \in Nat : Carries(sent, sender', receiver, wire', Len(delivered), q, f)
    BY <1>2, <1>3, <2>2, <2>3, <2>4, <2>5, <2>6, GoesOut
  <2> QED BY <1>1, <2>2, <2>5, <2>7 DEF NoneLost
<1> QED BY <1>1, <1>3 DEF ConnectionInv

LEMMA ReceiverPollKeepsAll ==
  ASSUME ConnectionInv, ReceiverPoll
  PROVE  ConnectionInv'
<1> DEFINE start == [ring |-> receiver.ring, delivered |-> delivered, coming |-> wire,
                     failed |-> FALSE, again |-> FALSE, closed |-> FALSE]
<1>1. /\ IsConnected(receiver) /\ SentOK(sent)
      /\ wire # << >> \/ ~IsConnected(sender)
      /\ UNCHANGED << sender, sent >>
  BY DEF ReceiverPoll, ConnectionInv
<1>2. PICK b \in Recv(start) :
        /\ receiver' = IF b.closed THEN Closed ELSE [receiver EXCEPT !.ring = b.ring]
        /\ wire' = IF b.closed THEN << >> ELSE b.coming
        /\ delivered' = b.delivered
        /\ fault' = IF b.failed THEN "verify" ELSE "none"
  BY DEF ReceiverPoll
<1>3. ASSUME Len(Total(sent)) < MaxSize PROVE NoneLost'
  <2>2. /\ fault = "none" /\ Whole(delivered, sent)
        /\ sender \in Socket /\ receiver \in Socket /\ wire \in Seq(Byte)
    BY <1>3 DEF ConnectionInv, NoneLost
  <2>3. PICK r \in Nat, e \in Nat :
          Carries(sent, sender, receiver, wire, Len(delivered), r, e)
    BY <1>3 DEF ConnectionInv, NoneLost
  <2>4. /\ r <= e /\ e <= Len(Total(sent))
        /\ Holds(receiver.ring, Total(sent), EndOfPacket(sent, Len(delivered)), r)
        /\ wire = Slice(Total(sent), r, e)
        /\ IsConnected(sender) => Holds(sender.ring, Total(sent), e, Len(Total(sent)))
    BY <1>1, <2>3 DEF Carries
  <2>5. start \in Progress
    BY <2>2, <2>4 DEF Progress, Whole, Holds
  <2>6. /\ start.ring = receiver.ring /\ start.delivered = delivered /\ start.coming = wire
        /\ ~start.failed /\ ~start.again /\ ~start.closed
    OBVIOUS
  <2> HIDE DEF start
  <2>7. GoesWell(start, r, Slice(Total(sent), r, e))
    BY <2>2, <2>4, <2>5, <2>6 DEF GoesWell
  <2>8. Received(b, e)
    <3>1. start.coming # << >> \/ ~IsConnected(sender)
      BY <1>1, <2>6
    <3> QED BY <1>1, <1>2, <2>4, <2>7, <3>1, RecvGoesWell
  <2>9. fault' = "none" /\ Whole(delivered', sent)
    BY <1>2, <2>8 DEF Received
  <2>10. CASE b.closed
    <3>1. receiver' \in Socket /\ ~IsConnected(receiver') /\ wire' = << >>
      BY <1>2, <2>10, ClosedSocket
    <3>2. Carries(sent, sender, receiver', wire', Len(delivered'), r, e)
      BY <2>4, <3>1 DEF Carries
    <3>3. wire' \in Seq(Byte)
      BY <3>1, EmptySeq
    <3>4. \E q, f \in Nat : Carries(sent, sender, receiver', wire', Len(delivered'), q, f)
      BY <3>2
    <3> QED BY <1>1, <2>2, <2>9, <3>1, <3>3, <3>4 DEF NoneLost
  <2>11. CASE ~b.closed
    <3>1. PICK v \in Nat : v <= e /\ GoesWell(b, v, Slice(Total(sent), v, e))
      BY <2>8, <2>11 DEF Received
    <3>2. /\ b \in Progress /\ b.coming = Slice(Total(sent), v, e)
          /\ Holds(b.ring, Total(sent), EndOfPacket(sent, Len(b.delivered)), v)
      BY <3>1 DEF GoesWell
    <3>3. b.ring \in Ring /\ b.coming \in Seq(Byte)
      BY <3>2 DEF Progress
    <3>4. receiver' = [receiver EXCEPT !.ring = b.ring] /\ wire' = b.coming
      BY <1>2, <2>11
    <3>5. receiver' \in Socket /\ receiver'.ring = b.ring
      BY <2>2, <3>3, <3>4 DEF Socket
    <3>6. Carries(sent, sender, receiver', wire', Len(delivered'), v, e)
      BY <1>2, <2>4, <3>1, <3>2, <3>4, <3>5 DEF Carries
    <3>7. \E q, f \in Nat : Carries(sent, sender, receiver', wire', Len(delivered'), q, f)
      BY <3>6
    <3> QED BY <1>1, <2>2, <2>9, <3>3, <3>4, <3>5, <3>7 DEF NoneLost
  <2> QED BY <2>10, <2>11
<1> QED BY <1>1, <1>3 DEF ConnectionInv

LEMMA DisconnectKeepsAll ==
  ASSUME ConnectionInv, SenderDisconnect \/ ReceiverDisconnect
  PROVE  ConnectionInv'
<1>1. SentOK(sent) /\ UNCHANGED << sent, delivered, fault >>
  BY DEF SenderDisconnect, ReceiverDisconnect, ConnectionInv
<1>2. ASSUME Len(Total(sent)) < MaxSize PROVE NoneLost'
  <2>1. /\ fault = "none" /\ Whole(delivered, sent)
        /\ sender \in Socket /\ receiver \in Socket /\ wire \in Seq(Byte)
    BY <1>2 DEF ConnectionInv, NoneLost
  <2>2. PICK r \in Nat, e \in Nat :
          Carries(sent, sender, receiver, wire, Len(delivered), r, e)
    BY <1>2 DEF ConnectionInv, NoneLost
  <2>3. CASE SenderDisconnect
    <3>1. sender' = Closed /\ UNCHANGED << receiver, wire >>
      BY <2>3 DEF SenderDisconnect
    <3>2. Carries(sent, sender', receiver, wire, Len(delivered), r, e)
      BY <2>2, <3>1, ClosedSocket DEF Carries
    <3>3. \E q, f \in Nat : Carries(sent, sender', receiver, wire, Len(delivered), q, f)
      BY <3>2
    <3> QED BY <1>1, <2>1, <3>1, <3>3, ClosedSocket DEF NoneLost
  <2>4. CASE ReceiverDisconnect
    <3>1. receiver' = Closed /\ wire' = << >> /\ sender' = sender
      BY <2>4 DEF ReceiverDisconnect
    <3>2. Carries(sent, sender, receiver', wire', Len(delivered), r, e)
      BY <2>2, <3>1, ClosedSocket DEF Carries
    <3>3. \E q, f \in Nat : Carries(sent, sender, receiver', wire', Len(delivered), q, f)
      BY <3>2
    <3> QED BY <1>1, <2>1, <3>1, <3>3, ClosedSocket, EmptySeq DEF NoneLost
  <2> QED BY <2>3, <2>4
<1> QED BY <1>1, <1>2 DEF ConnectionInv

LEMMA AlwaysConnectionInv ==
  ASSUME MessagesFit
  PROVE  PacketSpec => []ConnectionInv
<1>1. ASSUME ConnectionInv, [PacketNext]_packetVars
      PROVE  ConnectionInv'
  <2>1. CASE PacketNext
    <3>1. ASSUME NEW length \in Lengths, Send(length) PROVE ConnectionInv'
      BY <1>1, <3>1, SendKeepsAll
    <3>2. CASE SenderPoll
      BY <1>1, <3>2, SenderPollKeepsAll
    <3>3. CASE ReceiverPoll
      BY <1>1, <3>3, ReceiverPollKeepsAll
    <3>4. CASE SenderDisconnect \/ ReceiverDisconnect
      BY <1>1, <3>4, DisconnectKeepsAll
    <3> QED BY <2>1, <3>1, <3>2, <3>3, <3>4 DEF PacketNext
  <2>2. CASE UNCHANGED packetVars
    BY <1>1, <2>2 DEF packetVars, ConnectionInv, NoneLost
  <2> QED BY <1>1, <2>1, <2>2
<1> QED BY <1>1, InitConnection, PTL DEF PacketSpec

(* The bytes of the packets are those of the two properties. *)
LEMMA BytesAreTotal ==
  ASSUME SentOK(sent), NEW d \in Nat, d <= Len(sent)
  PROVE  BytesOfPackets(d + 1, Len(sent)) = Between(sent, d, Len(sent))
<1>1. PICK n \in Nat : n = Len(sent)
  BY LenProperties DEF SentOK
<1>2. n + 1 - (d + 1) = n - d /\ \A k \in 1 .. n - d : d + 1 + k - 1 = d + k
  BY <1>1
<1>3. [k \in 1 .. n + 1 - (d + 1) |-> Queued(d + 1 + k - 1)]
        = [k \in 1 .. n - d |-> Packet(d + k, sent[d + k])]
  BY <1>2 DEF Queued
<1> QED BY <1>1, <1>3 DEF BytesOfPackets, Between

LEMMA NoneLostIsReliable ==
  ASSUME ConnectionInv, NoneLost
  PROVE  Reliable
<1>1. /\ fault = "none" /\ Whole(delivered, sent) /\ SentOK(sent)
  BY DEF ConnectionInv, NoneLost
<1>2. PICK r \in Nat, e \in Nat : Carries(sent, sender, receiver, wire, Len(delivered), r, e)
  BY DEF NoneLost
<1>3. WholeInOrder
  <2>1. DOMAIN delivered = 1 .. Len(delivered)
    BY <1>1 DEF Whole
  <2> QED BY <1>1, <2>1 DEF WholeInOrder, Whole
<1>4. NothingLost
  <2> SUFFICES ASSUME IsConnected(sender), IsConnected(receiver)
               PROVE  Contents(receiver.ring) \o wire \o Contents(sender.ring)
                        = BytesOfPackets(Len(delivered) + 1, Len(sent))
    BY DEF NothingLost
  <2> DEFINE B == Total(sent)
             d == Len(delivered)
             E == EndOfPacket(sent, d)
             n == Len(sent)
  <2>1. /\ r <= e /\ e <= Len(B) /\ Holds(sender.ring, B, e, Len(B))
        /\ Holds(receiver.ring, B, E, r) /\ wire = Slice(B, r, e)
    BY <1>2 DEF Carries
  <2>2. /\ B \in Seq(Byte) /\ Len(B) \in Nat /\ E \in Nat /\ E <= r
        /\ d \in Nat /\ d <= n /\ n \in Nat
    BY <1>1, <2>1, LenProperties DEF Holds, Whole, SentOK
  <2>3. Contents(receiver.ring) = Slice(B, E, r) /\ Contents(sender.ring) = Slice(B, e, Len(B))
    BY <2>1, HoldsContents
  <2>4. Slice(B, E, r) \o Slice(B, r, e) = Slice(B, E, e)
    <3>1. B \in Seq(Byte) /\ E \in Nat /\ E <= r /\ r <= e /\ e <= Len(B)
      BY <2>1, <2>2
    <3> HIDE DEF B, E
    <3> QED BY <3>1, BytesJoin
  <2>5. Slice(B, E, e) \o Slice(B, e, Len(B)) = Slice(B, E, Len(B))
    <3>1. PICK l \in Nat : l = Len(B)
      BY <2>2
    <3>2. B \in Seq(Byte) /\ E \in Nat /\ E <= e /\ e <= l /\ l <= Len(B)
      BY <2>1, <2>2, <3>1
    <3> HIDE DEF B, E
    <3>3. Slice(B, E, e) \o Slice(B, e, l) = Slice(B, E, l)
      BY <3>2, BytesJoin
    <3> QED BY <3>1, <3>3
  <2>6. Slice(B, E, Len(B)) = Between(sent, d, n)
    <3>1. LiesIn(sent, d, n, n)
      <4>1. n \in 0 .. n /\ d \in 0 .. n
        BY <2>2
      <4> QED BY <1>1, <2>2, <4>1, PacketsFollow
    <3> QED BY <3>1 DEF LiesIn, Total, EndOfPacket
  <2>7. BytesOfPackets(d + 1, n) = Between(sent, d, n)
    BY <1>1, <2>2, BytesAreTotal
  <2> HIDE DEF B, d, E, n
  <2>8. Contents(receiver.ring) \o wire \o Contents(sender.ring) = BytesOfPackets(d + 1, n)
    BY <2>1, <2>3, <2>4, <2>5, <2>6, <2>7, Zenon
  <2> QED BY <2>8 DEF d, n
<1> QED BY <1>3, <1>4 DEF Reliable

(* Until as many bytes have been sent as a buffer holds, every connection is  *)
(* reliable and no assertion fails, whatever the operating system takes and   *)
(* gives.                                                                    *)
THEOREM ReliableUntilTheEnd ==
  ASSUME MessagesFit
  PROVE  PacketSpec => [](Len(BytesOfPackets(1, Len(sent))) < MaxSize => Reliable /\ NoFault)
<1>1. ConnectionInv => (Len(BytesOfPackets(1, Len(sent))) < MaxSize => Reliable /\ NoFault)
  <2> SUFFICES ASSUME ConnectionInv, Len(BytesOfPackets(1, Len(sent))) < MaxSize
               PROVE  Reliable /\ NoFault
    OBVIOUS
  <2>1. SentOK(sent) /\ 0 <= Len(sent)
    BY LenProperties DEF ConnectionInv, SentOK
  <2>2. BytesOfPackets(0 + 1, Len(sent)) = Total(sent)
    BY <2>1, BytesAreTotal DEF Total
  <2>3. NoneLost
    <3>1. 0 + 1 = 1
      OBVIOUS
    <3> QED BY <2>2, <3>1 DEF ConnectionInv
  <2> QED BY <2>3, NoneLostIsReliable DEF NoneLost, NoFault
<1> QED BY <1>1, AlwaysConnectionInv, PTL
=============================================================================
