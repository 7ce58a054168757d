---------------------------- MODULE GpuRingBuffer -----------------------------
(***************************************************************************)
(* The ring buffer through which the renderers stream data to the GPU      *)
(* (erhe/renderer/gpu_ring_buffer.cpp).                                    *)
(*                                                                         *)
(* A renderer opens a range of bytes, writes some of them, closes the       *)
(* range, draws with it and submits it (or cancels it when there is nothing *)
(* to draw).  submit() puts a fence behind the draw commands; the bytes may *)
(* be written again only when the GPU has reached the fence.  Every ring    *)
(* has one range in use at a time: each renderer submits or cancels its     *)
(* range before it opens the next one.                                      *)
(*                                                                         *)
(* open() waits in a loop while the GPU goes on; the turns of the loop are  *)
(* actions of their own, and so is the completion of a fence.               *)
(***************************************************************************)
EXTENDS Integers, Sequences

CONSTANTS
  Capacity,     \* bytes of the buffer
  Alignment,    \* what align_buffer_offset() rounds up to
  Requests,     \* byte counts that open() is called with; 0 asks for what there is
  MaxWraps      \* bound: no range is opened once the buffer has wrapped this often

ASSUME CapacityAssumption == Capacity \in Nat
ASSUME AlignmentAssumption == Alignment \in Nat \ {0}
ASSUME RequestsAssumption == Requests \subseteq Nat
ASSUME WrapsAssumption == MaxWraps \in Nat

VARIABLES
  write_position,     \* m_write_position
  write_wrap_count,   \* m_write_wrap_count
  read_wrap_count,    \* m_read_wrap_count
  read_offset,        \* m_read_offset: the first offset that cannot be written
  sync_entries,       \* m_sync_entries, the oldest first
  range               \* the call of open() in progress, or the range it returned

write == << write_position, write_wrap_count >>
read == << read_wrap_count, read_offset >>
vars == << write, read, sync_entries, range >>

(* done: the fence is signalled, or there is none (padding, cancelled).     *)
SyncEntry == [wrap : Nat, offset : Nat, count : Nat, done : BOOLEAN]

(* phase: opening before the first update_entries() of open(), stalled after *)
(* it; size is the byte count asked for, then the size of the span.          *)
BufferRange ==
  [phase : {"none", "opening", "stalled", "open", "closed"},
   wrap : Nat, offset : Nat, size : Nat, written : Nat]

NoRange == [phase |-> "none", wrap |-> 0, offset |-> 0, size |-> 0, written |-> 0]

Init ==
  /\ write_position = 0 /\ write_wrap_count = 1
  /\ read_wrap_count = 0 /\ read_offset = Capacity
  /\ sync_entries = << >>
  /\ range = NoRange

-----------------------------------------------------------------------------
(* get_size_available_for_write() *)

WriteIsAhead == write_wrap_count = read_wrap_count + 1

AlignmentGap == (Alignment - (write_position % Alignment)) % Alignment

(* Mutant: the GPU is forgotten when the write position is one wrap ahead.  *)
EndOfBuffer == Capacity

(* Where the free bytes after the write position end. *)
FreeEnd == IF WriteIsAhead THEN read_offset ELSE Capacity

(* Mutant: the gap before the aligned position is taken for free. *)
AvailableBeforeAlignment == FreeEnd - write_position

AvailableWithoutWrap ==
  IF FreeEnd - write_position > AlignmentGap
  THEN FreeEnd - write_position - AlignmentGap ELSE 0

AvailableWithWrap == IF WriteIsAhead THEN 0 ELSE read_offset

-----------------------------------------------------------------------------
(* open() *)

Open(n) ==
  /\ range.phase = "none"
  /\ write_wrap_count < MaxWraps
  /\ range' = [NoRange EXCEPT !.phase = "opening", !.size = n]
  /\ UNCHANGED << write, read, sync_entries >>

Opening == range.phase \in {"opening", "stalled"}

ByteCount ==
  IF range.size # 0 THEN range.size
  ELSE IF AvailableWithoutWrap >= AvailableWithWrap THEN AvailableWithoutWrap
  ELSE AvailableWithWrap

FitsAhead == ByteCount <= AvailableWithoutWrap
FitsWrapped == ~FitsAhead /\ ByteCount <= AvailableWithWrap

Opened(wrap, offset) ==
  [phase |-> "open", wrap |-> wrap, offset |-> offset, size |-> ByteCount, written |-> 0]

TakeAhead ==
  /\ Opening
  /\ FitsAhead
  /\ write_position' = write_position
                       + IF AvailableWithoutWrap > 0 THEN AlignmentGap ELSE 0
  /\ range' = Opened(write_wrap_count, write_position')
  /\ UNCHANGED << write_wrap_count, read, sync_entries >>

(* Mutant: the end of the buffer gets an entry of the next wrap. *)
PaddingOfNextWrap ==
  [wrap |-> write_wrap_count + 1, offset |-> write_position,
   count |-> Capacity - write_position, done |-> TRUE]

(* wrap_write(): an entry without a fence covers the rest of the buffer. *)
Padding ==
  [wrap |-> write_wrap_count, offset |-> write_position,
   count |-> Capacity - write_position, done |-> TRUE]

TakeWrapped ==
  /\ Opening
  /\ FitsWrapped
  /\ sync_entries' = IF write_position = Capacity THEN sync_entries
                     ELSE Append(sync_entries, Padding)
  /\ write_wrap_count' = write_wrap_count + 1
  /\ write_position' = 0
  /\ range' = Opened(write_wrap_count + 1, 0)
  /\ UNCHANGED read

(* update_entries(): the first k entries are done and the next one is not.  *)
FirstPending(k) ==
  /\ \A i \in 1 .. k : sync_entries[i].done
  /\ k < Len(sync_entries) => ~sync_entries[k + 1].done

ReadUpTo(k) ==
  IF k = 0 THEN UNCHANGED read
  ELSE /\ read_wrap_count' = sync_entries[k].wrap
       /\ read_offset' = sync_entries[k].offset + sync_entries[k].count

After(k) == SubSeq(sync_entries, k + 1, Len(sync_entries))

AllDone(entries) == [i \in DOMAIN entries |-> [entries[i] EXCEPT !.done = TRUE]]

(* The first time nothing fits, the loop only looks at the fences.          *)
UpdateAndRetry ==
  /\ range.phase = "opening"
  /\ ~FitsAhead /\ ~FitsWrapped
  /\ \E k \in 0 .. Len(sync_entries) :
       /\ FirstPending(k)
       /\ ReadUpTo(k)
       /\ sync_entries' = After(k)
  /\ range' = [range EXCEPT !.phase = "stalled"]
  /\ UNCHANGED write

(* Mutant: the loop waits without looking at the fences again. *)
StallOnly ==
  /\ range.phase = "stalled"
  /\ ~FitsAhead /\ ~FitsWrapped
  /\ sync_entries' = AllDone(sync_entries)
  /\ UNCHANGED << write, read, range >>

(* Later it also waits, gl::finish(), until the GPU has done everything.     *)
StallForGpu ==
  /\ range.phase = "stalled"
  /\ ~FitsAhead /\ ~FitsWrapped
  /\ \E k \in 0 .. Len(sync_entries) :
       /\ FirstPending(k)
       /\ ReadUpTo(k)
       /\ sync_entries' = AllDone(After(k))
  /\ UNCHANGED << write, range >>

-----------------------------------------------------------------------------
(* Buffer_range *)

Close(n) ==
  /\ range.phase = "open"
  /\ n <= range.size
  /\ write_position' = write_position + n
  /\ range' = [range EXCEPT !.phase = "closed", !.written = n]
  /\ UNCHANGED << write_wrap_count, read, sync_entries >>

Entry(done) ==
  [wrap |-> range.wrap, offset |-> range.offset, count |-> range.written, done |-> done]

(* Nothing is pushed for a range without bytes. *)
Push(done) ==
  /\ range.phase = "closed"
  /\ sync_entries' = IF range.written = 0 THEN sync_entries
                     ELSE Append(sync_entries, Entry(done))
  /\ range' = NoRange
  /\ UNCHANGED << write, read >>

Submit == Push(FALSE)
Cancel == Push(TRUE)

(* The GPU reaches a fence. update_entries() does not rely on their order.  *)
Signal(i) ==
  /\ ~sync_entries[i].done
  /\ sync_entries' = [sync_entries EXCEPT ![i].done = TRUE]
  /\ UNCHANGED << write, read, range >>

OpenLoop == TakeAhead \/ TakeWrapped \/ UpdateAndRetry \/ StallForGpu

Next ==
  \/ \E n \in Requests : Open(n)
  \/ OpenLoop
  \/ \E n \in 0 .. Capacity : Close(n)
  \/ Submit
  \/ Cancel
  \/ \E i \in DOMAIN sync_entries : Signal(i)

Spec == Init /\ [][Next]_vars

(* open() is a loop that keeps running. Nothing is assumed of the GPU except *)
(* what gl::finish() promises.                                              *)
FairSpec == Spec /\ WF_vars(OpenLoop)

-----------------------------------------------------------------------------
(* Properties *)

(* Positions stay in the buffer, entries cover bytes of the buffer.         *)
TypeOK ==
  /\ write_position \in 0 .. Capacity /\ write_wrap_count \in Nat
  /\ read_offset \in 0 .. Capacity /\ read_wrap_count \in Nat
  /\ sync_entries \in Seq(SyncEntry)
  /\ range \in BufferRange

(* sanity_check() never finds the positions out of order.                   *)
PositionsInOrder ==
  \/ WriteIsAhead /\ write_position <= read_offset
  \/ write_wrap_count = read_wrap_count /\ read_offset <= write_position

(* Whenever update_entries() takes an entry out, the read position it makes  *)
(* of it passes the checks against the write position of that moment.       *)
EntriesInOrder ==
  \A i \in DOMAIN sync_entries :
    LET e == sync_entries[i]
        end == e.offset + e.count
    IN  \/ write_wrap_count = e.wrap + 1 /\ end >= write_position
        \/ write_wrap_count = e.wrap /\ write_position >= end

SanityChecksHold == PositionsInOrder /\ EntriesInOrder

Bytes(offset, count) == offset .. offset + count - 1

LentBytes ==
  CASE range.phase = "open" -> Bytes(range.offset, range.size)
    [] range.phase = "closed" -> Bytes(range.offset, range.written)
    [] OTHER -> {}

PendingBytes(entries) ==
  UNION {Bytes(entries[i].offset, entries[i].count) :
           i \in {i \in DOMAIN entries : ~entries[i].done}}

GpuBytes == PendingBytes(sync_entries)

(* The range that a renderer writes to shares no byte with what the GPU may  *)
(* still be reading, across wraps, paddings and fences out of order.        *)
NoOverwrite == LentBytes \cap GpuBytes = {}

(* The read position only moves forward, by less than a wrap.                *)
ReadNeverGoesBack ==
  [][ \/ read_wrap_count' = read_wrap_count /\ read_offset' >= read_offset
      \/ read_wrap_count' = read_wrap_count + 1 ]_vars

(* The ring lends only bytes that neither side uses.                         *)
Loans == INSTANCE BufferLoans WITH Byte <- 0 .. Capacity - 1,
                                   cpu <- LentBytes, gpu <- GpuBytes
LendsOnlyFreeBytes == Loans!Spec

SmallRequest == Opening /\ 2 * range.size <= Capacity

(* open() returns for every request of at most half the capacity, whatever   *)
(* the ring holds. (A larger one may not fit on either side of the write     *)
(* position although the ring is empty, and is then waited for without end.) *)
OpenReturns == SmallRequest ~> range.phase = "open"
=============================================================================
