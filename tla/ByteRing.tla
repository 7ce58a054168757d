------------------------------- MODULE ByteRing ------------------------------
(***************************************************************************)
(* The ring buffer of a socket (erhe/net/ring_buffer.cpp) as a value, and   *)
(* what each of its member functions makes of it.                           *)
(*                                                                         *)
(* Two offsets that are equal say nothing about how much there is between  *)
(* them: that is what full is for, and every function sets it again.       *)
(***************************************************************************)
EXTENDS Integers, Sequences

CONSTANTS
  MaxSize,    \* m_max_size
  Byte,       \* what may be stored
  Blank       \* what a new buffer holds

ASSUME MaxSizeAssumption == MaxSize \in Nat \ {0}
ASSUME BlankAssumption == Blank \in Byte

Offset == 0 .. MaxSize - 1

(* An offset plus at most MaxSize, % m_max_size. *)
Wrapped(i) == IF i < MaxSize THEN i ELSE i - MaxSize

Ring == [buffer : [Offset -> Byte], read : Offset, write : Offset, full : BOOLEAN]

NewRing == [buffer |-> [i \in Offset |-> Blank], read |-> 0, write |-> 0, full |-> FALSE]

Reset(r) == [r EXCEPT !.read = 0, !.write = 0, !.full = FALSE]

-----------------------------------------------------------------------------
IsEmpty(r) == ~r.full /\ r.read = r.write

Size(r) ==
  IF r.full THEN MaxSize
  ELSE IF r.write >= r.read THEN r.write - r.read
  ELSE MaxSize + r.write - r.read

FreeSize(r) == MaxSize - Size(r)

Least(m, n) == IF m <= n THEN m ELSE n

(* begin_produce() and begin_consume() tell how much can be written or read  *)
(* up to the end of the buffer and how much after that.                     *)
FreeBeforeWrap(r) == Least(FreeSize(r), MaxSize - r.write)
FreeAfterWrap(r) == FreeSize(r) - FreeBeforeWrap(r)
UsedBeforeWrap(r) == Least(Size(r), MaxSize - r.read)
UsedAfterWrap(r) == Size(r) - UsedBeforeWrap(r)

(* peek(): the first n bytes, or as many as there are. *)
Peek(r, n) ==
  [k \in 1 .. Least(n, Size(r)) |-> r.buffer[Wrapped(r.read + k - 1)]]

Contents(r) == Peek(r, MaxSize)

-----------------------------------------------------------------------------
(* Mutant: a buffer that was filled up counts as empty. *)
EndProduceNeverFull(r, n) ==
  [r EXCEPT !.write = Wrapped(r.write + n), !.full = FALSE]

EndProduce(r, n) ==
  LET write == Wrapped(r.write + n)
  IN  [r EXCEPT !.write = write, !.full = (write = r.read)]

EndConsume(r, n) ==
  [r EXCEPT !.read = Wrapped(r.read + n), !.full = FALSE]

(* Bytes copied to the write offset and on, around the end of the buffer. *)
Stored(r, bytes) ==
  [r EXCEPT !.buffer = [i \in Offset |->
     LET k == 1 + IF i >= r.write THEN i - r.write ELSE i - r.write + MaxSize
     IN  IF k <= Len(bytes) THEN bytes[k] ELSE @[i]]]

Accepted(r, bytes) == SubSeq(bytes, 1, Least(FreeSize(r), Len(bytes)))

(* write() stores what fits; read() and discard() take out what there is. *)
Write(r, bytes) ==
  LET accepted == Accepted(r, bytes)
  IN  IF accepted = << >> THEN r ELSE EndProduce(Stored(r, accepted), Len(accepted))

Read(r, n) ==
  LET count == Least(n, Size(r))
  IN  IF count = 0 THEN r ELSE EndConsume(r, count)

(* rotate() moves the bytes so that the first one comes to offset 0. It      *)
(* leaves the offsets alone.                                                *)
Rotate(r) ==
  [r EXCEPT !.buffer = [i \in Offset |-> @[Wrapped(i + r.read)]]]
=============================================================================
