------------------------------ MODULE ByteQueue ------------------------------
(***************************************************************************)
(* What a ring buffer promises: a queue of bytes of limited length, from    *)
(* which bytes come out in the order in which they went in.                 *)
(***************************************************************************)
EXTENDS Naturals, Sequences

CONSTANT Limit

VARIABLES
  queue,
  moved     \* the bytes that the last call put in or took out

vars == << queue, moved >>

Init == queue = << >> /\ moved = << >>

Put ==
  /\ queue' = queue \o moved'
  /\ Len(queue') <= Limit

Take == queue = moved' \o queue'

Clear == queue' = << >> /\ moved' = << >>

Next == Put \/ Take \/ Clear

Spec == Init /\ [][Next]_vars
=============================================================================
