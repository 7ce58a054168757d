----------------------------- MODULE BufferLoans -----------------------------
(***************************************************************************)
(* What a ring buffer shared with the GPU promises: the program is lent     *)
(* bytes that nobody uses, and hands some of them on to the GPU, which      *)
(* gives them back when its commands have completed.                        *)
(***************************************************************************)
CONSTANT Byte

VARIABLES
  cpu,    \* the bytes lent to the program
  gpu     \* the bytes that commands of the GPU may use

vars == << cpu, gpu >>

Init == cpu = {} /\ gpu = {}

Lend ==
  /\ cpu = {}
  /\ cpu' \in SUBSET (Byte \ gpu)
  /\ UNCHANGED gpu

Trim ==
  /\ cpu' \in SUBSET cpu
  /\ UNCHANGED gpu

HandOver ==
  /\ gpu' = gpu \cup cpu
  /\ cpu' = {}

Complete ==
  /\ gpu' \in SUBSET gpu
  /\ UNCHANGED cpu

Next == Lend \/ Trim \/ HandOver \/ Complete

Spec == Init /\ [][Next]_vars
=============================================================================
