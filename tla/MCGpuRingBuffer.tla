--------------------------- MODULE MCGpuRingBuffer ----------------------------
(***************************************************************************)
(* A small ring buffer for TLC: the run gives the capacity, the alignment   *)
(* and the sizes of requests, which include one of the whole capacity.      *)
(***************************************************************************)
EXTENDS GpuRingBuffer
=============================================================================
