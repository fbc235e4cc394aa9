----------------------------- MODULE MCQueueHeap -----------------------------
(***************************************************************************)
(* Up to eight entries of three ranks: a full first level of four children *)
(* and leaves below it, and many entries the order does not tell apart.    *)
(***************************************************************************)
EXTENDS QueueHeap

Below(l, r) == l < r
=============================================================================
