------------------------------ MODULE MCTask1Seq ------------------------------
(***************************************************************************)
(* Bytes of 3 bits in chunks of 3: separators 0 and 2, a control byte 1    *)
(* below the limit 3 that is no separator, a byte 3 on the limit, and a    *)
(* byte 7 with the top bit set.  A byte 1 behind a NUL is what a borrow    *)
(* marks wrongly in haszero.  The longer inputs repeat words that span     *)
(* chunks, inside the buffer and at its end.                               *)
(*                                                                         *)
(* A hash of three values, which most inputs make collide.  It depends on  *)
(* every byte of a chunk that is no multiple of 3, so bytes behind a NUL   *)
(* would show in it.  In the last input two words differ in a chunk in     *)
(* front of their NULs and collide.                                        *)
(***************************************************************************)
EXTENDS Task1

ShortInputs ==
    UNION {[1..n -> {0, 1, 2, 3, 7}] : n \in 0..4} \cup
    {<<3, 1, 7, 2, 3, 1, 7>>, <<3, 3, 3, 3, 0, 1, 2, 2, 3, 3, 3, 3>>,
     <<7, 3, 2, 1, 7, 3, 0, 7>>, <<3, 7, 3, 7, 2, 3, 7, 3, 1, 2, 3, 7, 3, 7, 3>>} \cup
    {<<7, 7, 3, 3, 2, 3, 3, 3, 3, 2, 7>>} \cup
    [1..5 -> {1, 2, 3}]

SumModThree(mixed) == FoldLeft(LAMBDA h, c : (h + c) % 3, 0, mixed)
=============================================================================
