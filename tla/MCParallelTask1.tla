---------------------------- MODULE MCParallelTask1 ----------------------------
(***************************************************************************)
(* Inputs of up to four bytes over a space and two letters, and longer     *)
(* ones that repeat words: with the NUL that is pushed, chunks for three   *)
(* threads are uneven or empty, and they cut words and separators apart.   *)
(***************************************************************************)
EXTENDS ParallelTask1

SmallInputs ==
    UNION {[1..len -> {1, 2, 3}] : len \in 0..4}
        \cup {<<3, 1, 3, 1, 3, 2>>, <<3, 3, 1, 3, 3, 1, 2>>, <<3, 0, 3, 1, 3>>}
=============================================================================
