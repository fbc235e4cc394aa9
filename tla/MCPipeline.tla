------------------------------ MODULE MCPipeline ------------------------------
(***************************************************************************)
(* Files of up to nine bytes over two letters, a space 3 and the NUL, with *)
(* no word, one word, repeated words and words that merge; a disk with     *)
(* room for some of the lines, and one file with too many slots.           *)
(***************************************************************************)
EXTENDS Pipeline

SomeFiles ==
    {<< >>, <<3, 3>>, <<1, 2>>, <<1, 2, 3, 2, 1, 2>>, <<1, 2, 3, 1, 2, 1, 3, 1, 1>>,
     <<2, 1, 2, 3, 2, 1, 0, 1, 2>>, <<1, 3, 2, 3, 1, 1, 3, 2, 2>>}
=============================================================================
