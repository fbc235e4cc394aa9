-------------------------------- MODULE MCTask2 --------------------------------
(***************************************************************************)
(* The inputs of MCParallelTask2 that leave outdated entries in the queue, *)
(* repeat a merge within a word or need the tie-break, and triples of      *)
(* words that share a pair, some of it between equal tokens.  In the first *)
(* input a vector ends, for its word, with a position of another pair.     *)
(***************************************************************************)
EXTENDS Task2

Split(chars, count) == [chars |-> chars, count |-> count]

Corpora2 ==
    {<<Split(<<2, 1, 1, 2, 2, 1, 2>>, 1), Split(<<2, 1, 1>>, 1), Split(<<1, 2>>, 2)>>,
     <<Split(<<1, 2, 1>>, 1), Split(<<1, 1, 1, 2>>, 1), Split(<<1, 1, 2, 1>>, 2)>>,
     <<Split(<<2, 1, 2, 2, 1>>, 1), Split(<<2, 1, 2, 2, 2>>, 2)>>,
     <<Split(<<1, 2, 1, 2, 1, 2>>, 1), Split(<<1, 2, 1, 2>>, 1)>>,
     <<Split(<<1, 1, 1>>, 1), Split(<<1, 1, 2>>, 1),
       Split(<<2, 1, 1, 1>>, 1), Split(<<2, 1, 1, 2>>, 1)>>} \cup
    {<<Split(c[1], 1), Split(c[2], 2), Split(c[3], 1)>> :
        c \in {<<1, 2, 1, 2>>, <<1, 1, 1, 1>>}
              \X {<<1, 2, 1>>, <<2, 1, 1, 1>>}
              \X {<<1, 1>>, <<1, 2, 1, 2, 1>>, <<2, 1, 1>>}}
=============================================================================
