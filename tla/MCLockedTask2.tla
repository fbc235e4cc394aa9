---------------------------- MODULE MCLockedTask2 ----------------------------
(***************************************************************************)
(* Two or three words over two threads that share the merged pair, with    *)
(* overlaps, repetitions within a word and outdated entries in the queue.  *)
(***************************************************************************)
EXTENDS LockedTask2

Split(chars, count) == [chars |-> chars, count |-> count]

Corpora2 ==
    {<<Split(<<1, 2, 1>>, 1), Split(<<1, 1, 1, 2>>, 1), Split(<<1, 1, 2, 1>>, 2)>>,
     <<Split(<<2, 1, 2, 2, 1>>, 1), Split(<<2, 1, 2, 2, 2>>, 2)>>,
     <<Split(<<1, 2, 1, 2, 1, 2>>, 1), Split(<<1, 2, 1, 2>>, 1)>>,
     <<Split(<<1, 1, 1>>, 1), Split(<<1, 1, 2>>, 1),
       Split(<<2, 1, 1, 1>>, 1), Split(<<2, 1, 1, 2>>, 1)>>,
     <<Split(<<1, 2>>, 1), Split(<<1, 2, 2>>, 1)>>} \cup
    {<<Split(c[1], 1), Split(c[2], 2), Split(c[3], 1)>> :
        c \in {<<1, 2, 1, 2>>, <<1, 1, 1, 1>>} \X {<<1, 2, 1>>, <<2, 1, 1, 1>>}
              \X {<<1, 1>>, <<1, 2, 1, 2>>}}
=============================================================================
