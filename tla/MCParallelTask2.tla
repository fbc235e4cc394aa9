--------------------------- MODULE MCParallelTask2 ---------------------------
(***************************************************************************)
(* Small inputs for the merge loop.  parallel_task1 hands over the words   *)
(* in the order of a hash table, so every order of a set of words is an    *)
(* input of its own.                                                       *)
(***************************************************************************)
EXTENDS BpeRefinement

\* Words of given lengths over the bytes 1..2.
Words(lengths) == UNION {[1..n -> 1..2] : n \in lengths}

Split(chars, count) == [chars |-> chars, count |-> count]

\* Words whose merges leave outdated entries in the queue: a pair that has lost
\* occurrences but is still in two words, corrected before another pair of its
\* old count or after it.
StaleCorpora ==
    {<<Split(<<1, 2>>, 1), Split(<<1, 1, 2>>, 1), Split(<<1, 1, 1, 2>>, 1)>>,
     <<Split(<<1, 2, 1>>, 1), Split(<<1, 1, 1, 2>>, 1), Split(<<1, 1, 2, 1>>, 2)>>,
     <<Split(<<2, 1, 2>>, 1), Split(<<1, 2, 2, 2>>, 1), Split(<<2, 2, 1, 2>>, 1)>>,
     <<Split(<<1, 1, 1, 2, 1>>, 1), Split(<<2, 1, 2, 1, 1>>, 1)>>,
     <<Split(<<2, 1, 2, 2, 1>>, 1), Split(<<2, 1, 2, 2, 2>>, 2)>>}

\* Words in which a pair is born twice in one word, in which two pairs of equal
\* count differ only behind the fingerprint, and in which a token is the left
\* neighbour of two merges in different rounds.
LongCorpora ==
    {<<Split(<<1, 2, 1, 2, 1, 2>>, 1), Split(<<1, 2, 1, 2>>, 1)>>,
     <<Split(<<1, 1, 1>>, 1), Split(<<1, 1, 2>>, 1),
       Split(<<2, 1, 1, 1>>, 1), Split(<<2, 1, 1, 2>>, 1)>>,
     <<Split(<<2, 1, 1>>, 1), Split(<<2, 1, 2>>, 1), Split(<<1, 1>>, 1), Split(<<1, 2>>, 1)>>}

\* All ordered pairs of distinct words of 2 to 4 bytes, with two weightings.
PairCorpora ==
    StaleCorpora \cup LongCorpora \cup
    {<<Split(c[1], f), Split(c[2], 1)>> :
        c \in {d \in Words({3, 4}) \X Words({2, 3, 4}) : d[1] # d[2]}, f \in {1, 2}}

\* Words that share a pair and overlap, three of them over two threads, so that
\* one thread owns two words and takes them in either order.
ThreadCorpora ==
    StaleCorpora \cup LongCorpora \cup
    {<<Split(c[1], 1), Split(c[2], 2), Split(c[3], 1)>> :
        c \in {d \in {<<1, 1, 1>>, <<1, 2, 1, 2>>, <<2, 1, 1>>, <<1, 1, 1, 1>>,
                             <<1, 2, 1, 2, 1>>}
                      \X {<<1, 1, 1, 1>>, <<1, 2, 1>>, <<2, 1, 1, 1>>}
                      \X {<<1, 1>>, <<1, 2, 1, 2, 1>>, <<2, 1, 1>>} :
               d[1] # d[2] /\ d[2] # d[3] /\ d[1] # d[3]}}

\* Short words, two threads with a word each, and three words that leave an
\* outdated entry behind.
ShortCorpora ==
    {<<Split(<<1, 2>>, 1), Split(<<1, 1, 2>>, 1), Split(<<1, 1, 1, 2>>, 1)>>} \cup
    {<<Split(c[1], 1), Split(c[2], 2)>> :
        c \in {d \in Words({2, 3}) \X {<<1, 1>>, <<1, 2, 1>>, <<1, 1, 1>>} : d[1] # d[2]}}
=============================================================================
