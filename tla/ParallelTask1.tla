---------------------------- MODULE ParallelTask1 ----------------------------
(***************************************************************************)
(* parallel_task1 and parallel_split_words of parallel.cpp: the words of   *)
(* the input and how often each occurs, counted by a team of threads.      *)
(*                                                                         *)
(*   mark    every separator becomes NUL, each thread in its own stretch   *)
(*   scan    each thread collects the word starts of its chunk; the first  *)
(*           byte of a chunk looks at the last byte of the chunk before    *)
(*   count   each thread counts its share of the words                     *)
(*   merge   the local counts are added up, a thread's after another's     *)
(*   done    the counts are copied out in the order of a hash table        *)
(*                                                                         *)
(* A barrier stands between the phases that have threads.  `at' is how far *)
(* a thread has come in its stretch.                                       *)
(***************************************************************************)
EXTENDS WordText, Bags

CONSTANTS
    Inputs,        \* the inputs: sequences of bytes
    max_threads,   \* omp_get_max_threads()
    Team           \* the thread numbers each parallel region really gets

Threads == 0..(max_threads - 1)

ASSUME ThreadAssumption ==
    max_threads \in Nat \ {0} /\ \E k \in 1..max_threads : Team = 0..(k - 1)
ASSUME InputAssumption == Inputs \subseteq Seq(Nat)

VARIABLES
    input,
    buf,             \* the input with a NUL pushed, rewritten in place
    phase,
    at,              \* thread -> next iteration of its loop
    local_words,     \* thread -> the word starts of its chunk
    words,           \* all word starts
    local_counts,    \* thread -> bag of the words it has counted
    merged_counts,   \* bag of the words merged so far
    char_splits      \* the result: sequence of [chars, count]

vars == <<input, buf, phase, at, local_words, words, local_counts, merged_counts, char_splits>>

n == Len(input) + 1

\* Mutant: the entry is made but not counted.
Added_Entry(bag, w) == [v \in BagToSet(bag) \cup {w} |-> IF v \in BagToSet(bag) THEN bag[v] ELSE 0]

\* ++mine[w].
Added(bag, w) == bag (+) SetToBag({w})

\* schedule(static): the iterations 0..count-1 that thread t gets.  The first
\* count % team threads get one more than the others.
Stretch(t, count) ==
    LET team  == Cardinality(Team)
        size  == count \div team
        extra == count % team
        first == IF t < extra THEN t * (size + 1) ELSE t * size + extra
    IN  first..(first + (IF t < extra THEN size ELSE size - 1))

Smaller(a, b) == IF a < b THEN a ELSE b

\* The chunk of the scan is sized by max_threads, not by the team.
Chunk(t) ==
    LET chunk == (n + max_threads - 1) \div max_threads
        lo    == Smaller(n, t * chunk)
    IN  lo..(Smaller(n, lo + chunk) - 1)

\* What thread t loops over in a phase.
Iterations(t) ==
    CASE phase = "mark"  -> Stretch(t, n)
      [] phase = "scan"  -> Chunk(t)
      [] phase = "count" -> Stretch(t, Len(words))

Left(t) == {i \in Iterations(t) : i >= at[t]}

\* Mutant: the region before it ends with nowait.
AllArrived_Nowait == \E t \in Team : Left(t) = {}

\* The barrier at the end of a parallel region.
AllArrived == \A t \in Team : Left(t) = {}

-----------------------------------------------------------------------------
Init ==
    /\ input \in Inputs
    /\ buf = Buffer(input)
    /\ phase = "mark"
    /\ at = [t \in Threads |-> 0]
    /\ local_words = [t \in Threads |-> << >>]
    /\ words = << >>
    /\ local_counts = [t \in Threads |-> EmptyBag]
    /\ merged_counts = EmptyBag
    /\ char_splits = << >>

\* The next iteration of thread t.
Iterate(t, i) ==
    /\ i \in Left(t)
    /\ \A j \in Left(t) : i <= j
    /\ at' = [at EXCEPT ![t] = i + 1]

Mark(t) ==
    /\ phase = "mark"
    /\ \E i \in Left(t) :
         /\ Iterate(t, i)
         /\ buf' = IF is_separator(buf[i]) THEN [buf EXCEPT ![i] = 0] ELSE buf
    /\ UNCHANGED <<input, phase, local_words, words, local_counts, merged_counts, char_splits>>

StartScan ==
    /\ phase = "mark"
    /\ AllArrived
    /\ phase' = "scan"
    /\ at' = [t \in Threads |-> 0]
    /\ UNCHANGED <<input, buf, local_words, words, local_counts, merged_counts, char_splits>>

\* Mutant: the first byte of a chunk is taken to start a word.
IsStart_Chunkwise(t, i) ==
    buf[i] # 0 /\ (\A j \in Chunk(t) : i <= j \/ (j = i - 1 => buf[j] = 0))

IsStart(t, i) == buf[i] # 0 /\ (i = 0 \/ buf[i - 1] = 0)

Scan(t) ==
    /\ phase = "scan"
    /\ \E i \in Left(t) :
         /\ Iterate(t, i)
         /\ local_words' = IF IsStart(t, i) THEN [local_words EXCEPT ![t] = Append(@, i)]
                           ELSE local_words
    /\ UNCHANGED <<input, buf, phase, words, local_counts, merged_counts, char_splits>>

\* The local words, concatenated by thread number.
StartCount ==
    /\ phase = "scan"
    /\ AllArrived
    /\ words' = FlattenSeq([k \in 1..max_threads |-> local_words[k - 1]])
    /\ phase' = "count"
    /\ at' = [t \in Threads |-> 0]
    /\ UNCHANGED <<input, buf, local_words, local_counts, merged_counts, char_splits>>

Count(t) ==
    /\ phase = "count"
    /\ \E i \in Left(t) :
         /\ Iterate(t, i)
         /\ local_counts' = [local_counts EXCEPT ![t] = Added(@, CString(buf, words[i + 1]))]
    /\ UNCHANGED <<input, buf, phase, local_words, words, merged_counts, char_splits>>

StartMerge ==
    /\ phase = "count"
    /\ AllArrived
    /\ phase' = "merge"
    /\ at' = [t \in Threads |-> 0]
    /\ UNCHANGED <<input, buf, local_words, words, local_counts, merged_counts, char_splits>>

\* Mutant: a word counted by two threads keeps the count of the later one.
Sum_Overwrites(merged, more) ==
    [w \in BagToSet(merged) \cup BagToSet(more) |->
        IF w \in BagToSet(more) THEN more[w] ELSE merged[w]]

Sum(merged, more) == merged (+) more

\* The master adds the counts of the next thread; at[0] counts them.
Merge ==
    /\ phase = "merge"
    /\ at[0] \in Threads
    /\ merged_counts' = Sum(merged_counts, local_counts[at[0]])
    /\ at' = [at EXCEPT ![0] = @ + 1]
    /\ UNCHANGED <<input, buf, phase, local_words, words, local_counts, char_splits>>

\* The orders in which a hash table may be gone through.
Orders(S) ==
    {order \in [1..Cardinality(S) -> S] : \A i, j \in DOMAIN order : i # j => order[i] # order[j]}

Finish ==
    /\ phase = "merge"
    /\ at[0] \notin Threads
    /\ \E order \in Orders(BagToSet(merged_counts)) :
         char_splits' = [k \in DOMAIN order |->
                           [chars |-> order[k], count |-> merged_counts[order[k]]]]
    /\ phase' = "done"
    /\ UNCHANGED <<input, buf, at, local_words, words, local_counts, merged_counts>>

Terminated == phase = "done" /\ UNCHANGED vars

ThreadStep(t) == Mark(t) \/ Scan(t) \/ Count(t)

MainStep == StartScan \/ StartCount \/ StartMerge \/ Merge \/ Finish

Next ==
    \/ \E t \in Team : ThreadStep(t)
    \/ MainStep
    \/ Terminated

Spec == Init /\ [][Next]_vars

-----------------------------------------------------------------------------
\* Type invariant.
TypeOK ==
    /\ input \in Inputs
    /\ buf \in [0..Len(input) -> Nat]
    /\ phase \in {"mark", "scan", "count", "merge", "done"}
    /\ at \in [Threads -> Nat]
    /\ local_words \in [Threads -> Seq(0..Len(input))]
    /\ words \in Seq(0..Len(input))
    /\ \A t \in Threads : IsABag(local_counts[t])
    /\ IsABag(merged_counts)
    /\ char_splits \in Seq([chars : Seq(Nat), count : Nat])

\* The chunks of the threads together find the words split_words finds: each
\* once, in the order of the input, the one across a chunk boundary too.
SplitExact ==
    phase \notin {"mark", "scan"} => InOrder(words, WordStarts(Buffer(input)))

Copies(w, bag) == IF BagIn(w, bag) THEN bag[w] ELSE 0

\* The places where w is still to be counted.
Uncounted(w) ==
    {k \in DOMAIN words : /\ phase = "count"
                          /\ CString(buf, words[k]) = w
                          /\ \E t \in Team : k - 1 \in Left(t)}

\* The local copies of w that are still to be merged.
Unmerged(w) ==
    UNION {{t} \X (1..Copies(w, local_counts[t])) :
             t \in {u \in Threads : phase = "merge" => u >= at[0]}}

\* No occurrence is lost or counted twice on its way from the words through the
\* local counts to the merged ones.
NothingLost ==
    phase \in {"count", "merge"} =>
        \A w \in Distinct(Buffer(input)) :
            Occurrences(Buffer(input), w) =
                Cardinality(Uncounted(w)) + Cardinality(Unmerged(w)) + Copies(w, merged_counts)

\* The result holds every word of the input once, with its number of occurrences,
\* and nothing else: the distinct words without NUL that parallel_task2 takes.
ResultExact == phase = "done" => IsTally(char_splits, Buffer(input))
=============================================================================
