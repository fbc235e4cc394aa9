---------------------------- MODULE BpeRefinement ----------------------------
(***************************************************************************)
(* ParallelTask2 implements GreedyBPE: the properties of the merge loop    *)
(* that relate it to the words and texts themselves.                       *)
(***************************************************************************)
EXTENDS MergeLoopBook

Merging == phase \in {"walk", "sequential", "surgery", "replay"}

\* Where the tokens of word w begin.
LiveCut(w) == {i \in 1..Len(splits[w].chars) : alive[<<w, i>>]}

-----------------------------------------------------------------------------
(* Refinement.  The whole round counts as done when the pair is chosen:    *)
(* what is still to be merged is merged in the mapping.                    *)

GreedyCuts ==
    [w \in DOMAIN splits |->
        IF Merging THEN MergeWord(splits[w].chars, LiveCut(w), Texts(best)) ELSE LiveCut(w)]

Abstract == INSTANCE GreedyBPE WITH cuts <- GreedyCuts, halted <- (phase = "done")

\* PROPERTY.  Every run of the merge loop, under every interleaving of its
\* threads and every order of the words, is a run of greedy BPE on exact counts
\* that merges left to right, and it ends when greedy BPE does.
ImplementsGreedyBPE == Abstract!Spec

\* The tokens finalize_results reports are those of greedy BPE, in the same
\* order and with the same counts: token_count has lost no update.
ResultIsGreedy == phase = "done" => Abstract!IsResult(finalize_results)

-----------------------------------------------------------------------------
\* No two tokens have the same text, and no two pairs in use merge to the same
\* text: the tie-break decides every tie, whatever the order of words, births
\* and threads was.
TextsUnique ==
    /\ \A v, u \in DOMAIN vocabulary : vocabulary[v] = vocabulary[u] => v = u
    /\ Quiescent =>
         \A s, r \in {k \in DOMAIN book.pairs : book.pairs[k].count > 0} :
            Merged(Texts(s)) = Merged(Texts(r)) => s = r

\* The merge loop ends: the lazy queue is not refilled for ever, and no thread
\* is left with work at the barrier.
MergeLoopEnds == <>(phase = "done")
=============================================================================
