-------------------------------- MODULE Task2 --------------------------------
(***************************************************************************)
(* The sequential reference task2.cpp and the experimental version v3 of   *)
(* parallel task 2, which copies it and adds a parallel region.            *)
(*                                                                         *)
(* Their phases are those of ParallelTask2, of which every action that has *)
(* the same text is taken as it is (Loop!...).  What differs: the vectors  *)
(* of VectorRegistry; and in v3, words that any thread may take, and the   *)
(* removal of the round's own pair in one batch.  v3 leaves edge_group of  *)
(* the merged positions naming groups that the batch has recycled.         *)
(***************************************************************************)
EXTENDS VectorRegistry, BpeText, SequencesExt

CONSTANTS
    Corpora, byte_max,
    Versions,                          \* "task2", "v3" or both
    kParallelThreshold, max_threads,   \* as in ParallelTask2
    Team

VARIABLES
    version,
    splits, token, alive, next, previous, token_count, vocabulary, book, queue,
    phase, cursor, best, positions, word, index, held, events, total_frequency,
    active_words,   \* the words of this round that no thread has taken
    own_group,      \* thread -> own_group_for_word
    own_groups      \* thread -> local_own_groups

\* The variables of ParallelTask2, and the properties of BpeRefinement.  There the
\* words are dealt out beforehand, thread by thread; here they are one pool.
Loop == INSTANCE BpeRefinement WITH bucket <- active_words

chain  == <<token, alive, next, previous>>
thread == <<active_words, word, index, held>>
own    == <<own_group, own_groups>>
vars   == <<version, splits, chain, token_count, vocabulary, book, queue, phase, cursor,
            best, positions, thread, events, total_frequency, own>>

Threads == 0..(max_threads - 1)

self_pair == Loop!left_token = Loop!right_token

RunsParallel(list) == version = "v3" /\ Len(list) >= kParallelThreshold /\ max_threads > 1

Init ==
    /\ version \in Versions
    /\ Loop!InitInput
    /\ book = EmptyBook(Loop!Position)
    /\ active_words = {} /\ total_frequency = 0
    /\ events = [t \in Threads |-> << >>]
    /\ own_group = [t \in Threads |-> no_position]
    /\ own_groups = [t \in Threads |-> << >>]

BuildPosition ==
    /\ phase = "build"
    /\ cursor[1] \in DOMAIN splits
    /\ alive[cursor]
    /\ token_count' = [token_count EXCEPT ![token[cursor]] = @ + Loop!Frequency(cursor)]
    /\ book' = IF Loop!is_live(next[cursor])
               THEN build_edge(book, cursor, <<token[cursor], token[next[cursor]]>>,
                               cursor[1], Loop!Frequency(cursor))
               ELSE book
    /\ cursor' = next[cursor]
    /\ UNCHANGED <<splits, chain, vocabulary, queue, phase, best, positions,
                   thread, events, total_frequency>>

\* The chosen pair's vector is moved out and its text enters the vocabulary.
PopBest ==
    /\ phase = "pop"
    /\ \E e \in Loop!Top :
         LET key  == book.pairs[e.state].key
             list == book.listed[e.state]
         IN  /\ Loop!Eligible(e.state)
             /\ e.count = book.pairs[e.state].count
             /\ queue' = queue \ {e}
             /\ best' = e.state
             /\ positions' = list
             /\ book' = [book EXCEPT !.listed[e.state] = << >>]
             /\ vocabulary' = Append(vocabulary, vocabulary[key[1]] \o vocabulary[key[2]])
             /\ token_count' = Append(token_count, 0)
             /\ phase' = IF RunsParallel(list) THEN "surgery" ELSE "sequential"
             /\ active_words' = IF RunsParallel(list) THEN {list[k][1] : k \in DOMAIN list} ELSE {}
    /\ UNCHANGED <<splits, chain, cursor, word, index, held, events, total_frequency>>

-----------------------------------------------------------------------------
(* The edges of an occurrence; `keeps' says that its own edge is left to   *)
(* the batch.                                                              *)

RemoveEdges(b, ev, keeps) ==
    LET f  == Loop!Frequency(ev.position)
        b1 == IF ev.left = no_position THEN b ELSE remove_edge(b, ev.left, f)
        b2 == IF keeps THEN b1 ELSE remove_edge(b1, ev.position, f)
    IN  IF ev.after = no_position THEN [b2 EXCEPT !.edge_group[ev.right] = no_position]
        ELSE remove_edge(b2, ev.right, f)

AddEdges(b, ev, merged) ==
    LET f  == Loop!Frequency(ev.position)
        w  == ev.position[1]
        l  == get_left_pair_state(b, ev.left_token, merged)
        b1 == IF ev.left = no_position THEN b ELSE add_edge(l.book, ev.left, l.state, w, f)
        r  == get_right_pair_state(b1, merged, ev.after_token)
    IN  IF ev.after = no_position THEN b1 ELSE add_edge(r.book, ev.position, r.state, w, f)

Rewire(ev, keeps) ==
    \E removed \in {RemoveEdges(book, ev, keeps)} :
        /\ book' = IF removed.aborted THEN removed ELSE AddEdges(removed, ev, Loop!merged_token)
        /\ phase' = IF removed.aborted THEN "aborted" ELSE phase

MergePosition ==
    /\ phase = "sequential"
    /\ positions # << >>
    /\ LET n == Loop!Neighbours(Head(positions))
       IN  /\ Loop!pair_is_at(Head(positions), Loop!left_token, Loop!right_token)
           /\ Rewire(Loop!MergeEvent(n), FALSE)
           /\ Loop!Splice(n, Loop!merged_token)
           /\ token_count' = Loop!CountMerged(Loop!Frequency(n.position))
    /\ positions' = Tail(positions)
    /\ UNCHANGED <<splits, vocabulary, queue, cursor, best, thread, events, total_frequency>>

-----------------------------------------------------------------------------
(* The parallel region of v3.                                              *)

\* omp for, schedule(dynamic): whichever thread is free takes a word.
TakeWord(t) ==
    /\ phase = "surgery"
    /\ word[t] = 0
    /\ \E w \in active_words : /\ word' = [word EXCEPT ![t] = w]
                               /\ active_words' = active_words \ {w}
    /\ index' = [index EXCEPT ![t] = 0]
    /\ UNCHANGED <<splits, chain, token_count, vocabulary, book, queue, phase, cursor,
                   best, positions, held, events, total_frequency, own>>

\* Mutant: the group is taken from the word's last occurrence that is looked at.
Resolve_AnyGroup(t) ==
    /\ Loop!Resolve(t)
    /\ own_group' = IF self_pair \/ index'[t] = 0 THEN own_group
                    ELSE [own_group EXCEPT ![t] = book.edge_group[positions[index'[t]]]]
    /\ UNCHANGED own_groups

\* The group is captured at the word's first occurrence, except for a pair of
\* equal tokens.
Resolve(t) ==
    /\ Loop!Resolve(t)
    /\ own_group' = IF held'[t] = no_position \/ self_pair \/ own_group[t] # no_position
                    THEN own_group
                    ELSE [own_group EXCEPT ![t] = book.edge_group[held'[t].position]]
    /\ UNCHANGED own_groups

\* std::abort() if the first occurrence was in no group.
Apply(t) ==
    /\ phase = "surgery"
    /\ held[t] # no_position
    /\ Loop!Splice(held[t], Loop!merged_token)
    /\ events' = [events EXCEPT ![t] = Append(@, Loop!MergeEvent(held[t]))]
    /\ total_frequency' = total_frequency + Loop!Frequency(held[t].position)
    /\ held' = [held EXCEPT ![t] = no_position]
    /\ phase' = IF ~self_pair /\ own_group[t] = no_position THEN "aborted" ELSE phase
    /\ UNCHANGED <<splits, token_count, vocabulary, book, queue, cursor, best, positions,
                   active_words, word, index, own>>

FinishWord(t) ==
    /\ phase = "surgery"
    /\ word[t] # 0
    /\ Loop!Remaining(t) = {}
    /\ held[t] = no_position
    /\ word' = [word EXCEPT ![t] = 0]
    /\ own_groups' = IF own_group[t] = no_position THEN own_groups
                     ELSE [own_groups EXCEPT ![t] = Append(@, own_group[t])]
    /\ own_group' = [own_group EXCEPT ![t] = no_position]
    /\ UNCHANGED <<splits, chain, token_count, vocabulary, book, queue, phase, cursor,
                   best, positions, active_words, index, held, events, total_frequency>>

-----------------------------------------------------------------------------
(* The batch: the round's own pair loses all its occurrences at once.      *)

\* Mutant: counted at every merge.
words_merged_PerMerge ==
    Cardinality({<<t, i>> \in Threads \X (1..Len(positions)) : i \in DOMAIN events[t]})

words_merged ==
    Cardinality({<<t, i>> \in Threads \X (1..Len(positions)) : i \in DOMAIN own_groups[t]})

\* Mutant: a word is counted only once it has no occurrence left.
WithoutAll_Count(pair, frequency, words) ==
    [pair EXCEPT !.count = @ - frequency, !.last_word = no_position, !.last_group = no_position]

WithoutAll(pair, frequency, words) ==
    [pair EXCEPT !.count = @ - frequency, !.word_count = @ - words,
                 !.last_word = no_position, !.last_group = no_position]

\* The captured groups go on the free list, thread after thread.
Recycled(b) ==
    LET Groups == FlattenSeq([k \in 1..max_threads |-> own_groups[k - 1]])
        Freed(c, group) == [c EXCEPT !.group_count[group] = c.free_head, !.free_head = group]
    IN  FoldLeft(Freed, b, Groups)

BatchAborts ==
    /\ ~self_pair
    /\ \/ book.pairs[best].count < total_frequency
       \/ book.pairs[best].word_count < words_merged

Batched(b) ==
    IF self_pair THEN b
    ELSE Recycled([b EXCEPT !.pairs[best] = WithoutAll(@, total_frequency, words_merged)])

\* The barrier, the batch and the token counts.
Join ==
    /\ phase = "surgery"
    /\ active_words = {}
    /\ \A t \in Threads : word[t] = 0
    /\ book' = Batched(book)
    /\ phase' = IF BatchAborts THEN "aborted" ELSE "replay"
    /\ token_count' = Loop!CountMerged(total_frequency)
    /\ total_frequency' = 0
    /\ positions' = << >>
    /\ index' = [t \in Threads |-> 0]
    /\ own_groups' = [t \in Threads |-> << >>]
    /\ UNCHANGED <<splits, chain, vocabulary, queue, cursor, best, active_words, word,
                   held, events, own_group>>

ReplayEvent ==
    /\ phase = "replay"
    /\ \E t \in Threads :
         /\ events[t] # << >>
         /\ \A u \in Threads : u < t => events[u] = << >>
         /\ Rewire(Head(events[t]), ~self_pair)
         /\ events' = [events EXCEPT ![t] = Tail(@)]
    /\ UNCHANGED <<splits, chain, token_count, vocabulary, queue, cursor, best,
                   positions, thread, total_frequency>>

-----------------------------------------------------------------------------
SharedStep ==
    \/ Loop!BuildNextWord \/ Loop!StartMerging
    \/ Loop!PopIneligible \/ Loop!PopOutdated \/ Loop!Finish
    \/ Loop!SkipPosition \/ Loop!EndRound
    \/ Loop!Terminated

MainStep == SharedStep \/ BuildPosition \/ PopBest \/ MergePosition \/ ReplayEvent

ThreadStep(t) == TakeWord(t) \/ Resolve(t) \/ Apply(t) \/ FinishWord(t)

Next ==
    /\ \/ MainStep /\ UNCHANGED own
       \/ Join
       \/ \E t \in Team : ThreadStep(t)
    /\ UNCHANGED version

Spec == Init /\ [][Next]_vars

-----------------------------------------------------------------------------
\* PROPERTY.  Both versions are greedy BPE: the vectors that keep dead entries lose
\* no occurrence and keep the left-to-right order, and the order in which v3's
\* threads take words does not show in the result.
ImplementsGreedyBPE == Loop!ImplementsGreedyBPE

\* Counting by edges, in v3 by batches, agrees with counting afresh.
CountsExact == Loop!CountsExact

\* An edge of the chain is in the group of its pair and word, which counts it, and
\* that group is not on the free list, although v3 leaves positions behind whose
\* edge_group names a recycled group: those start no edge any more.
LiveEdgesGrouped ==
    Loop!Quiescent =>
        \A s \in DOMAIN book.pairs :
            \A p \in Loop!Edges(book.pairs[s].key) :
                LET g == book.edge_group[p]
                IN  /\ g \in DOMAIN book.group_count \ Loop!FreeGroups
                    /\ book.group_state[g] = s
                    /\ book.group_count[g] =
                          Cardinality({q \in Loop!Edges(book.pairs[s].key) : q[1] = p[1]})

\* No abort is reached, and a round uses up its pair: every word that has merged
\* once has merged all it had, which is what the batch of v3 takes for granted.
RoundDrainsPair ==
    /\ phase # "aborted"
    /\ Loop!RoundProcessed => book.pairs[best].count = 0 /\ book.pairs[best].word_count = 0
=============================================================================
