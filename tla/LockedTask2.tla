------------------------------ MODULE LockedTask2 ------------------------------
(***************************************************************************)
(* The experimental version v2 of parallel task 2: no groups and no        *)
(* replay.  A pair keeps a map from words to its number of occurrences     *)
(* there, and the threads change the registry themselves, in two critical  *)
(* sections per occurrence with the change to the chain between them.  In  *)
(* the middle of a round the registry therefore holds words in which the   *)
(* round has passed, words it has not reached, and words in between.       *)
(*                                                                         *)
(* Lookups in `pairs' are by key; a pair is numbered by its creation.      *)
(* What has the same text as in ParallelTask2 is taken as it is (Loop!..). *)
(***************************************************************************)
EXTENDS Integers, BpeText, SequencesExt

CONSTANTS
    Corpora, byte_max, no_position,
    kParallelThreshold, max_threads, Team   \* as in ParallelTask2

ASSUME CorpusAssumption ==
    \A splits \in Corpora :
        splits \in Seq([chars : Seq(1..byte_max), count : Nat])
ASSUME ByteAssumption   == byte_max \in Nat
ASSUME ThreadAssumption == max_threads \in Nat \ {0} /\ Team \subseteq 0..(max_threads - 1)
ASSUME NoPositionAssumption == no_position \notin Nat \X Nat

VARIABLES
    splits, token, alive, next, previous, token_count, vocabulary, book, queue,
    phase, cursor, best, positions, word, index,
    held,           \* thread -> what process_word has read for its occurrence
    active_words,   \* the words of the round that no thread has taken
    stage           \* thread -> how far it is with its occurrence

\* The book's records have the fields of PairRecord; its events are never used.
Loop == INSTANCE BpeRefinement WITH
            bucket <- active_words, events <- [t \in 0..(max_threads - 1) |-> << >>],
            total_frequency <- 0

chain == <<token, alive, next, previous>>
vars  == <<splits, chain, token_count, vocabulary, book, queue, phase, cursor, best,
           positions, word, index, held, active_words, stage>>

Threads == 0..(max_threads - 1)

-----------------------------------------------------------------------------
(* The registry.                                                           *)

IdsOf(b, key) == {s \in DOMAIN b.pairs : b.pairs[s].key = key}

\* get_pair: afterwards the pair exists.
get_pair(b, key) ==
    IF IdsOf(b, key) # {} THEN b
    ELSE [b EXCEPT !.pairs = Append(@, [key |-> key, count |-> 0, word_count |-> 0,
                                        positions |-> << >>,
                                        word_edges |-> [w \in DOMAIN splits |-> 0]]),
                   !.born = Append(@, Len(b.pairs) + 1)]

IdOf(b, key) == CHOOSE s \in IdsOf(b, key) : TRUE

WithoutEdge(pair, w, frequency) ==
    [pair EXCEPT !.count = @ - frequency,
                 !.word_edges[w] = @ - 1,
                 !.word_count = IF pair.word_edges[w] = 1 THEN @ - 1 ELSE @]

\* std::abort() if there is no such occurrence to take away.
remove_edge_v2(b, left, right, w, frequency) ==
    LET c    == get_pair(b, <<left, right>>)
        s    == IdOf(c, <<left, right>>)
        pair == c.pairs[s]
    IN  IF \/ pair.count < frequency
           \/ pair.word_edges[w] = 0
           \/ pair.word_edges[w] = 1 /\ pair.word_count = 0
        THEN [c EXCEPT !.aborted = TRUE]
        ELSE [c EXCEPT !.pairs[s] = WithoutEdge(@, w, frequency)]

\* Mutant: every occurrence counts as a word.
WithEdge_CountsEdges(pair, w, position, frequency) ==
    [pair EXCEPT !.word_count = @ + 1,
                 !.word_edges[w] = @ + 1,
                 !.count = @ + frequency,
                 !.positions = Append(@, position)]

WithEdge(pair, w, position, frequency) ==
    [pair EXCEPT !.word_count = IF pair.word_edges[w] = 0 THEN @ + 1 ELSE @,
                 !.word_edges[w] = @ + 1,
                 !.count = @ + frequency,
                 !.positions = Append(@, position)]

add_edge_v2(b, left, right, w, position, frequency) ==
    LET c == get_pair(b, <<left, right>>)
        s == IdOf(c, <<left, right>>)
    IN  [c EXCEPT !.pairs[s] = WithEdge(@, w, position, frequency)]

-----------------------------------------------------------------------------
Init ==
    /\ Loop!InitInput
    /\ book = [pairs |-> << >>, born |-> << >>, aborted |-> FALSE]
    /\ active_words = {}
    /\ stage = [t \in Threads |-> "idle"]

BuildPosition ==
    /\ phase = "build"
    /\ cursor[1] \in DOMAIN splits
    /\ alive[cursor]
    /\ token_count' = [token_count EXCEPT ![token[cursor]] = @ + Loop!Frequency(cursor)]
    /\ book' = IF Loop!is_live(next[cursor])
               THEN add_edge_v2(book, token[cursor], token[next[cursor]], cursor[1], cursor,
                                Loop!Frequency(cursor))
               ELSE book
    /\ cursor' = next[cursor]
    /\ UNCHANGED <<splits, chain, vocabulary, queue, phase, best, positions, active_words,
                   word, index, held>>

PopBest ==
    /\ phase = "pop"
    /\ \E e \in Loop!Top :
         LET pair == book.pairs[e.state]
         IN  /\ Loop!Eligible(e.state)
             /\ e.count = pair.count
             /\ queue' = queue \ {e}
             /\ best' = e.state
             /\ positions' = pair.positions
             /\ book' = [book EXCEPT !.pairs[e.state].positions = << >>]
             /\ vocabulary' = Append(vocabulary, vocabulary[pair.key[1]] \o vocabulary[pair.key[2]])
             /\ active_words' = {pair.positions[k][1] : k \in DOMAIN pair.positions}
    /\ token_count' = Append(token_count, 0)
    /\ phase' = "surgery"
    /\ UNCHANGED <<splits, chain, cursor, word, index, held>>

-----------------------------------------------------------------------------
(* process_word.                                                           *)

\* The words of a short list are all the master's.
AtWork == IF Len(positions) >= kParallelThreshold /\ max_threads > 1 THEN Team ELSE {0}

\* Mutant: omp parallel without for, every thread goes through all words.
TakeWord_NotShared(t) ==
    /\ phase = "surgery"
    /\ word[t] = 0
    /\ \E w \in active_words : word' = [word EXCEPT ![t] = w]
    /\ index' = [index EXCEPT ![t] = 0]
    /\ UNCHANGED <<splits, chain, token_count, vocabulary, book, queue, phase, cursor,
                   best, positions, held, active_words, stage>>

TakeWord(t) ==
    /\ phase = "surgery"
    /\ word[t] = 0
    /\ \E w \in active_words : /\ word' = [word EXCEPT ![t] = w]
                               /\ active_words' = active_words \ {w}
    /\ index' = [index EXCEPT ![t] = 0]
    /\ UNCHANGED <<splits, chain, token_count, vocabulary, book, queue, phase, cursor,
                   best, positions, held, stage>>

\* The next position of the word is read, and skipped if it is no occurrence.
Read(t) ==
    /\ phase = "surgery"
    /\ stage[t] = "idle"
    /\ \E k \in Loop!Remaining(t) :
         /\ \A j \in Loop!Remaining(t) : k <= j
         /\ index' = [index EXCEPT ![t] = k]
         /\ IF Loop!pair_is_at(positions[k], Loop!left_token, Loop!right_token)
            THEN LET n == Loop!Neighbours(positions[k])
                 IN  /\ held' = [held EXCEPT ![t] = [slots |-> n, ev |-> Loop!MergeEvent(n)]]
                     /\ stage' = [stage EXCEPT ![t] = "read"]
            ELSE UNCHANGED <<held, stage>>
    /\ UNCHANGED <<splits, chain, token_count, vocabulary, book, queue, phase, cursor,
                   best, positions, word, active_words>>

Without(b, ev) ==
    LET f  == Loop!Frequency(ev.position)
        w  == ev.position[1]
        b1 == IF ev.left = no_position THEN b
              ELSE remove_edge_v2(b, ev.left_token, Loop!left_token, w, f)
        b2 == remove_edge_v2(b1, Loop!left_token, Loop!right_token, w, f)
    IN  IF ev.after = no_position THEN b2
        ELSE remove_edge_v2(b2, Loop!right_token, ev.after_token, w, f)

With(b, ev) ==
    LET f  == Loop!Frequency(ev.position)
        w  == ev.position[1]
        b1 == IF ev.left = no_position THEN b
              ELSE add_edge_v2(b, ev.left_token, Loop!merged_token, w, ev.left, f)
    IN  IF ev.after = no_position THEN b1
        ELSE add_edge_v2(b1, Loop!merged_token, ev.after_token, w, ev.position, f)

\* The first critical section: the old occurrences go, tokens are counted.
RemoveCritical(t) ==
    /\ stage[t] = "read"
    /\ book' = Without(book, held[t].ev)
    /\ phase' = IF book'.aborted THEN "aborted" ELSE phase
    /\ token_count' = Loop!CountMerged(Loop!Frequency(held[t].ev.position))
    /\ stage' = [stage EXCEPT ![t] = "removed"]
    /\ UNCHANGED <<splits, chain, vocabulary, queue, cursor, best, positions, word, index,
                   held, active_words>>

\* Outside any critical section.
Surgery(t) ==
    /\ stage[t] = "removed"
    /\ Loop!Splice(held[t].slots, Loop!merged_token)
    /\ stage' = [stage EXCEPT ![t] = "spliced"]
    /\ UNCHANGED <<splits, token_count, vocabulary, book, queue, phase, cursor, best,
                   positions, word, index, held, active_words>>

\* The second critical section: the new occurrences enter.
AddCritical(t) ==
    /\ stage[t] = "spliced"
    /\ book' = With(book, held[t].ev)
    /\ held' = [held EXCEPT ![t] = no_position]
    /\ stage' = [stage EXCEPT ![t] = "idle"]
    /\ UNCHANGED <<splits, chain, token_count, vocabulary, queue, phase, cursor, best,
                   positions, word, index, active_words>>

FinishWord(t) ==
    /\ word[t] # 0
    /\ stage[t] = "idle"
    /\ Loop!Remaining(t) = {}
    /\ word' = [word EXCEPT ![t] = 0]
    /\ UNCHANGED <<splits, chain, token_count, vocabulary, book, queue, phase, cursor,
                   best, positions, index, held, active_words, stage>>

\* The end of the loop over the words.
Join ==
    /\ phase = "surgery"
    /\ active_words = {}
    /\ \A t \in Threads : word[t] = 0
    /\ phase' = "replay"
    /\ positions' = << >>
    /\ index' = [t \in Threads |-> 0]
    /\ UNCHANGED <<splits, chain, token_count, vocabulary, book, queue, cursor, best, word,
                   held, active_words>>

-----------------------------------------------------------------------------
MainStep ==
    \/ BuildPosition \/ Loop!BuildNextWord \/ Loop!StartMerging
    \/ Loop!PopIneligible \/ Loop!PopOutdated \/ PopBest \/ Loop!Finish
    \/ Join \/ Loop!EndRound
    \/ Loop!Terminated

ThreadStep(t) ==
    \/ TakeWord(t) \/ Read(t) \/ RemoveCritical(t) \/ Surgery(t) \/ AddCritical(t)
    \/ FinishWord(t)

Next ==
    \/ MainStep /\ UNCHANGED stage
    \/ phase # "aborted" /\ \E t \in AtWork : ThreadStep(t)

Spec == Init /\ [][Next]_vars

-----------------------------------------------------------------------------
\* PROPERTY.  However the critical sections of the threads interleave, a run is a
\* run of greedy BPE: v2 computes what the other versions compute.
ImplementsGreedyBPE == Loop!ImplementsGreedyBPE

\* The words no thread is in the middle of, and that build_state has been through.
SettledWords ==
    {w \in DOMAIN splits :
        /\ phase = "build" => w < cursor[1]
        /\ \A t \in Threads : stage[t] \in {"removed", "spliced"} => word[t] # w}

\* A slot for each occurrence the pair has by word_edges.
Noted(pair) == UNION {{w} \X (1..pair.word_edges[w]) : w \in DOMAIN splits}

\* At every moment, inside a round too, the registry is exact for every word that no
\* thread has between its critical sections, whatever it lacks of the others; its
\* totals are those of its words, and no occurrence is ever removed that it lacks.
RegistryKeepsUp ==
    /\ ~book.aborted
    /\ \A s \in DOMAIN book.pairs :
         LET pair == book.pairs[s]
         IN  /\ \A w \in SettledWords :
                   pair.word_edges[w] = Cardinality({p \in Loop!Edges(pair.key) : p[1] = w})
             /\ pair.word_count = Cardinality({w \in DOMAIN splits : pair.word_edges[w] > 0})
             /\ pair.count = Cardinality(Loop!Occurrences(Noted(pair)))
=============================================================================
