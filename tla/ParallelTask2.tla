---------------------------- MODULE ParallelTask2 ----------------------------
(***************************************************************************)
(* parallel_task2: byte-pair encoding of a list of distinct words with     *)
(* their counts, as parallel_task2.cpp runs it.                            *)
(*                                                                         *)
(* A position is <<w, i>>, the i-th slot of word w; the code numbers the   *)
(* same slots consecutively, word after word.  Slot Len(chars) + 1 of a    *)
(* word is its sentinel, never alive.  The phases follow the control of    *)
(* the code:                                                               *)
(*                                                                         *)
(*   build       build_state, a position at a time                         *)
(*   pop         pop_best_state, an iteration at a time                    *)
(*   walk        the chosen pair's list is copied to `positions'           *)
(*   sequential  process_positions_sequential, a position at a time        *)
(*   surgery     the parallel region of process_positions_parallel         *)
(*   replay      its sequential replay of the events, an event at a time   *)
(*   done        finalize_results, or                                      *)
(*   aborted     remove_edge called std::abort()                           *)
(*                                                                         *)
(* In `surgery' a thread takes two steps per occurrence, because it acts   *)
(* on what it has read: Resolve reads the chain, Apply changes it.         *)
(***************************************************************************)
EXTENDS PairRegistry, BpeText

CONSTANTS
    Corpora,             \* the inputs: sequences of [chars, count]
    byte_max,            \* bytes are 1..byte_max (255 in the code)
    kParallelThreshold,  \* positions from which a round runs in parallel
    max_threads,         \* omp_get_max_threads()
    Team                 \* the thread numbers the parallel region really gets

Threads == 0..(max_threads - 1)

ASSUME CorpusAssumption ==
    \A splits \in Corpora :
        splits \in Seq([chars : Seq(1..byte_max), count : Nat])
ASSUME ByteAssumption   == byte_max \in Nat
ASSUME ThreadAssumption == max_threads \in Nat \ {0} /\ Team \subseteq Threads
ASSUME ThresholdAssumption == kParallelThreshold \in Nat
\* What a thread has resolved is not mistaken for nothing.
ASSUME HeldAssumption ==
    no_position \notin [position : Nat \X Nat, right : Nat \X Nat,
                        left : (Nat \X Nat) \cup {no_position},
                        after : (Nat \X Nat) \cup {no_position}]

VARIABLES
    splits,       \* the input, chosen at the start
    token, alive, next, previous,   \* the chain of each word, by position
    token_count, vocabulary,        \* by token id
    book,         \* the pairs, their lists and groups (PairRegistry)
    queue,        \* the entries of queue_heap
    phase,
    cursor,       \* the position build_state or the list walk is at
    best,         \* the pair chosen for this round
    positions,    \* its materialised positions still to be processed
    bucket,       \* thread -> words of mine_by_word not begun
    word,         \* thread -> the word it works on, 0 if none
    index,        \* thread -> where it is in the positions of that word
    held,         \* thread -> the occurrence it has resolved, not yet applied
    events,       \* thread -> local_events not yet replayed
    total_frequency

chain  == <<token, alive, next, previous>>
thread == <<bucket, word, index, held>>
vars   == <<splits, chain, token_count, vocabulary, book, queue, phase, cursor,
            best, positions, thread, events, total_frequency>>

Position == UNION {{w} \X (1..(Len(splits[w].chars) + 1)) : w \in DOMAIN splits}

\* Word numbers start at 0 in the code.
Owner(w) == (w - 1) % max_threads

-----------------------------------------------------------------------------
(* Reading the state.                                                      *)

is_live(position) == position # no_position /\ alive[position]

pair_is_at(position, left, right) ==
    /\ is_live(position) /\ token[position] = left
    /\ is_live(next[position]) /\ token[next[position]] = right

Frequency(position) == splits[position[1]].count

left_token   == book.pairs[best].key[1]
right_token  == book.pairs[best].key[2]
merged_token == Len(vocabulary)      \* once the round has begun

Entry(s) == [state |-> s, count |-> book.pairs[s].count]

Texts(s) == <<vocabulary[book.pairs[s].key[1]], vocabulary[book.pairs[s].key[2]]>>

\* comp(left, right): left comes out of the heap after right.
queue_compare(left, right) ==
    IF left.count # right.count THEN left.count < right.count
    ELSE RanksBelow(Texts(left.state), Texts(right.state))

\* What queue_heap::top may return.
Top == {e \in queue : \A f \in queue : ~queue_compare(e, f)}

Eligible(s) == book.pairs[s].word_count >= 2 /\ book.pairs[s].count # 0

-----------------------------------------------------------------------------
\* The input as a chain of live slots with the bytes as tokens, and idle threads.
InitInput ==
    /\ splits \in Corpora
    /\ token = [p \in Position |-> IF p[2] <= Len(splits[p[1]].chars)
                                   THEN splits[p[1]].chars[p[2]] ELSE 0]
    /\ alive = [p \in Position |-> p[2] <= Len(splits[p[1]].chars)]
    /\ next = [p \in Position |-> IF p[2] <= Len(splits[p[1]].chars)
                                  THEN <<p[1], p[2] + 1>> ELSE no_position]
    /\ previous = [p \in Position |-> IF p[2] = 1 THEN no_position
                                      ELSE <<p[1], p[2] - 1>>]
    /\ vocabulary = [v \in 1..byte_max |-> <<v>>]
    /\ token_count = [v \in 1..byte_max |-> 0]
    /\ queue = {}
    /\ phase = "build"
    /\ cursor = <<1, 1>>
    /\ best = no_position
    /\ positions = << >>
    /\ word = [t \in Threads |-> 0]
    /\ index = [t \in Threads |-> 0]
    /\ held = [t \in Threads |-> no_position]

Init ==
    /\ InitInput
    /\ book = EmptyBook(Position)
    /\ bucket = [t \in Threads |-> {}]
    /\ events = [t \in Threads |-> << >>]
    /\ total_frequency = 0

-----------------------------------------------------------------------------
(* build_state and the first filling of the queue.                         *)

BuildPosition ==
    /\ phase = "build"
    /\ cursor[1] \in DOMAIN splits
    /\ alive[cursor]
    /\ token_count' = [token_count EXCEPT ![token[cursor]] = @ + Frequency(cursor)]
    /\ book' = IF is_live(next[cursor])
               THEN build_edge(book, cursor, <<token[cursor], token[next[cursor]]>>,
                               cursor[1], Frequency(cursor))
               ELSE book
    /\ cursor' = next[cursor]
    /\ UNCHANGED <<splits, chain, vocabulary, queue, phase, best, positions,
                   thread, events, total_frequency>>

BuildNextWord ==
    /\ phase = "build"
    /\ cursor[1] \in DOMAIN splits
    /\ ~alive[cursor]
    /\ cursor' = <<cursor[1] + 1, 1>>
    /\ UNCHANGED <<splits, chain, token_count, vocabulary, book, queue, phase,
                   best, positions, thread, events, total_frequency>>

StartMerging ==
    /\ phase = "build"
    /\ cursor[1] \notin DOMAIN splits
    /\ book' = [book EXCEPT !.born = << >>]
    /\ queue' = {Entry(s) : s \in {k \in DOMAIN book.pairs : book.pairs[k].word_count >= 2}}
    /\ phase' = "pop"
    /\ UNCHANGED <<splits, chain, token_count, vocabulary, cursor, best,
                   positions, thread, events, total_frequency>>

-----------------------------------------------------------------------------
(* pop_best_state: the three ways an iteration of its loop can go.         *)

PopIneligible ==
    /\ phase = "pop"
    /\ \E e \in Top : ~Eligible(e.state) /\ queue' = queue \ {e}
    /\ UNCHANGED <<splits, chain, token_count, vocabulary, book, phase, cursor,
                   best, positions, thread, events, total_frequency>>

\* Mutants: the corrected entry is not pushed back; the entry is pushed back as
\* it was.
PopOutdated_Drops ==
    /\ phase = "pop"
    /\ \E e \in Top : /\ Eligible(e.state)
                      /\ e.count # book.pairs[e.state].count
                      /\ queue' = queue \ {e}
    /\ UNCHANGED <<splits, chain, token_count, vocabulary, book, phase, cursor,
                   best, positions, thread, events, total_frequency>>

PopOutdated_Uncorrected ==
    /\ phase = "pop"
    /\ \E e \in Top : Eligible(e.state) /\ e.count # book.pairs[e.state].count
    /\ UNCHANGED vars

PopOutdated ==
    /\ phase = "pop"
    /\ \E e \in Top : /\ Eligible(e.state)
                      /\ e.count # book.pairs[e.state].count
                      /\ queue' = (queue \ {e}) \cup {Entry(e.state)}
    /\ UNCHANGED <<splits, chain, token_count, vocabulary, book, phase, cursor,
                   best, positions, thread, events, total_frequency>>

WithoutList(pair) ==
    [pair EXCEPT !.positions_head = no_position, !.positions_tail = no_position]

PopBest ==
    /\ phase = "pop"
    /\ \E e \in Top : /\ Eligible(e.state)
                      /\ e.count = book.pairs[e.state].count
                      /\ queue' = queue \ {e}
                      /\ best' = e.state
                      /\ cursor' = book.pairs[e.state].positions_head
                      /\ book' = [book EXCEPT !.pairs[e.state] = WithoutList(@)]
    /\ phase' = "walk"
    /\ UNCHANGED <<splits, chain, token_count, vocabulary, positions, thread,
                   events, total_frequency>>

Finish ==
    /\ phase = "pop"
    /\ queue = {}
    /\ phase' = "done"
    /\ UNCHANGED <<splits, chain, token_count, vocabulary, book, queue, cursor,
                   best, positions, thread, events, total_frequency>>

-----------------------------------------------------------------------------
(* Materialising the list, and the choice of sequential or parallel.       *)

\* Mutant: the list is handed over back to front.
WalkList_Backwards ==
    /\ phase = "walk"
    /\ cursor # no_position
    /\ positions' = <<cursor>> \o positions
    /\ cursor' = book.pos_next[cursor]
    /\ UNCHANGED <<splits, chain, token_count, vocabulary, book, queue, phase,
                   best, thread, events, total_frequency>>

\* Mutant: the cursor is advanced before the position is pushed.
WalkList_AdvanceFirst ==
    /\ phase = "walk"
    /\ cursor # no_position
    /\ positions' = Append(positions, book.pos_next[cursor])
    /\ cursor' = book.pos_next[cursor]
    /\ UNCHANGED <<splits, chain, token_count, vocabulary, book, queue, phase,
                   best, thread, events, total_frequency>>

WalkList ==
    /\ phase = "walk"
    /\ cursor # no_position
    /\ positions' = Append(positions, cursor)
    /\ cursor' = book.pos_next[cursor]
    /\ UNCHANGED <<splits, chain, token_count, vocabulary, book, queue, phase,
                   best, thread, events, total_frequency>>

RunsParallel == Len(positions) >= kParallelThreshold /\ max_threads > 1

\* Mutants: the words of a list are not split cleanly between the threads.
OwnedWords_UpTo(t) ==
    {w \in DOMAIN splits : Owner(w) <= t /\ \E k \in DOMAIN positions : positions[k][1] = w}
OwnedWords_FirstShared(t) ==
    {w \in DOMAIN splits : (Owner(w) = t \/ w = 1) /\ \E k \in DOMAIN positions : positions[k][1] = w}

\* mine_by_word: the words of the list that thread t owns.
OwnedWords(t) ==
    {w \in DOMAIN splits : Owner(w) = t /\ \E k \in DOMAIN positions : positions[k][1] = w}

StartRound ==
    /\ phase = "walk"
    /\ cursor = no_position
    /\ vocabulary' = Append(vocabulary, vocabulary[left_token] \o vocabulary[right_token])
    /\ token_count' = Append(token_count, 0)
    /\ IF RunsParallel
       THEN /\ phase' = "surgery"
            /\ bucket' = [t \in Threads |-> IF t \in Team THEN OwnedWords(t) ELSE {}]
       ELSE phase' = "sequential" /\ UNCHANGED bucket
    /\ UNCHANGED <<splits, chain, book, queue, cursor, best, positions, word,
                   index, held, events, total_frequency>>

-----------------------------------------------------------------------------
(* One occurrence: the change to the chain and the change to the book.     *)

\* The neighbourhood of an occurrence, as the code reads it before it merges.
Neighbours(position) ==
    LET right == next[position]
    IN  [position |-> position, right |-> right,
         left |-> previous[position], after |-> next[right]]

\* Mutant: the slot after the occurrence still points back at its right half.
Splice_NoBackLink(n, merged) ==
    /\ token' = [token EXCEPT ![n.position] = merged]
    /\ alive' = [alive EXCEPT ![n.right] = FALSE]
    /\ next' = [next EXCEPT ![n.position] = n.after, ![n.right] = no_position]
    /\ previous' = [previous EXCEPT ![n.right] = no_position]

\* The surgery on token, alive, next and previous.  The right half is unhooked.
Splice(n, merged) ==
    /\ token' = [token EXCEPT ![n.position] = merged]
    /\ alive' = [alive EXCEPT ![n.right] = FALSE]
    /\ next' = [next EXCEPT ![n.position] = n.after, ![n.right] = no_position]
    /\ previous' = IF n.after = no_position
                   THEN [previous EXCEPT ![n.right] = no_position]
                   ELSE [previous EXCEPT ![n.after] = n.position,
                                         ![n.right] = no_position]

\* The MergeEvent: dead neighbours are replaced by no_position.
MergeEvent(n) ==
    [position |-> n.position, right |-> n.right,
     left |-> IF is_live(n.left) THEN n.left ELSE no_position,
     after |-> IF is_live(n.after) THEN n.after ELSE no_position,
     left_token |-> IF is_live(n.left) THEN token[n.left] ELSE no_position,
     after_token |-> IF is_live(n.after) THEN token[n.after] ELSE no_position]

\* Mutants: the edge to the right is left in its pair when that is the pair being
\* merged; it is left in its pair always.
RemoveEdges_NotOwnRight(b, ev) ==
    LET f  == Frequency(ev.position)
        b1 == IF ev.left = no_position THEN b ELSE remove_edge(b, ev.left, f)
        b2 == remove_edge(b1, ev.position, f)
    IN  IF ev.after = no_position \/ b.edge_group[ev.right] = b.edge_group[ev.position]
        THEN [b2 EXCEPT !.edge_group[ev.right] = no_position]
        ELSE remove_edge(b2, ev.right, f)

RemoveEdges_NoRight(b, ev) ==
    LET f  == Frequency(ev.position)
        b1 == IF ev.left = no_position THEN b ELSE remove_edge(b, ev.left, f)
    IN  [remove_edge(b1, ev.position, f) EXCEPT !.edge_group[ev.right] = no_position]

\* The edges that end or start in the merged occurrence leave their pairs.
RemoveEdges(b, ev) ==
    LET f  == Frequency(ev.position)
        b1 == IF ev.left = no_position THEN b ELSE remove_edge(b, ev.left, f)
        b2 == remove_edge(b1, ev.position, f)
    IN  IF ev.after = no_position
        THEN [b2 EXCEPT !.edge_group[ev.right] = no_position]
        ELSE remove_edge(b2, ev.right, f)

\* The edges of the merged token with its neighbours.
AddEdges(b, ev, merged) ==
    LET f  == Frequency(ev.position)
        w  == ev.position[1]
        l  == get_left_pair_state(b, ev.left_token, merged)
        b1 == IF ev.left = no_position THEN b
              ELSE add_edge(l.book, ev.left, l.state, w, f)
        r  == get_right_pair_state(b1, merged, ev.after_token)
    IN  IF ev.after = no_position THEN b1
        ELSE add_edge(r.book, ev.position, r.state, w, f)

\* std::abort() ends the program; else the event is worked off.
Rewire(ev) ==
    \E removed \in {RemoveEdges(book, ev)} :
        /\ book' = IF removed.aborted THEN removed ELSE AddEdges(removed, ev, merged_token)
        /\ phase' = IF removed.aborted THEN "aborted" ELSE phase

\* Mutant: for a pair of equal tokens the count falls once instead of twice.
CountMerged_SelfOnce(f) ==
    LET less == [token_count EXCEPT ![left_token] = @ - f]
    IN  [less EXCEPT ![right_token] = token_count[right_token] - f, ![merged_token] = @ + f]

CountMerged(f) ==
    LET less == [token_count EXCEPT ![left_token] = @ - f]
    IN  [less EXCEPT ![right_token] = @ - f, ![merged_token] = @ + f]

-----------------------------------------------------------------------------
(* process_positions_sequential.                                           *)

SkipPosition ==
    /\ phase = "sequential"
    /\ positions # << >>
    /\ ~pair_is_at(Head(positions), left_token, right_token)
    /\ positions' = Tail(positions)
    /\ UNCHANGED <<splits, chain, token_count, vocabulary, book, queue, phase,
                   cursor, best, thread, events, total_frequency>>

MergePosition ==
    /\ phase = "sequential"
    /\ positions # << >>
    /\ LET p == Head(positions)
           n == Neighbours(p)
       IN  /\ pair_is_at(p, left_token, right_token)
           /\ Rewire(MergeEvent(n))
           /\ Splice(n, merged_token)
           /\ token_count' = CountMerged(Frequency(p))
    /\ positions' = Tail(positions)
    /\ UNCHANGED <<splits, vocabulary, queue, cursor, best, thread, events,
                   total_frequency>>

-----------------------------------------------------------------------------
(* process_positions_parallel: the parallel region.                        *)

\* The positions of its current word that thread t has not looked at yet.
Remaining(t) ==
    {k \in DOMAIN positions : k > index[t] /\ positions[k][1] = word[t]}

\* unordered_map iteration: the words of a bucket come in any order.
TakeWord(t) ==
    /\ phase = "surgery"
    /\ held[t] = no_position
    /\ Remaining(t) = {}
    /\ \E w \in bucket[t] : /\ word' = [word EXCEPT ![t] = w]
                            /\ bucket' = [bucket EXCEPT ![t] = @ \ {w}]
    /\ index' = [index EXCEPT ![t] = 0]
    /\ UNCHANGED <<splits, chain, token_count, vocabulary, book, queue, phase,
                   cursor, best, positions, held, events, total_frequency>>

Resolve(t) ==
    /\ phase = "surgery"
    /\ held[t] = no_position
    /\ \E k \in Remaining(t) :
         /\ \A j \in Remaining(t) : k <= j
         /\ index' = [index EXCEPT ![t] = k]
         /\ held' = [held EXCEPT ![t] =
                       IF pair_is_at(positions[k], left_token, right_token)
                       THEN Neighbours(positions[k]) ELSE no_position]
    /\ UNCHANGED <<splits, chain, token_count, vocabulary, book, queue, phase,
                   cursor, best, positions, bucket, word, events, total_frequency>>

\* Mutants: edge_group is cleared before the replay has read it; only the last
\* merge is counted.
Apply_ClearsGroup(t) ==
    /\ phase = "surgery"
    /\ held[t] # no_position
    /\ Splice(held[t], merged_token)
    /\ book' = [book EXCEPT !.edge_group[held[t].right] = no_position]
    /\ events' = [events EXCEPT ![t] = Append(@, MergeEvent(held[t]))]
    /\ total_frequency' = total_frequency + Frequency(held[t].position)
    /\ held' = [held EXCEPT ![t] = no_position]
    /\ UNCHANGED <<splits, token_count, vocabulary, queue, phase, cursor,
                   best, positions, bucket, word, index>>

Apply_CountsLast(t) ==
    /\ phase = "surgery"
    /\ held[t] # no_position
    /\ Splice(held[t], merged_token)
    /\ events' = [events EXCEPT ![t] = Append(@, MergeEvent(held[t]))]
    /\ total_frequency' = Frequency(held[t].position)
    /\ held' = [held EXCEPT ![t] = no_position]
    /\ UNCHANGED <<splits, token_count, vocabulary, book, queue, phase, cursor,
                   best, positions, bucket, word, index>>

Apply(t) ==
    /\ phase = "surgery"
    /\ held[t] # no_position
    /\ Splice(held[t], merged_token)
    /\ events' = [events EXCEPT ![t] = Append(@, MergeEvent(held[t]))]
    /\ total_frequency' = total_frequency + Frequency(held[t].position)
    /\ held' = [held EXCEPT ![t] = no_position]
    /\ UNCHANGED <<splits, token_count, vocabulary, book, queue, phase, cursor,
                   best, positions, bucket, word, index>>

\* The implicit barrier at the end of the region, then the token counts.
Join ==
    /\ phase = "surgery"
    /\ \A t \in Threads : bucket[t] = {} /\ Remaining(t) = {} /\ held[t] = no_position
    /\ token_count' = CountMerged(total_frequency)
    /\ total_frequency' = 0
    /\ positions' = << >>
    /\ word' = [t \in Threads |-> 0]
    /\ index' = [t \in Threads |-> 0]
    /\ phase' = "replay"
    /\ UNCHANGED <<splits, chain, vocabulary, book, queue, cursor, best, bucket,
                   held, events>>

ReplayEvent ==
    /\ phase = "replay"
    /\ \E t \in Threads :
         /\ events[t] # << >>
         /\ \A u \in Threads : u < t => events[u] = << >>
         /\ Rewire(Head(events[t]))
         /\ events' = [events EXCEPT ![t] = Tail(@)]
    /\ UNCHANGED <<splits, chain, token_count, vocabulary, queue, cursor, best,
                   positions, thread, total_frequency>>

-----------------------------------------------------------------------------
(* push_born_states, and the next round.                                   *)

RoundProcessed ==
    \/ phase = "sequential" /\ positions = << >>
    \/ phase = "replay" /\ \A t \in Threads : events[t] = << >>

EndRound ==
    /\ RoundProcessed
    /\ queue' = queue \cup {Entry(s) : s \in {k \in DOMAIN book.pairs :
                              (\E i \in DOMAIN book.born : book.born[i] = k) /\ Eligible(k)}}
    /\ book' = [book EXCEPT !.born = << >>]
    /\ best' = no_position
    /\ phase' = "pop"
    /\ UNCHANGED <<splits, chain, token_count, vocabulary, cursor, positions,
                   thread, events, total_frequency>>

Terminated == phase \in {"done", "aborted"} /\ UNCHANGED vars

ThreadStep(t) == TakeWord(t) \/ Resolve(t) \/ Apply(t)

MainStep ==
    \/ BuildPosition \/ BuildNextWord \/ StartMerging
    \/ PopIneligible \/ PopOutdated \/ PopBest \/ Finish
    \/ WalkList \/ StartRound
    \/ SkipPosition \/ MergePosition
    \/ Join \/ ReplayEvent \/ EndRound

Next ==
    \/ MainStep
    \/ \E t \in Team : ThreadStep(t)
    \/ Terminated

\* The master thread runs on, and so does every thread of the team: none ever
\* waits for another except at the barrier.
Fairness == WF_vars(MainStep) /\ \A t \in Team : WF_vars(ThreadStep(t))

Spec == Init /\ [][Next]_vars /\ Fairness

-----------------------------------------------------------------------------
(* finalize_results: the tokens in use, by falling count and then by text. *)

RanksFirst(a, b) ==
    \/ token_count[a] > token_count[b]
    \/ token_count[a] = token_count[b] /\ strcmp_less(vocabulary[a], vocabulary[b])

live_tokens == {v \in DOMAIN token_count : token_count[v] # 0}

finalize_results ==
    [i \in 1..Cardinality(live_tokens) |->
        LET v == CHOOSE a \in live_tokens :
                    Cardinality({b \in live_tokens : RanksFirst(b, a)}) = i - 1
        IN  [text |-> vocabulary[v], count |-> token_count[v]]]

-----------------------------------------------------------------------------
(* Invariants proved for every input and any number of threads in          *)
(* ParallelTask2_proofs.                                                   *)

Optional(S) == S \cup {no_position}

Occurrence ==
    [position : Position, right : Position, left : Optional(Position), after : Optional(Position)]

EventSet ==
    [position : Position, right : Position, left : Optional(Position), after : Optional(Position),
     left_token : Optional(Nat), after_token : Optional(Nat)]

\* Type invariant.
TypeOK ==
    /\ splits \in Corpora
    /\ token \in [Position -> Nat]
    /\ alive \in [Position -> BOOLEAN]
    /\ next \in [Position -> Optional(Position)]
    /\ previous \in [Position -> Optional(Position)]
    /\ vocabulary \in Seq(Seq(Nat))
    /\ token_count \in Seq(Int)
    /\ BookTypeOK(book, Position)
    /\ queue \subseteq [state : Nat, count : Nat]
    /\ phase \in {"build", "pop", "walk", "sequential", "surgery", "replay", "done", "aborted"}
    /\ cursor \in Optional(Nat \X Nat)
    /\ best \in Optional(Nat)
    /\ positions \in Seq(Position)
    /\ bucket \in [Threads -> SUBSET DOMAIN splits]
    /\ word \in [Threads -> Nat]
    /\ index \in [Threads -> Nat]
    /\ held \in [Threads -> Optional(Occurrence)]
    /\ events \in [Threads -> Seq(EventSet)]
    /\ total_frequency \in Nat

\* No group of edges is recycled while an edge is still in it, a group's count is
\* the number of its edges, and the free list never branches or loops: the index
\* remove_edge and get_word_group follow through group_count is always a group.
GroupsSafe == GroupsSound(book)

\* What a thread has read of the chain still holds when it acts on it, whatever
\* the other threads did in between: process_positions_parallel takes no lock.
HeldFresh ==
    \A t \in Threads :
        held[t] # no_position =>
            /\ pair_is_at(held[t].position, left_token, right_token)
            /\ Neighbours(held[t].position) = held[t]

\* q is the next slot of p's word that is alive, or the sentinel if there is none.
Follows(p, q) ==
    /\ alive[p] /\ p[1] = q[1] /\ p[2] < q[2]
    /\ alive[q] \/ q[2] = Len(splits[q[1]].chars) + 1
    /\ \A r \in Position : r[1] = p[1] /\ p[2] < r[2] /\ r[2] < q[2] => ~alive[r]

\* Whatever threads have spliced at once, next leads from live slot to live slot
\* without a gap and previous leads back; a spliced-out slot is on neither path.
ChainIntact ==
    \A p, q \in Position : /\ Follows(p, q) <=> next[p] = q
                           /\ Follows(p, q) <=> previous[q] = p

\* A pair only gains occurrences in the round that creates it.  The lazy queue
\* is sound because of it: an entry's count can only be too high.
OnlyNewbornsGrow ==
    [][\A s \in DOMAIN book.pairs :
          book'.pairs[s].count > book.pairs[s].count
              => phase = "build" \/ \E i \in DOMAIN book.born : book.born[i] = s]_vars

\* No two threads hold occurrences of one word, or events of one word: the replay
\* sees each word's events in the order they happened.
WordsNotShared ==
    \A t, u \in Threads :
        t # u => /\ \A i \in DOMAIN events[t], j \in DOMAIN events[u] :
                       events[t][i].position[1] # events[u][j].position[1]
                 /\ held[t] # no_position /\ held[u] # no_position
                       => held[t].position[1] # held[u].position[1]
=============================================================================
