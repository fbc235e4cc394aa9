---------------------------- MODULE MergeLoopBook ----------------------------
(***************************************************************************)
(* What the bookkeeping of the merge loop comes to: between rounds it is   *)
(* exact, and a round processes every occurrence of its pair.              *)
(***************************************************************************)
EXTENDS ParallelTask2

\* Between rounds the book describes the chain; in a round it lags behind.
Quiescent == phase \in {"pop", "done"}

-----------------------------------------------------------------------------
(* The book between rounds.                                                *)

Edges(key) == {p \in Position : pair_is_at(p, key[1], key[2])}

WordsOf(slots) == {p[1] : p \in slots}

KeysInUse == {<<token[p], token[next[p]]>> : p \in {q \in Position : is_live(q) /\ is_live(next[q])}}

\* Each slot as often as its word occurs.  Their number is the sum of the frequencies.
Occurrences(slots) == UNION {{p} \X (1..Frequency(p)) : p \in slots}

\* Incremental counting never drifts: each pair in use has one pair_state, whose
\* count and word_count are what counting its occurrences afresh gives.
CountsExact ==
    Quiescent =>
        /\ \A key \in KeysInUse : Cardinality({s \in DOMAIN book.pairs : book.pairs[s].key = key}) = 1
        /\ \A s \in DOMAIN book.pairs :
              LET edges == Edges(book.pairs[s].key)
              IN  /\ book.pairs[s].count = Cardinality(Occurrences(edges))
                  /\ book.pairs[s].word_count = Cardinality(WordsOf(edges))

\* token_count is the weighted number of live slots that hold the token.
TokenCountsExact ==
    Quiescent =>
        \A v \in DOMAIN token_count :
            token_count[v] = Cardinality(Occurrences({p \in Position : alive[p] /\ token[p] = v}))

\* The first n members of a list that starts at position head.
Walk(head, n) ==
    LET Following(p) == IF p = no_position THEN no_position ELSE book.pos_next[p]
        step[i \in 1..n] == IF i = 1 THEN head ELSE Following(step[i - 1])
    IN  step

\* The list of a pair holds its occurrences, each once, linked both ways, those
\* of one word together and from left to right: the overlap rule relies on the
\* order and the one-slot group cache on the words being together.
ListsExact ==
    Quiescent =>
        \A s \in DOMAIN book.pairs :
            LET edges == Edges(book.pairs[s].key)
                n     == Cardinality(edges)
                list  == Walk(book.pairs[s].positions_head, n + 1)
            IN  /\ {list[i] : i \in 1..n} = edges
                /\ list[n + 1] = no_position
                /\ book.pairs[s].positions_tail = IF n = 0 THEN no_position ELSE list[n]
                /\ \A i \in 1..n : book.pos_prev[list[i]] = IF i = 1 THEN no_position ELSE list[i - 1]
                /\ \A i, j \in 1..n : i < j /\ list[i][1] = list[j][1] =>
                      \A k \in i..j : list[k][1] = list[i][1] /\ list[i][2] < list[j][2]

UsedGroups == {book.edge_group[p] : p \in Position} \ {no_position}

\* The groups on the free list, in order; at most one step per group.
FreeList ==
    LET Following(g) == IF g = no_position THEN no_position ELSE book.group_count[g]
        at[i \in 0..Len(book.group_count)] ==
            IF i = 0 THEN book.free_head ELSE Following(at[i - 1])
    IN  at

FreeGroups == {FreeList[i] : i \in DOMAIN FreeList} \ {no_position}

\* Two edges share a group exactly when they are the same pair in the same word,
\* a group counts its edges, and every other group is on the free list, which
\* has no cycle: no group is both recycled and in use, and none leaks.
GroupsExact ==
    Quiescent =>
        /\ FreeList[Len(book.group_count)] = no_position
        /\ FreeGroups \cap UsedGroups = {}
        /\ FreeGroups \cup UsedGroups = DOMAIN book.group_count
        /\ \A g \in UsedGroups :
              LET members == {p \in Position : book.edge_group[p] = g}
                  some    == CHOOSE p \in members : TRUE
                  key     == <<token[some], token[next[some]]>>
              IN  /\ book.pairs[book.group_state[g]].key = key
                  /\ members = {p \in Edges(key) : p[1] = some[1]}
                  /\ book.group_count[g] = Cardinality(members)

\* The lazy queue misses nothing: between rounds every pair that may be merged
\* has exactly one entry, and its recorded count is not below the true one, so
\* the first entry found up to date is the best pair.
QueueCovers ==
    phase = "pop" =>
        /\ \A e, f \in queue : e.state = f.state => e = f
        /\ \A s \in DOMAIN book.pairs :
              Eligible(s) => \E e \in queue : e.state = s /\ e.count >= book.pairs[s].count

\* No abort in remove_edge is ever reached.
NoAbort == ~book.aborted

\* The chosen pair is used up by its round: every occurrence was merged or
\* overlapped by a merged one, so its list, emptied up front, ends up consistent.
RoundUsesUpPair ==
    RoundProcessed => /\ book.pairs[best].count = 0
                      /\ book.pairs[best].word_count = 0
                      /\ book.pairs[best].positions_head = no_position
                      /\ book.pairs[best].positions_tail = no_position

-----------------------------------------------------------------------------
(* The threads.                                                            *)

\* A merge never finds the merged token on its right, whether it takes its edges
\* away at once, in a sequential round, or leaves them to the replay: occurrences of a
\* word are merged from left to right.  So neither caller of get_right_pair_state
\* takes its case of equal tokens.
NothingMergedAhead ==
    /\ phase = "sequential" =>
         \A p \in Position :
            pair_is_at(p, left_token, right_token) /\ is_live(next[next[p]])
               => token[next[next[p]]] # merged_token
    /\ \A t \in Threads : \A i \in DOMAIN events[t] :
          events[t][i].after # no_position => events[t][i].after_token # merged_token

\* When the parallel region ends every occurrence has been merged: the words the
\* threads own are, together, all the words of the list.
RegionMergesAll ==
    phase = "replay" => \A p \in Position : ~pair_is_at(p, left_token, right_token)
=============================================================================
