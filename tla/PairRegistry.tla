---------------------------- MODULE PairRegistry ----------------------------
(***************************************************************************)
(* The bookkeeping of task2_state in parallel_task2.cpp: which occurrences *)
(* ("edges", named by the position of their left token) each pair of       *)
(* tokens has.  Every operator takes the book b, a record, and returns the *)
(* book the C++ function leaves behind:                                    *)
(*                                                                         *)
(*   pairs        the pair_state vector; a state id is an index            *)
(*   edge_group   position -> group of the edge that starts there          *)
(*   pos_prev, pos_next   the list links threaded through the positions    *)
(*   group_state, group_count   one group per (pair, word): its pair, and  *)
(*                its number of edges or, on the free list, the next group *)
(*   free_head    the head of the free list of groups                      *)
(*   left_cache, right_cache, same_cache   the left_/right_/same_ stamps:  *)
(*                the pair born for a neighbour token in a given round     *)
(*   born         born_states: the pairs created in this round             *)
(*   aborted      std::abort() was called                                  *)
(*                                                                         *)
(* A position is <<word, index>>; ids start at 1.                          *)
(***************************************************************************)
EXTENDS Integers, Sequences, FiniteSets

CONSTANT no_position    \* the u32 sentinel shared by every kind of index

ASSUME NoPositionAssumption == no_position \notin Nat \cup (Nat \X Nat)

NewPair(key) ==
    [key |-> key, count |-> 0, word_count |-> 0,
     positions_head |-> no_position, positions_tail |-> no_position,
     last_word |-> no_position, last_group |-> no_position]

EmptyBook(Position) ==
    [pairs |-> << >>,
     edge_group |-> [p \in Position |-> no_position],
     pos_prev |-> [p \in Position |-> no_position],
     pos_next |-> [p \in Position |-> no_position],
     group_state |-> << >>, group_count |-> << >>, free_head |-> no_position,
     left_cache |-> {}, right_cache |-> {}, same_cache |-> {},
     born |-> << >>, aborted |-> FALSE]

-----------------------------------------------------------------------------
(* The list of a pair's positions.                                         *)

\* The ends of the list after a position is appended, and after the one between
\* prev and next has left.
WithTail(pair, position) ==
    [pair EXCEPT
       !.positions_head = IF pair.positions_tail = no_position THEN position ELSE @,
       !.positions_tail = position]

WithoutMember(pair, prev, next) ==
    [pair EXCEPT
       !.positions_head = IF prev = no_position THEN next ELSE @,
       !.positions_tail = IF next = no_position THEN prev ELSE @]

\* Mutant: appends at the head, as a swap with the last entry would reorder.
link_append_AtHead(b, s, position) ==
    LET head == b.pairs[s].positions_head
    IN  [b EXCEPT
          !.pos_next[position] = head,
          !.pos_prev = IF head = no_position
                       THEN [@ EXCEPT ![position] = no_position]
                       ELSE [@ EXCEPT ![position] = no_position,
                                      ![head] = position],
          !.pairs[s].positions_tail = IF head = no_position THEN position ELSE @,
          !.pairs[s].positions_head = position]

link_append(b, s, position) ==
    LET tail == b.pairs[s].positions_tail
    IN  [b EXCEPT
          !.pos_prev[position] = tail,
          !.pos_next = IF tail = no_position
                       THEN [@ EXCEPT ![position] = no_position]
                       ELSE [@ EXCEPT ![position] = no_position,
                                      ![tail] = position],
          !.pairs[s] = WithTail(@, position)]

\* Mutant: the list's tail is not moved when its last member leaves.
link_remove_KeepsTail(b, s, position) ==
    LET prev == b.pos_prev[position]
        next == b.pos_next[position]
    IN  [b EXCEPT
          !.pos_next = IF prev = no_position THEN @ ELSE [@ EXCEPT ![prev] = next],
          !.pos_prev = IF next = no_position THEN @ ELSE [@ EXCEPT ![next] = prev],
          !.pairs[s].positions_head = IF prev = no_position THEN next ELSE @]

link_remove(b, s, position) ==
    LET prev == b.pos_prev[position]
        next == b.pos_next[position]
    IN  [b EXCEPT
          !.pos_next = IF prev = no_position THEN @ ELSE [@ EXCEPT ![prev] = next],
          !.pos_prev = IF next = no_position THEN @ ELSE [@ EXCEPT ![next] = prev],
          !.pairs[s] = WithoutMember(@, prev, next)]

-----------------------------------------------------------------------------
(* Creating and finding the pairs of a merged token.                       *)

create_pair_state(b, key) ==
    [b EXCEPT !.pairs = Append(@, NewPair(key)),
              !.born = Append(@, Len(b.pairs) + 1)]

\* Mutants: the stamp of an earlier round is taken for this round's; the cache
\* never hits.
Hits_AnyStamp(cache, token, merged) == {c \in cache : c.token = token}
Hits_None(cache, token, merged) == {}

Hits(cache, token, merged) == {c \in cache : c.token = token /\ c.stamp = merged}

\* A stamp slot holds one entry per token: a new round's entry replaces it.
Stamped(cache, token, merged, s) ==
    {c \in cache : c.token # token}
        \cup {[token |-> token, stamp |-> merged, state |-> s]}

Found(hits) == (CHOOSE c \in hits : TRUE).state

\* Each get_ operator returns the book and the id of the pair.
get_same_pair_state(b, merged) ==
    LET hits == Hits(b.same_cache, merged, merged)
    IN  IF hits # {}
        THEN [book |-> b, state |-> Found(hits)]
        ELSE [book |-> [create_pair_state(b, <<merged, merged>>) EXCEPT
                          !.same_cache = Stamped({}, merged, merged, Len(b.pairs) + 1)],
              state |-> Len(b.pairs) + 1]

get_left_pair_state(b, left, merged) ==
    LET hits == Hits(b.left_cache, left, merged)
    IN  IF left = merged THEN get_same_pair_state(b, merged)
        ELSE IF hits # {} THEN [book |-> b, state |-> Found(hits)]
        ELSE [book |-> [create_pair_state(b, <<left, merged>>) EXCEPT
                          !.left_cache = Stamped(@, left, merged, Len(b.pairs) + 1)],
              state |-> Len(b.pairs) + 1]

get_right_pair_state(b, merged, right) ==
    LET hits == Hits(b.right_cache, right, merged)
    IN  IF right = merged THEN get_same_pair_state(b, merged)
        ELSE IF hits # {} THEN [book |-> b, state |-> Found(hits)]
        ELSE [book |-> [create_pair_state(b, <<merged, right>>) EXCEPT
                          !.right_cache = Stamped(@, right, merged, Len(b.pairs) + 1)],
              state |-> Len(b.pairs) + 1]

-----------------------------------------------------------------------------
(* Groups: the edges of one pair in one word.                              *)

\* A group for pair s in a word, from the free list first.
NewGroup(b, s) ==
    IF b.free_head # no_position
    THEN [book |-> [b EXCEPT !.free_head = b.group_count[b.free_head],
                             !.group_count[b.free_head] = 0,
                             !.group_state[b.free_head] = s],
          group |-> b.free_head]
    ELSE [book |-> [b EXCEPT !.group_state = Append(@, s),
                             !.group_count = Append(@, 0)],
          group |-> Len(b.group_state) + 1]

WithGroup(pair, word, group) ==
    [pair EXCEPT !.last_word = word, !.last_group = group]

\* Afterwards pairs[s].last_group is the group the function returns.
get_word_group(b, s, word) ==
    IF b.pairs[s].last_word = word THEN b
    ELSE LET new == NewGroup(b, s)
         IN  [new.book EXCEPT !.pairs[s] = WithGroup(@, word, new.group)]

\* Mutant: the one-slot cache outlives the group.
WithoutGroup_KeepsCache(pair, group) == [pair EXCEPT !.word_count = @ - 1]

\* A pair that has lost a group: the one-slot cache must not outlive it.
WithoutGroup(pair, group) ==
    [pair EXCEPT
       !.word_count = @ - 1,
       !.last_word = IF pair.last_group = group THEN no_position ELSE @,
       !.last_group = IF pair.last_group = group THEN no_position ELSE @]

\* Mutant: an emptied group is not put on the free list.
FreeGroup_Leaks(b, group) ==
    [b EXCEPT !.pairs[b.group_state[group]] = WithoutGroup(@, group)]

FreeGroup(b, group) ==
    [b EXCEPT !.pairs[b.group_state[group]] = WithoutGroup(@, group),
              !.group_count[group] = b.free_head,
              !.free_head = group]

\* An occurrence more, in so many words more.
Counted(pair, frequency, words) ==
    [pair EXCEPT !.count = @ + frequency, !.word_count = @ + words]

\* The three conditions under which remove_edge calls std::abort().
RemoveAborts(b, start, frequency) ==
    LET group == b.edge_group[start]
    IN  \/ group = no_position
        \/ b.group_count[group] = 0
        \/ b.pairs[b.group_state[group]].count < frequency
        \/ /\ b.group_count[group] = 1
           /\ b.pairs[b.group_state[group]].word_count = 0

\* The edge leaves the counts of its group and of its pair, and the pair's list.
Unlinked(b, start, frequency) ==
    LET group == b.edge_group[start]
        s     == b.group_state[group]
    IN  link_remove([b EXCEPT !.pairs[s].count = @ - frequency,
                              !.group_count[group] = @ - 1,
                              !.edge_group[start] = no_position],
                    s, start)

remove_edge(b, start, frequency) ==
    LET group == b.edge_group[start]
        u     == Unlinked(b, start, frequency)
    IN  IF RemoveAborts(b, start, frequency) THEN [b EXCEPT !.aborted = TRUE]
        ELSE IF b.group_count[group] = 1 THEN FreeGroup(u, group) ELSE u

\* Mutant: word_count counts occurrences instead of words.
add_edge_CountsEdges(b, start, s, word, frequency) ==
    LET g     == get_word_group(b, s, word)
        group == g.pairs[s].last_group
    IN  link_append([g EXCEPT
                       !.pairs[s] = Counted(@, frequency, 1),
                       !.group_count[group] = @ + 1,
                       !.edge_group[start] = group],
                    s, start)

add_edge(b, start, s, word, frequency) ==
    LET g     == get_word_group(b, s, word)
        group == g.pairs[s].last_group
    IN  link_append([g EXCEPT
                       !.pairs[s] = Counted(@, frequency,
                                            IF g.group_count[group] = 0 THEN 1 ELSE 0),
                       !.group_count[group] = @ + 1,
                       !.edge_group[start] = group],
                    s, start)

\* build_state registers an edge of the input: groups are new ones only.
build_edge(b, start, key, word, frequency) ==
    LET known == {s \in DOMAIN b.pairs : b.pairs[s].key = key}
        c     == IF known # {} THEN b ELSE create_pair_state(b, key)
        s     == IF known # {} THEN CHOOSE k \in known : TRUE ELSE Len(c.pairs)
        fresh == c.pairs[s].last_word # word
        group == IF fresh THEN Len(c.group_state) + 1 ELSE c.pairs[s].last_group
        sizes == IF fresh THEN Append(c.group_count, 1)
                 ELSE [c.group_count EXCEPT ![group] = @ + 1]
    IN  link_append([c EXCEPT
                       !.pairs[s] = WithGroup(Counted(@, frequency, IF fresh THEN 1 ELSE 0),
                                              word, group),
                       !.group_state = IF fresh THEN Append(c.group_state, s) ELSE c.group_state,
                       !.group_count = sizes,
                       !.edge_group = [c.edge_group EXCEPT ![start] = group]],
                    s, start)

-----------------------------------------------------------------------------
(* What holds of every book.                                               *)

Pair(Position) ==
    [key : Nat \X Nat, count : Nat, word_count : Nat,
     positions_head : Position \cup {no_position},
     positions_tail : Position \cup {no_position},
     last_word : Nat \cup {no_position}, last_group : Nat \cup {no_position}]

CacheEntry == [token : Nat, stamp : Nat, state : Nat]

\* Type invariant of a book over the positions of an input.
BookTypeOK(b, Position) ==
    b \in [pairs : Seq(Pair(Position)),
           edge_group : [Position -> Nat \cup {no_position}],
           pos_prev : [Position -> Position \cup {no_position}],
           pos_next : [Position -> Position \cup {no_position}],
           group_state : Seq(Nat), group_count : Seq(Nat \cup {no_position}),
           free_head : Nat \cup {no_position},
           left_cache : SUBSET CacheEntry, right_cache : SUBSET CacheEntry,
           same_cache : SUBSET CacheEntry,
           born : Seq(Nat), aborted : BOOLEAN]

Members(b, group) == {p \in DOMAIN b.edge_group : b.edge_group[p] = group}

Used(b) == {g \in DOMAIN b.group_count : Members(b, g) # {}}

Unused(b) == DOMAIN b.group_count \ Used(b)

\* Every id names something: edges name groups, groups and caches name pairs.
IdsInRange(b) ==
    /\ DOMAIN b.group_state = DOMAIN b.group_count
    /\ \A p \in DOMAIN b.edge_group :
          b.edge_group[p] # no_position => b.edge_group[p] \in DOMAIN b.group_count
    /\ \A g \in DOMAIN b.group_state : b.group_state[g] \in DOMAIN b.pairs
    /\ \A c \in b.left_cache \cup b.right_cache \cup b.same_cache : c.state \in DOMAIN b.pairs
    /\ \A i \in DOMAIN b.born : b.born[i] \in DOMAIN b.pairs

\* A group in use counts its edges.
UsedCounted(b) == \A g \in Used(b) : b.group_count[g] = Cardinality(Members(b, g))

\* The free list stays among the groups nobody uses, and no two of them, nor the
\* head, lead to the same group: it cannot branch, and it cannot run into a cycle.
FreeListSound(b) ==
    /\ b.free_head \in Unused(b) \cup {no_position}
    /\ \A g \in Unused(b) :
          /\ b.group_count[g] \in Unused(b) \cup {no_position}
          /\ b.group_count[g] # no_position =>
                /\ b.group_count[g] # b.free_head
                /\ \A h \in Unused(b) : b.group_count[h] = b.group_count[g] => h = g

\* The one-slot cache of a pair names a group of that pair that is in use.
CacheSound(b) ==
    \A s \in DOMAIN b.pairs :
        b.pairs[s].last_word # no_position =>
            /\ b.pairs[s].last_group \in Used(b)
            /\ b.group_state[b.pairs[s].last_group] = s

GroupsSound(b) == IdsInRange(b) /\ UsedCounted(b) /\ FreeListSound(b) /\ CacheSound(b)
=============================================================================
