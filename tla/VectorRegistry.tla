---------------------------- MODULE VectorRegistry ----------------------------
(***************************************************************************)
(* The pairs of task2.cpp, and of parallel_task2_v3.cpp, which copies      *)
(* them: groups, free list, caches and stamps as in PairRegistry, but a    *)
(* pair keeps its positions in a vector that is only ever appended to.  A  *)
(* position stays in the vector when its edge has gone, so what a round    *)
(* reads from it is checked against the chain again.                       *)
(*                                                                         *)
(* In the book, listed[s] is the vector of pair s; the ends of the linked  *)
(* list in a pair record are not used.                                     *)
(***************************************************************************)
EXTENDS Integers, Sequences

CONSTANT no_position

LOCAL Registry == INSTANCE PairRegistry

EmptyBook(Position) ==
    [pairs |-> << >>, listed |-> << >>,
     edge_group |-> [p \in Position |-> no_position],
     group_state |-> << >>, group_count |-> << >>, free_head |-> no_position,
     left_cache |-> {}, right_cache |-> {}, same_cache |-> {},
     born |-> << >>, aborted |-> FALSE]

\* Mutant: the newest position comes first.
push_back_Front(b, s, position) ==
    [b EXCEPT !.listed = IF s \in DOMAIN @ THEN [@ EXCEPT ![s] = <<position>> \o @]
                         ELSE Append(@, <<position>>)]

\* positions.push_back: a pair's vector starts with the edge it is created for.
push_back(b, s, position) ==
    [b EXCEPT !.listed = IF s \in DOMAIN @ THEN [@ EXCEPT ![s] = Append(@, position)]
                         ELSE Append(@, <<position>>)]

\* The two lookups are the same text in all versions of the program.
get_left_pair_state(b, left, merged) == Registry!get_left_pair_state(b, left, merged)
get_right_pair_state(b, merged, right) == Registry!get_right_pair_state(b, merged, right)

\* Recycles an emptied group; its pair loses a word.
FreeGroup(b, group) == Registry!FreeGroup(b, group)

remove_edge(b, start, frequency) ==
    LET group   == b.edge_group[start]
        counted == [b EXCEPT !.pairs[b.group_state[group]].count = @ - frequency,
                             !.group_count[group] = @ - 1,
                             !.edge_group[start] = no_position]
    IN  IF Registry!RemoveAborts(b, start, frequency) THEN [b EXCEPT !.aborted = TRUE]
        ELSE IF b.group_count[group] = 1 THEN FreeGroup(counted, group) ELSE counted

\* The edge joins group `group' of pair s, which it opens if the group is empty.
Joined(b, start, s, group, frequency) ==
    push_back([b EXCEPT !.pairs[s] = Registry!Counted(@, frequency,
                                         IF b.group_count[group] = 0 THEN 1 ELSE 0),
                        !.group_count[group] = @ + 1,
                        !.edge_group[start] = group],
              s, start)

add_edge(b, start, s, word, frequency) ==
    LET g == Registry!get_word_group(b, s, word)
    IN  Joined(g, start, s, g.pairs[s].last_group, frequency)

\* build_state: the free list is still empty, so a group is a new one.
build_edge(b, start, key, word, frequency) ==
    LET known == {s \in DOMAIN b.pairs : b.pairs[s].key = key}
        c     == IF known # {} THEN b ELSE Registry!create_pair_state(b, key)
    IN  add_edge(c, start, IF known # {} THEN CHOOSE s \in known : TRUE ELSE Len(c.pairs),
                 word, frequency)
=============================================================================
