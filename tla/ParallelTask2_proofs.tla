------------------------ MODULE ParallelTask2_proofs ------------------------
(***************************************************************************)
(* Type correctness, the soundness of the groups and the independence of   *)
(* the threads, for every corpus, every threshold and every number of      *)
(* threads: the inductive invariant IInv, the proof that every action      *)
(* keeps it, and what follows from it.                                     *)
(*                                                                         *)
(* Then what a round does to the chain, to the token counts and to the     *)
(* counts of the pairs: the links never lose a slot, only the round's      *)
(* newborn pairs gain occurrences, and therefore an entry of the queue     *)
(* never promises less than its pair has.  And what a merge does to a      *)
(* chain and to a book that describes it.                                  *)
(*                                                                         *)
(* Last the invariant EInv behind the exactness of the book, and that the  *)
(* steps from the choice of a pair to the end of the region keep it; the   *)
(* steps that change the registry follow in BpeRefinement_proofs.          *)
(***************************************************************************)
EXTENDS MergeLoopBook, PairRegistry_proofs

InRound == phase \in {"sequential", "surgery", "replay"}

PendingEvents == UNION {{events[t][i] : i \in DOMAIN events[t]} : t \in Threads}

\* Links stay in their word, next leads right and previous left.
ChainOrdered ==
    \A p \in Position :
        /\ next[p] # no_position => next[p][1] = p[1] /\ next[p][2] > p[2]
        /\ previous[p] # no_position => previous[p][1] = p[1] /\ previous[p][2] < p[2]
        /\ alive[p] => next[p] # no_position

\* The links of the slots that are alive are inverse to each other.
ChainLinked ==
    \A p \in Position :
        alive[p] =>
            /\ alive[next[p]] => previous[next[p]] = p
            /\ previous[p] # no_position => alive[previous[p]] /\ next[previous[p]] = p

TokensKnown ==
    /\ Len(token_count) = Len(vocabulary)
    /\ \A p \in Position : alive[p] => token[p] \in DOMAIN vocabulary

PairsKnown ==
    /\ KeysIn(book, DOMAIN vocabulary)
    /\ \A e \in queue : e.state \in DOMAIN book.pairs
    /\ phase = "walk" \/ InRound => best \in DOMAIN book.pairs
    /\ InRound => /\ left_token \in 1..(Len(vocabulary) - 1)
                  /\ right_token \in 1..(Len(vocabulary) - 1)

\* build_state has registered no edge from its cursor on.
BuildAhead ==
    phase = "build" =>
        /\ cursor \in Nat \X Nat
        /\ cursor[1] \in DOMAIN splits =>
             /\ cursor \in Position
             /\ \A p \in Position :
                   p[1] > cursor[1] \/ (p[1] = cursor[1] /\ p[2] >= cursor[2])
                      => book.edge_group[p] = no_position

WalkCursor == phase = "walk" => cursor \in Optional(Position)

\* The last slot of a word that is alive starts no edge, unless the merge that
\* made it the last one has still to be replayed.
EndsFree ==
    phase # "aborted" =>
        \A p \in Position :
            alive[p] /\ ~alive[next[p]] /\ book.edge_group[p] # no_position
                => \E e \in PendingEvents : e.position = p

\* A thread only ever touches the words it owns.
ThreadsOwn ==
    \A t \in Threads :
        /\ \A w \in bucket[t] : Owner(w) = t
        /\ word[t] # 0 => Owner(word[t]) = t
        /\ held[t] # no_position => Owner(held[t].position[1]) = t
        /\ \A i \in DOMAIN events[t] : Owner(events[t][i].position[1]) = t

ThreadsIdle ==
    /\ phase # "surgery" => \A t \in Threads : held[t] = no_position
    /\ phase \notin {"surgery", "replay", "aborted"} => \A t \in Threads : events[t] = << >>

\* An event not yet replayed still describes the chain and the book as the
\* replay will find them.
EventsSound ==
    phase \in {"surgery", "replay"} =>
        \A e \in PendingEvents :
            /\ alive[e.position] /\ token[e.position] = merged_token
            /\ ~alive[e.right]
            /\ e.left # no_position =>
                 /\ e.left # e.position
                 /\ alive[e.left] => next[e.left] = e.position
                 /\ e.left_token \in DOMAIN vocabulary
            /\ e.after # no_position =>
                 /\ alive[next[e.position]]
                 /\ e.after_token \in DOMAIN vocabulary
            /\ e.after = no_position =>
                 /\ book.edge_group[e.right] = no_position
                 /\ \A f \in PendingEvents : f.left # e.right

IInv ==
    /\ TypeOK
    /\ GroupsSafe
    /\ ChainOrdered
    /\ ChainLinked
    /\ TokensKnown
    /\ PairsKnown
    /\ BuildAhead
    /\ WalkCursor
    /\ EndsFree
    /\ ThreadsOwn
    /\ ThreadsIdle
    /\ EventsSound
    /\ HeldFresh

-----------------------------------------------------------------------------
(* Positions.                                                              *)

LEMMA PositionsFinite ==
    ASSUME splits \in Corpora
    PROVE  IsFiniteSet(Position)
<1> DEFINE W       == DOMAIN splits
           slots   == [w \in W |-> {w} \X (1..(Len(splits[w].chars) + 1))]
           columns == {{w} \X (1..(Len(splits[w].chars) + 1)) : w \in W}
<1>1. splits \in Seq([chars : Seq(1..byte_max), count : Nat])
  BY CorpusAssumption
<1>2. IsFiniteSet(W)
  <2>1. W = 1..Len(splits) /\ Len(splits) \in Nat
    BY <1>1
  <2>2. QED
    BY <2>1, FS_Interval
<1>3. slots \in Surjection(W, columns)
  BY DEF Surjection
<1>4. IsFiniteSet(columns)
  BY <1>2, <1>3, FS_Surjection
<1>5. ASSUME NEW w \in W
      PROVE  IsFiniteSet({w} \X (1..(Len(splits[w].chars) + 1)))
  <2>1. Len(splits[w].chars) + 1 \in Int
    BY <1>1
  <2>2. IsFiniteSet(1..(Len(splits[w].chars) + 1))
    BY <2>1, FS_Interval
  <2>3. IsFiniteSet({w})
    BY FS_Singleton
  <2>4. QED
    BY <2>2, <2>3, FS_Product
<1>6. \A T \in columns : IsFiniteSet(T)
  BY <1>5
<1>7. Position = UNION columns
  BY DEF Position
<1> HIDE DEF columns
<1>8. QED
  BY <1>4, <1>6, <1>7, FS_UNION

LEMMA PositionsTyped ==
    ASSUME splits \in Corpora
    PROVE  /\ Position \subseteq Nat \X Nat
           /\ no_position \notin Position
           /\ \A p \in Position : /\ p = <<p[1], p[2]>>
                                  /\ p[1] \in DOMAIN splits /\ p[1] \in Nat \ {0} /\ p[2] \in Nat \ {0}
                                  /\ p[2] <= Len(splits[p[1]].chars) + 1
                                  /\ Frequency(p) \in Nat
           /\ \A w \in DOMAIN splits : <<w, 1>> \in Position
           /\ \A w, i : <<w, i>> \in Position <=> /\ w \in DOMAIN splits
                                                  /\ i \in 1..(Len(splits[w].chars) + 1)
           /\ DOMAIN splits \subseteq Nat \ {0}
           /\ \A w \in DOMAIN splits : Len(splits[w].chars) \in Nat
<1>1. splits \in Seq([chars : Seq(1..byte_max), count : Nat])
  BY CorpusAssumption
<1>2. DOMAIN splits \subseteq Nat \ {0}
  BY <1>1
<1>3. \A w \in DOMAIN splits : Len(splits[w].chars) \in Nat /\ splits[w].count \in Nat
  <2> TAKE w \in DOMAIN splits
  <2>1. splits[w] \in [chars : Seq(1..byte_max), count : Nat]
    <3> DEFINE S == [chars : Seq(1..byte_max), count : Nat]
    <3>1. splits \in Seq(S)
      BY <1>1
    <3> HIDE DEF S
    <3>2. splits[w] \in S
      BY <3>1
    <3>3. QED
      BY <3>2 DEF S
  <2>2. splits[w].chars \in Seq(1..byte_max) /\ splits[w].count \in Nat
    BY <2>1
  <2>3. QED
    BY <2>2
<1>4. \A p \in Position : \E w \in DOMAIN splits : \E i \in 1..(Len(splits[w].chars) + 1) : p = <<w, i>>
  BY DEF Position
<1>5. \A w \in DOMAIN splits : \A i \in 1..(Len(splits[w].chars) + 1) : <<w, i>> \in Position
  BY DEF Position
<1>6. \A p \in Position : /\ p = <<p[1], p[2]>>
                          /\ p[1] \in DOMAIN splits
                          /\ p[2] \in 1..(Len(splits[p[1]].chars) + 1)
  BY <1>4
<1>7. Position \subseteq Nat \X Nat
  BY <1>2, <1>3, <1>6
<1>8. \A w, i : <<w, i>> \in Position <=> /\ w \in DOMAIN splits
                                          /\ i \in 1..(Len(splits[w].chars) + 1)
  BY <1>5, <1>6
<1>9. no_position \notin Position
  BY <1>7, NoPositionAssumption
<1>10. QED
  BY <1>2, <1>3, <1>5, <1>6, <1>7, <1>8, <1>9 DEF Frequency

LEMMA PositionsFixed ==
    ASSUME splits' = splits
    PROVE  Position' = Position /\ \A p : Frequency(p)' = Frequency(p)
BY DEF Position, Frequency

-----------------------------------------------------------------------------
(* The initial states.                                                     *)

LEMMA EmptyBookOK ==
    ASSUME NEW P
    PROVE  BookOK(EmptyBook(P), P)
<1> DEFINE b == EmptyBook(P)
<1>1. /\ b.pairs = << >> /\ b.group_state = << >> /\ b.group_count = << >> /\ b.born = << >>
      /\ b.free_head = no_position
      /\ b.left_cache = {} /\ b.right_cache = {} /\ b.same_cache = {}
      /\ b.edge_group = [p \in P |-> no_position]
  BY DEF EmptyBook
<1>2. BookTypeOK(b, P)
  BY DEF EmptyBook, BookTypeOK
<1> HIDE DEF b
<1>3. DOMAIN b.group_count = {} /\ DOMAIN b.group_state = {} /\ DOMAIN b.pairs = {} /\ DOMAIN b.born = {}
  BY <1>1
<1>4. Used(b) = {} /\ Unused(b) = {}
  BY <1>3 DEF Used, Unused
<1>5. IdsInRange(b)
  BY <1>1, <1>3 DEF IdsInRange
<1>6. UsedCounted(b) /\ FreeListSound(b) /\ CacheSound(b)
  BY <1>1, <1>3, <1>4 DEF UsedCounted, FreeListSound, CacheSound
<1>7. QED
  BY <1>2, <1>5, <1>6 DEF BookOK, GroupsSound, b

LEMMA SeqElement ==
    ASSUME NEW S, NEW seq \in Seq(S), NEW i \in Nat \ {0}, i <= Len(seq)
    PROVE  seq[i] \in S
OBVIOUS

LEMMA CorpusByte ==
    ASSUME splits \in Corpora, NEW p \in Position, p[2] <= Len(splits[p[1]].chars)
    PROVE  splits[p[1]].chars[p[2]] \in 1..byte_max
<1> DEFINE B == 1..byte_max
           S == [chars : Seq(B), count : Nat]
           w == p[1]
           i == p[2]
<1>1. splits \in Seq(S) /\ w \in DOMAIN splits /\ i \in Nat \ {0} /\ i <= Len(splits[w].chars)
  BY CorpusAssumption, PositionsTyped
<1> HIDE DEF B, S, w, i
<1>2. splits[w] \in S
  BY <1>1
<1>3. splits[w].chars \in Seq(B)
  BY <1>2 DEF S
<1> DEFINE chars == splits[w].chars
<1>4. chars \in Seq(B) /\ i <= Len(chars)
  BY <1>1, <1>3
<1> HIDE DEF chars
<1>5. chars[i] \in B
  BY <1>1, <1>4, SeqElement
<1>6. QED
  BY <1>5 DEF chars, B, w, i

LEMMA InitTypeOK == Init => TypeOK
<1> SUFFICES ASSUME Init PROVE TypeOK
  OBVIOUS
<1>1. splits \in Corpora
  BY DEF Init, InitInput
<1>2. /\ Position \subseteq Nat \X Nat
      /\ \A w, i : <<w, i>> \in Position <=> w \in DOMAIN splits /\ i \in 1..(Len(splits[w].chars) + 1)
      /\ \A p \in Position : /\ p = <<p[1], p[2]>>
                             /\ p[1] \in DOMAIN splits /\ p[2] \in Nat \ {0}
                             /\ p[2] <= Len(splits[p[1]].chars) + 1
      /\ \A w \in DOMAIN splits : Len(splits[w].chars) \in Nat
  BY <1>1, PositionsTyped
<1>3. \A p \in Position : p[2] <= Len(splits[p[1]].chars) => splits[p[1]].chars[p[2]] \in Nat
  BY <1>1, CorpusByte, ByteAssumption
<1>4. token \in [Position -> Nat] /\ alive \in [Position -> BOOLEAN]
  BY <1>3 DEF Init, InitInput
<1>5. next \in [Position -> Optional(Position)]
  <2>1. \A p \in Position : p[2] <= Len(splits[p[1]].chars) => <<p[1], p[2] + 1>> \in Position
    BY <1>2
  <2>2. QED
    BY <2>1 DEF Init, InitInput, Optional
<1>6. previous \in [Position -> Optional(Position)]
  <2>1. \A p \in Position : p[2] # 1 => <<p[1], p[2] - 1>> \in Position
    BY <1>2
  <2>2. QED
    BY <2>1 DEF Init, InitInput, Optional
<1>7. vocabulary \in Seq(Seq(Nat)) /\ token_count \in Seq(Int)
  <2>1. \A v \in 1..byte_max : <<v>> \in Seq(Nat)
    OBVIOUS
  <2>2. vocabulary \in [1..byte_max -> Seq(Nat)] /\ token_count \in [1..byte_max -> Int]
    BY <2>1 DEF Init, InitInput
  <2>3. QED
    BY <2>2, ByteAssumption
<1>8. BookTypeOK(book, Position)
  BY EmptyBookOK DEF Init, InitInput, BookOK
<1>9. /\ bucket \in [Threads -> SUBSET DOMAIN splits]
      /\ word \in [Threads -> Nat] /\ index \in [Threads -> Nat]
      /\ held \in [Threads -> Optional(Occurrence)]
      /\ events \in [Threads -> Seq(EventSet)]
  BY DEF Init, InitInput, Optional
<1>10. /\ queue = {} /\ phase = "build" /\ cursor = <<1, 1>> /\ best = no_position
       /\ positions = << >> /\ total_frequency = 0
  BY DEF Init, InitInput
<1>11. cursor \in Optional(Nat \X Nat)
  BY <1>10 DEF Optional
<1>12. QED
  BY <1>1, <1>4, <1>5, <1>6, <1>7, <1>8, <1>9, <1>10, <1>11 DEF TypeOK, Optional

LEMMA InitInv == Init => IInv
<1> SUFFICES ASSUME Init PROVE IInv
  OBVIOUS
<1>1. splits \in Corpora /\ book = EmptyBook(Position) /\ phase = "build"
  BY DEF Init, InitInput
<1>2. /\ Position \subseteq Nat \X Nat /\ no_position \notin Position
      /\ \A w \in DOMAIN splits : <<w, 1>> \in Position
      /\ \A w, i : <<w, i>> \in Position <=> w \in DOMAIN splits /\ i \in 1..(Len(splits[w].chars) + 1)
      /\ \A p \in Position : /\ p = <<p[1], p[2]>>
                             /\ p[1] \in DOMAIN splits /\ p[1] \in Nat \ {0} /\ p[2] \in Nat \ {0}
                             /\ p[2] <= Len(splits[p[1]].chars) + 1
      /\ \A w \in DOMAIN splits : Len(splits[w].chars) \in Nat
  BY <1>1, PositionsTyped
<1>3. TypeOK
  BY InitTypeOK
<1>4. GroupsSafe
  BY <1>1, EmptyBookOK DEF GroupsSafe, BookOK
<1>5. \A p \in Position :
         /\ alive[p] <=> p[2] <= Len(splits[p[1]].chars)
         /\ next[p] = IF p[2] <= Len(splits[p[1]].chars) THEN <<p[1], p[2] + 1>> ELSE no_position
         /\ previous[p] = IF p[2] = 1 THEN no_position ELSE <<p[1], p[2] - 1>>
  BY DEF Init, InitInput
<1>6. /\ \A p \in Position : p[2] <= Len(splits[p[1]].chars) => <<p[1], p[2] + 1>> \in Position
      /\ \A p \in Position : p[2] # 1 => <<p[1], p[2] - 1>> \in Position
  BY <1>2
<1>7. ChainOrdered
  <2> SUFFICES ASSUME NEW p \in Position
               PROVE  /\ next[p] # no_position => next[p][1] = p[1] /\ next[p][2] > p[2]
                      /\ previous[p] # no_position => previous[p][1] = p[1] /\ previous[p][2] < p[2]
                      /\ alive[p] => next[p] # no_position
    BY DEF ChainOrdered
  <2>1. p[2] \in Nat
    BY <1>2
  <2>2. next[p] # no_position => next[p] = <<p[1], p[2] + 1>>
    BY <1>5
  <2>3. previous[p] # no_position => previous[p] = <<p[1], p[2] - 1>>
    BY <1>5
  <2>4. alive[p] => next[p] \in Position
    BY <1>5, <1>6
  <2>5. QED
    BY <1>2, <2>1, <2>2, <2>3, <2>4
<1>8. ChainLinked
  <2> SUFFICES ASSUME NEW p \in Position, alive[p]
               PROVE  /\ alive[next[p]] => previous[next[p]] = p
                      /\ previous[p] # no_position =>
                            alive[previous[p]] /\ next[previous[p]] = p
    BY DEF ChainLinked
  <2>1. next[p] = <<p[1], p[2] + 1>> /\ next[p] \in Position
    BY <1>5, <1>6
  <2>2. previous[next[p]] = <<p[1], p[2]>>
    <3> DEFINE q == next[p]
    <3>1. q \in Position /\ q[1] = p[1] /\ q[2] = p[2] + 1 /\ p[2] \in Nat \ {0}
      BY <1>2, <2>1
    <3> HIDE DEF q
    <3>2. previous[q] = <<q[1], q[2] - 1>>
      <4>1. q[2] # 1
        BY <3>1
      <4>2. QED
        BY <1>5, <3>1, <4>1
    <3>3. q[2] - 1 = p[2]
      BY <3>1
    <3>4. QED
      BY <3>1, <3>2, <3>3 DEF q
  <2>3. previous[p] # no_position => previous[p] = <<p[1], p[2] - 1>> /\ previous[p] \in Position
    BY <1>5, <1>6
  <2>4. ASSUME previous[p] # no_position
        PROVE  alive[previous[p]] /\ next[previous[p]] = p
    <3> DEFINE q == previous[p]
    <3>1. q \in Position /\ q[1] = p[1] /\ q[2] = p[2] - 1
      BY <2>3, <2>4
    <3>2. /\ p[2] \in Nat /\ Len(splits[p[1]].chars) \in Nat
          /\ p[2] <= Len(splits[p[1]].chars) + 1
      BY <1>2
    <3> HIDE DEF q
    <3>3. q[2] <= Len(splits[q[1]].chars) /\ q[2] + 1 = p[2]
      BY <3>1, <3>2
    <3>4. alive[q] /\ next[q] = <<p[1], p[2]>>
      BY <1>5, <3>1, <3>3
    <3>5. QED
      BY <1>2, <3>4 DEF q
  <2>5. QED
    BY <1>2, <2>2, <2>4
<1>9. TokensKnown
  <2>1. vocabulary \in [1..byte_max -> Seq(Nat)] /\ token_count \in [1..byte_max -> Int]
    <3>1. \A v \in 1..byte_max : <<v>> \in Seq(Nat)
      OBVIOUS
    <3>2. QED
      BY <3>1 DEF Init, InitInput
  <2>2. Len(token_count) = Len(vocabulary) /\ DOMAIN vocabulary = 1..byte_max
    BY <2>1, ByteAssumption
  <2>3. \A p \in Position : alive[p] => token[p] \in 1..byte_max
    BY <1>1, <1>5, CorpusByte DEF Init, InitInput
  <2>4. QED
    BY <2>2, <2>3 DEF TokensKnown
<1>10. PairsKnown
  <2>1. book.pairs = << >>
    BY <1>1 DEF EmptyBook
  <2>2. QED
    BY <1>1, <2>1 DEF PairsKnown, KeysIn, InRound, Init, InitInput
<1>11. BuildAhead
  <2>1. \A p \in Position : book.edge_group[p] = no_position
    BY <1>1 DEF EmptyBook
  <2>2. QED
    BY <1>2, <2>1 DEF BuildAhead, Init, InitInput
<1>12. EndsFree
  BY <1>1 DEF EndsFree, EmptyBook
<1>13. ThreadsOwn /\ ThreadsIdle /\ HeldFresh
  BY DEF Init, InitInput, ThreadsOwn, ThreadsIdle, HeldFresh
<1>14. WalkCursor /\ EventsSound
  BY <1>1 DEF WalkCursor, EventsSound
<1>15. QED
  BY <1>3, <1>4, <1>7, <1>8, <1>9, <1>10, <1>11, <1>12, <1>13, <1>14 DEF IInv

-----------------------------------------------------------------------------
(* What working off a merge does to the book.                              *)

\* The book c is sound, and has the pairs of b, perhaps more.
Kept(b, c, V) ==
    /\ BookOK(c, Position)
    /\ KeysIn(c, V)
    /\ DOMAIN b.pairs \subseteq DOMAIN c.pairs
    /\ \A s \in DOMAIN b.pairs : c.pairs[s].key = b.pairs[s].key

LEMMA KeptTwice ==
    ASSUME NEW b, NEW c, NEW d, NEW V, Kept(b, c, V), Kept(c, d, V)
    PROVE  Kept(b, d, V)
BY DEF Kept

LEMMA RemoveKept ==
    ASSUME splits \in Corpora, NEW b, BookOK(b, Position), NEW V, KeysIn(b, V),
           NEW start \in Position, NEW f \in Nat
    PROVE  LET c == remove_edge(b, start, f)
           IN  /\ Kept(b, c, V)
               /\ b.aborted => c.aborted
               /\ \A p \in Position : c.edge_group[p] \in {no_position, b.edge_group[p]}
               /\ ~c.aborted => c.edge_group[start] = no_position
<1> DEFINE c == remove_edge(b, start, f)
<1>1. /\ BookOK(c, Position)
      /\ DOMAIN c.pairs = DOMAIN b.pairs
      /\ \A s \in DOMAIN b.pairs : c.pairs[s].key = b.pairs[s].key
      /\ b.aborted => c.aborted
      /\ \/ c.aborted /\ c.edge_group = b.edge_group
         \/ c.edge_group = [b.edge_group EXCEPT ![start] = no_position]
  BY PositionsFinite, RemoveEdge
<1>2. DOMAIN b.edge_group = Position
  BY DEF BookOK, BookTypeOK
<1> HIDE DEF c
<1>3. KeysIn(c, V)
  BY <1>1 DEF KeysIn
<1>4. QED
  BY <1>1, <1>2, <1>3 DEF Kept, c

LEMMA AddKept ==
    ASSUME splits \in Corpora, NEW b, NEW V \in SUBSET Nat, NEW g, Gets(b, g, Position, V),
           NEW start \in Position, b.edge_group[start] = no_position,
           NEW w \in Nat, NEW f \in Nat
    PROVE  LET c == add_edge(g.book, start, g.state, w, f)
           IN  /\ Kept(b, c, V)
               /\ \A p \in Position \ {start} : c.edge_group[p] = b.edge_group[p]
<1> DEFINE c == add_edge(g.book, start, g.state, w, f)
<1>1. /\ BookOK(g.book, Position) /\ KeysIn(g.book, V) /\ Extends(b, g.book)
      /\ g.state \in DOMAIN g.book.pairs /\ g.book.edge_group[start] = no_position
  BY DEF Gets, Extends
<1>2. /\ BookOK(c, Position)
      /\ DOMAIN c.pairs = DOMAIN g.book.pairs
      /\ \A k \in DOMAIN g.book.pairs : c.pairs[k].key = g.book.pairs[k].key
      /\ \A p \in Position \ {start} : c.edge_group[p] = g.book.edge_group[p]
  BY <1>1, PositionsFinite, AddEdge
<1> HIDE DEF c
<1>3. KeysIn(c, V)
  BY <1>1, <1>2 DEF KeysIn
<1>4. QED
  BY <1>1, <1>2, <1>3 DEF Kept, Extends, c

\* The occurrence ev may be worked off on the book b.
Workable(b, ev, V) ==
    /\ ev.position \in Position /\ ev.right \in Position
    /\ ev.left \in Optional(Position) /\ ev.after \in Optional(Position)
    /\ ev.left # ev.position
    /\ ev.left # no_position => ev.left_token \in V
    /\ ev.after # no_position => ev.after_token \in V
    /\ ev.after = no_position => b.edge_group[ev.right] = no_position

LEMMA RemoveEdgesKept ==
    ASSUME splits \in Corpora, NEW b, BookOK(b, Position), NEW V, KeysIn(b, V),
           NEW ev, Workable(b, ev, V)
    PROVE  LET c == RemoveEdges(b, ev)
           IN  /\ Kept(b, c, V)
               /\ \A p \in Position : c.edge_group[p] \in {no_position, b.edge_group[p]}
               /\ ~c.aborted => /\ c.edge_group[ev.position] = no_position
                                /\ ev.left # no_position => c.edge_group[ev.left] = no_position
<1> DEFINE f  == Frequency(ev.position)
           b1 == IF ev.left = no_position THEN b ELSE remove_edge(b, ev.left, f)
           b2 == remove_edge(b1, ev.position, f)
           b3 == remove_edge(b2, ev.right, f)
           z  == [b2 EXCEPT !.edge_group[ev.right] = no_position]
           c  == RemoveEdges(b, ev)
<1>1. f \in Nat /\ ev.position \in Position /\ ev.right \in Position
  BY PositionsTyped DEF Workable
<1>2. c = IF ev.after = no_position THEN z ELSE b3
  BY DEF RemoveEdges
<1> HIDE DEF f
<1>3. /\ Kept(b, b1, V)
      /\ \A p \in Position : b1.edge_group[p] \in {no_position, b.edge_group[p]}
      /\ ~b1.aborted /\ ev.left # no_position => b1.edge_group[ev.left] = no_position
  <2>1. CASE ev.left = no_position
    <3>1. b1 = b
      BY <2>1
    <3> HIDE DEF b1
    <3>2. QED
      BY <2>1, <3>1 DEF Kept
  <2>2. CASE ev.left # no_position
    <3>1. b1 = remove_edge(b, ev.left, f) /\ ev.left \in Position
      BY <2>2 DEF Workable, Optional
    <3> HIDE DEF b1
    <3>2. QED
      BY <1>1, <3>1, RemoveKept
  <2>3. QED
    BY <2>1, <2>2
<1> HIDE DEF b1
<1>4. /\ Kept(b1, b2, V)
      /\ b1.aborted => b2.aborted
      /\ \A p \in Position : b2.edge_group[p] \in {no_position, b1.edge_group[p]}
      /\ ~b2.aborted => b2.edge_group[ev.position] = no_position
  BY <1>1, <1>3, RemoveKept DEF Kept
<1> HIDE DEF b2
<1>5. Kept(b, b2, V) /\ \A p \in Position : b2.edge_group[p] \in {no_position, b.edge_group[p]}
  BY <1>3, <1>4, KeptTwice
<1>6. /\ Kept(b2, b3, V)
      /\ b2.aborted => b3.aborted
      /\ \A p \in Position : b3.edge_group[p] \in {no_position, b2.edge_group[p]}
  BY <1>1, <1>5, RemoveKept DEF Kept
<1> HIDE DEF b3
<1>7. ev.left # no_position => ev.left \in Position
  BY DEF Workable, Optional
<1>8. CASE ev.after # no_position
  <2>1. c = b3
    BY <1>2, <1>8
  <2> HIDE DEF c
  <2>2. Kept(b, c, V)
    BY <1>5, <1>6, <2>1, KeptTwice
  <2>3. QED
    BY <1>1, <1>3, <1>4, <1>5, <1>6, <1>7, <2>1, <2>2 DEF c
<1>9. CASE ev.after = no_position
  <2>1. b2.edge_group[ev.right] = no_position
    BY <1>1, <1>5, <1>9 DEF Workable
  <2>2. b2.edge_group \in [Position -> Nat \cup {no_position}]
    BY <1>4 DEF Kept, BookOK, BookTypeOK
  <2>3. [b2.edge_group EXCEPT ![ev.right] = no_position] = b2.edge_group
    BY <1>1, <2>1, <2>2
  <2>4. z = b2
    BY <1>4, <2>3 DEF Kept, BookOK, BookTypeOK
  <2>5. c = b2
    BY <1>2, <1>9, <2>4
  <2> HIDE DEF c
  <2>6. QED
    BY <1>1, <1>3, <1>4, <1>5, <1>7, <2>5 DEF c
<1>10. QED
  BY <1>8, <1>9

LEMMA AddEdgesKept ==
    ASSUME splits \in Corpora, NEW b, BookOK(b, Position), NEW V \in SUBSET Nat, KeysIn(b, V),
           NEW ev, Workable(b, ev, V), NEW merged \in V,
           b.edge_group[ev.position] = no_position,
           ev.left # no_position => b.edge_group[ev.left] = no_position
    PROVE  LET d == AddEdges(b, ev, merged)
           IN  /\ Kept(b, d, V)
               /\ \A p \in Position :
                     \/ p = ev.left
                     \/ p = ev.position /\ ev.after # no_position
                     \/ d.edge_group[p] = b.edge_group[p]
<1> DEFINE f  == Frequency(ev.position)
           w  == ev.position[1]
           l  == get_left_pair_state(b, ev.left_token, merged)
           a1 == add_edge(l.book, ev.left, l.state, w, f)
           b1 == IF ev.left = no_position THEN b ELSE a1
           r  == get_right_pair_state(b1, merged, ev.after_token)
           a2 == add_edge(r.book, ev.position, r.state, w, f)
           d  == AddEdges(b, ev, merged)
<1>1. f \in Nat /\ w \in Nat /\ ev.position \in Position
  BY PositionsTyped DEF Workable
<1>2. d = IF ev.after = no_position THEN b1 ELSE a2
  BY DEF AddEdges
<1> HIDE DEF f, w
<1>3. /\ Kept(b, b1, V)
      /\ \A p \in Position : p = ev.left \/ b1.edge_group[p] = b.edge_group[p]
  <2>1. CASE ev.left = no_position
    <3>1. b1 = b
      BY <2>1
    <3> HIDE DEF b1
    <3>2. QED
      BY <3>1 DEF Kept
  <2>2. CASE ev.left # no_position
    <3>1. ev.left \in Position /\ ev.left_token \in V
      BY <2>2 DEF Workable, Optional
    <3>2. Gets(b, l, Position, V)
      BY <3>1, GetLeft
    <3> HIDE DEF l
    <3>3. /\ Kept(b, a1, V)
          /\ \A p \in Position \ {ev.left} : a1.edge_group[p] = b.edge_group[p]
      BY <1>1, <2>2, <3>1, <3>2, AddKept
    <3>4. b1 = a1
      BY <2>2
    <3> HIDE DEF a1, b1
    <3>5. QED
      BY <3>3, <3>4
  <2>3. QED
    BY <2>1, <2>2
<1> HIDE DEF b1
<1>4. b1.edge_group[ev.position] = no_position
  BY <1>1, <1>3 DEF Workable
<1>5. CASE ev.after = no_position
  <2>1. d = b1
    BY <1>2, <1>5
  <2> HIDE DEF d
  <2>2. QED
    BY <1>3, <2>1 DEF d
<1>6. CASE ev.after # no_position
  <2>1. ev.after_token \in V /\ BookOK(b1, Position) /\ KeysIn(b1, V)
    BY <1>3, <1>6 DEF Workable, Kept
  <2>2. Gets(b1, r, Position, V)
    BY <2>1, GetRight
  <2> HIDE DEF r
  <2>3. /\ Kept(b1, a2, V)
        /\ \A p \in Position \ {ev.position} : a2.edge_group[p] = b1.edge_group[p]
    <3> DEFINE start == ev.position
    <3>1. start \in Position /\ b1.edge_group[start] = no_position
      BY <1>1, <1>4
    <3> HIDE DEF start
    <3>2. /\ Kept(b1, add_edge(r.book, start, r.state, w, f), V)
          /\ \A p \in Position \ {start} :
                add_edge(r.book, start, r.state, w, f).edge_group[p] = b1.edge_group[p]
      BY <1>1, <2>2, <3>1, AddKept
    <3>3. QED
      BY <3>2 DEF start
  <2>4. d = a2
    BY <1>2, <1>6
  <2> HIDE DEF a2, d
  <2>5. Kept(b, d, V)
    BY <1>3, <2>3, <2>4, KeptTwice
  <2>6. QED
    BY <1>3, <1>6, <2>3, <2>4, <2>5 DEF d
<1>7. QED
  BY <1>5, <1>6

\* Rewire keeps the book sound; afterwards an edge starts only where one did, at
\* the left neighbour, or at the occurrence when it has a right neighbour.
LEMMA RewireKept ==
    ASSUME splits \in Corpora, splits' = splits, BookOK(book, Position),
           NEW V \in SUBSET Nat, KeysIn(book, V),
           NEW ev, Workable(book, ev, V), merged_token \in V, Rewire(ev)
    PROVE  /\ Kept(book, book', V)
           /\ phase' = phase \/ phase' = "aborted"
           /\ phase' # "aborted" =>
                \A p \in Position :
                   book'.edge_group[p] # no_position =>
                      \/ p = ev.left
                      \/ p = ev.position /\ ev.after # no_position
                      \/ p # ev.position /\ book.edge_group[p] # no_position
<1> DEFINE c == RemoveEdges(book, ev)
           d == AddEdges(c, ev, merged_token)
<1>1. /\ book' = IF c.aborted THEN c ELSE d
      /\ phase' = IF c.aborted THEN "aborted" ELSE phase
  BY DEF Rewire
<1>2. /\ Kept(book, c, V)
      /\ \A p \in Position : c.edge_group[p] \in {no_position, book.edge_group[p]}
      /\ ~c.aborted => /\ c.edge_group[ev.position] = no_position
                       /\ ev.left # no_position => c.edge_group[ev.left] = no_position
  BY RemoveEdgesKept
<1> HIDE DEF c
<1>3. CASE c.aborted
  BY <1>1, <1>2, <1>3
<1>4. CASE ~c.aborted
  <2>1. Workable(c, ev, V)
    BY <1>2 DEF Workable
  <2>2. /\ Kept(c, d, V)
        /\ \A p \in Position : \/ p = ev.left
                               \/ p = ev.position /\ ev.after # no_position
                               \/ d.edge_group[p] = c.edge_group[p]
    BY <1>2, <1>4, <2>1, AddEdgesKept DEF Kept
  <2> HIDE DEF d
  <2>3. book' = d /\ phase' = phase
    BY <1>1, <1>4
  <2>4. Kept(book, book', V)
    BY <1>2, <2>2, <2>3, KeptTwice
  <2>5. QED
    BY <1>2, <1>4, <2>2, <2>3, <2>4
<1>5. QED
  BY <1>3, <1>4

-----------------------------------------------------------------------------
(* What a merge does to the chain.                                         *)

ChainTyped ==
    /\ token \in [Position -> Nat]
    /\ alive \in [Position -> BOOLEAN]
    /\ next \in [Position -> Optional(Position)]
    /\ previous \in [Position -> Optional(Position)]

LEMMA NeighbourFacts ==
    ASSUME splits \in Corpora, ChainTyped, ChainOrdered, ChainLinked,
           NEW p \in Position, alive[p], alive[next[p]], NEW n, n = Neighbours(p)
    PROVE  /\ n.position = p
           /\ n.right = next[p] /\ n.right \in Position /\ alive[n.right]
           /\ n.right[1] = p[1] /\ n.right # p /\ previous[n.right] = p
           /\ n.after = next[n.right] /\ n.after \in Position
           /\ n.after[1] = p[1] /\ n.after # p /\ n.after # n.right
           /\ n.left = previous[p] /\ n.left \in Optional(Position) /\ n.left # p
           /\ n.left # no_position => /\ n.left \in Position /\ n.left[1] = p[1]
                                      /\ n.left # n.right /\ n.left # n.after
                                      /\ alive[n.left] /\ next[n.left] = p
<1>1. /\ n.position = p /\ n.right = next[p] /\ n.left = previous[p] /\ n.after = next[next[p]]
  BY DEF Neighbours
<1>2. \A q \in Position : q[2] \in Nat
  BY PositionsTyped
<1>3. no_position \notin Position
  BY PositionsTyped
<1>4. /\ n.right \in Position /\ n.right[1] = p[1] /\ n.right[2] > p[2]
  BY <1>1 DEF ChainTyped, ChainOrdered, Optional
<1>5. /\ n.after \in Position /\ n.after[1] = p[1] /\ n.after[2] > n.right[2]
  BY <1>1, <1>4 DEF ChainTyped, ChainOrdered, Optional
<1>6. /\ n.left \in Optional(Position)
      /\ n.left # no_position => n.left \in Position /\ n.left[1] = p[1] /\ n.left[2] < p[2]
  BY <1>1 DEF ChainTyped, ChainOrdered, Optional
<1>7. /\ n.right # p /\ n.after # p /\ n.after # n.right
  BY <1>2, <1>4, <1>5
<1>8. n.left # no_position => n.left # p /\ n.left # n.right /\ n.left # n.after
  BY <1>2, <1>4, <1>5, <1>6
<1>9. /\ previous[n.right] = p
      /\ n.left # no_position => alive[n.left] /\ next[n.left] = p
  BY <1>1 DEF ChainLinked
<1>10. n.left # p
  BY <1>3, <1>8
<1>11. QED
  BY <1>1, <1>4, <1>5, <1>6, <1>7, <1>8, <1>9, <1>10

\* The slots after the merge of p with right, when after follows right.
Spliced(p, right, after, merged) ==
    \A q \in Position :
        /\ token'[q] = IF q = p THEN merged ELSE token[q]
        /\ alive'[q] <=> q # right /\ alive[q]
        /\ next'[q] = IF q = p THEN after ELSE IF q = right THEN no_position ELSE next[q]
        /\ previous'[q] = IF q = right THEN no_position ELSE IF q = after THEN p ELSE previous[q]

LEMMA SpliceFacts ==
    ASSUME splits \in Corpora, splits' = splits, ChainTyped, ChainOrdered, ChainLinked,
           NEW p \in Position, alive[p], alive[next[p]], NEW n, n = Neighbours(p),
           NEW merged \in Nat, Splice(n, merged)
    PROVE  /\ ChainTyped' /\ ChainOrdered' /\ ChainLinked'
           /\ Spliced(p, n.right, n.after, merged)
<1>1. /\ n.position = p
      /\ n.right = next[p] /\ n.right \in Position /\ alive[n.right]
      /\ n.right[1] = p[1] /\ n.right # p /\ previous[n.right] = p
      /\ n.after = next[n.right] /\ n.after \in Position
      /\ n.after[1] = p[1] /\ n.after # p /\ n.after # n.right
      /\ n.left = previous[p] /\ n.left \in Optional(Position)
      /\ n.left # no_position => /\ n.left \in Position /\ n.left[1] = p[1]
                                 /\ n.left # n.right /\ n.left # n.after
                                 /\ alive[n.left] /\ next[n.left] = p
  BY NeighbourFacts
<1>2. Position' = Position
  BY PositionsFixed
<1>3. no_position \notin Position /\ \A q \in Position : q[2] \in Nat
  BY PositionsTyped
<1>4. /\ token' = [token EXCEPT ![p] = merged]
      /\ alive' = [alive EXCEPT ![n.right] = FALSE]
      /\ next' = [next EXCEPT ![p] = n.after, ![n.right] = no_position]
      /\ previous' = [previous EXCEPT ![n.after] = p, ![n.right] = no_position]
  BY <1>1, <1>3 DEF Splice
<1>5. \A q \in Position :
         /\ token'[q] = IF q = p THEN merged ELSE token[q]
         /\ alive'[q] = IF q = n.right THEN FALSE ELSE alive[q]
         /\ next'[q] = IF q = p THEN n.after
                       ELSE IF q = n.right THEN no_position ELSE next[q]
         /\ previous'[q] = IF q = n.right THEN no_position
                           ELSE IF q = n.after THEN p ELSE previous[q]
  BY <1>1, <1>4 DEF ChainTyped
<1>6. ChainTyped'
  <2>1. token' \in [Position -> Nat] /\ alive' \in [Position -> BOOLEAN]
    BY <1>4 DEF ChainTyped
  <2>2. next' \in [Position -> Optional(Position)]
    BY <1>1, <1>4 DEF ChainTyped, Optional
  <2>3. previous' \in [Position -> Optional(Position)]
    BY <1>1, <1>4 DEF ChainTyped, Optional
  <2>4. QED
    BY <1>2, <2>1, <2>2, <2>3 DEF ChainTyped, Optional
<1> DEFINE right == n.right
           after == n.after
           left  == n.left
<1>a. /\ right = next[p] /\ right \in Position /\ alive[right]
      /\ right[1] = p[1] /\ right # p /\ previous[right] = p
      /\ after = next[right] /\ after \in Position
      /\ after[1] = p[1] /\ after # p /\ after # right
      /\ left = previous[p] /\ left \in Optional(Position)
      /\ left # no_position => /\ left \in Position /\ left[1] = p[1]
                               /\ left # right /\ left # after
                               /\ alive[left] /\ next[left] = p
  BY <1>1
<1>b. \A q \in Position :
         /\ token'[q] = IF q = p THEN merged ELSE token[q]
         /\ alive'[q] = IF q = right THEN FALSE ELSE alive[q]
         /\ next'[q] = IF q = p THEN after
                       ELSE IF q = right THEN no_position ELSE next[q]
         /\ previous'[q] = IF q = right THEN no_position
                           ELSE IF q = after THEN p ELSE previous[q]
  BY <1>5
<1> HIDE DEF right, after, left
<1>7. ChainOrdered'
  <2> SUFFICES ASSUME NEW q \in Position
               PROVE  /\ next'[q] # no_position => next'[q][1] = q[1] /\ next'[q][2] > q[2]
                      /\ previous'[q] # no_position =>
                            previous'[q][1] = q[1] /\ previous'[q][2] < q[2]
                      /\ alive'[q] => next'[q] # no_position
    BY <1>2 DEF ChainOrdered
  <2>1. /\ next[q] # no_position => next[q][1] = q[1] /\ next[q][2] > q[2]
        /\ previous[q] # no_position => previous[q][1] = q[1] /\ previous[q][2] < q[2]
        /\ alive[q] => next[q] # no_position
    BY DEF ChainOrdered
  <2>2. right[2] > p[2] /\ after[2] > right[2]
    BY <1>a, <1>3 DEF ChainOrdered
  <2>3. after[2] > p[2]
    BY <1>a, <1>3, <2>2
  <2>4. next'[q] # no_position => next'[q][1] = q[1] /\ next'[q][2] > q[2]
    <3>1. CASE q = p
      <4>1. next'[q] = after
        BY <1>b, <3>1
      <4>2. QED
        BY <1>a, <2>3, <3>1, <4>1
    <3>2. CASE q # p
      BY <1>b, <2>1, <3>2
    <3>3. QED
      BY <3>1, <3>2
  <2>5. previous'[q] # no_position => previous'[q][1] = q[1] /\ previous'[q][2] < q[2]
    <3>1. CASE q = after
      <4>1. previous'[q] = p
        BY <1>a, <1>b, <3>1
      <4>2. QED
        BY <1>a, <1>3, <2>3, <3>1, <4>1
    <3>2. CASE q # after
      BY <1>b, <2>1, <3>2
    <3>3. QED
      BY <3>1, <3>2
  <2>6. alive'[q] => next'[q] # no_position
    <3>1. after # no_position
      BY <1>a, <1>3
    <3>2. alive'[q] => alive[q] /\ q # right
      BY <1>b
    <3>3. q # right => next'[q] = IF q = p THEN after ELSE next[q]
      BY <1>b
    <3>4. QED
      BY <2>1, <3>1, <3>2, <3>3
  <2>7. QED
    BY <2>4, <2>5, <2>6
<1>8. ChainLinked'
  <2> SUFFICES ASSUME NEW q \in Position, alive'[q]
               PROVE  /\ alive'[next'[q]] => previous'[next'[q]] = q
                      /\ previous'[q] # no_position =>
                            alive'[previous'[q]] /\ next'[previous'[q]] = q
    BY <1>2 DEF ChainLinked
  <2>1. alive[q] /\ q # right
    BY <1>b
  <2>2. /\ alive[next[q]] => previous[next[q]] = q
        /\ previous[q] # no_position => alive[previous[q]] /\ next[previous[q]] = q
    BY <2>1 DEF ChainLinked
  <2>3. next[q] \in Position
    BY <2>1 DEF ChainOrdered, ChainTyped, Optional
  <2>4. previous[q] # no_position => previous[q] \in Position
    BY DEF ChainTyped, Optional
  <2>5. alive[after] => previous[after] = right
    BY <1>a DEF ChainLinked
  <2>6. CASE q = p
    <3>1. next'[q] = after /\ previous'[after] = p
      BY <1>a, <1>b, <2>6
    <3>2. previous'[q] = previous[q]
      BY <1>a, <1>b, <2>6
    <3>3. left # no_position => alive'[left] /\ next'[left] = p
      BY <1>a, <1>b
    <3>4. QED
      BY <1>a, <2>6, <3>1, <3>2, <3>3
  <2>7. CASE q # p /\ q # after
    <3>1. next'[q] = next[q] /\ previous'[q] = previous[q]
      BY <1>b, <2>1, <2>7
    <3>2. next[q] # right
      BY <1>a, <2>2, <2>7
    <3>3. next[q] # after \/ ~alive[after]
      BY <2>1, <2>2, <2>5
    <3>4. alive'[next[q]] => previous'[next[q]] = q
      BY <1>b, <2>2, <2>3, <3>2, <3>3
    <3>5. previous[q] # no_position => previous[q] # p /\ previous[q] # right
      BY <1>a, <2>1, <2>2, <2>7
    <3>6. previous[q] # no_position => alive'[previous[q]] /\ next'[previous[q]] = q
      BY <1>b, <2>2, <2>4, <3>5
    <3>7. QED
      BY <3>1, <3>4, <3>6
  <2>8. CASE q = after
    <3>1. next'[q] = next[q] /\ previous'[q] = p
      BY <1>a, <1>b, <2>1, <2>8
    <3>2. alive'[p] /\ next'[p] = q
      BY <1>a, <1>b, <2>8
    <3>3. next[q] # right
      BY <1>a, <2>1, <2>2, <2>8
    <3>4. next[q] # after
      BY <1>3, <2>1, <2>3, <2>8 DEF ChainOrdered
    <3>5. alive'[next[q]] => previous'[next[q]] = q
      BY <1>b, <2>2, <2>3, <3>3, <3>4
    <3>6. QED
      BY <1>a, <3>1, <3>2, <3>5
  <2>9. QED
    BY <2>6, <2>7, <2>8
<1>9. Spliced(p, n.right, n.after, merged)
  BY <1>5 DEF Spliced
<1>10. QED
  BY <1>6, <1>7, <1>8, <1>9

-----------------------------------------------------------------------------
(* What steps leave alone.                                                 *)

LEMMA SetsFixed ==
    ASSUME splits' = splits
    PROVE  /\ Position' = Position /\ Optional(Position)' = Optional(Position)
           /\ Occurrence' = Occurrence /\ Optional(Occurrence)' = Optional(Occurrence)
           /\ EventSet' = EventSet
BY PositionsFixed DEF Occurrence, EventSet, Optional

LEMMA InvFacts ==
    ASSUME IInv
    PROVE  /\ splits \in Corpora /\ ChainTyped /\ BookOK(book, Position)
           /\ DOMAIN vocabulary \in SUBSET Nat /\ Len(vocabulary) \in Nat
           /\ DOMAIN vocabulary = 1..Len(vocabulary)
BY DEF IInv, TypeOK, ChainTyped, GroupsSafe, BookOK

LEMMA ChainKept ==
    ASSUME ChainOrdered, ChainLinked, splits' = splits, UNCHANGED chain
    PROVE  ChainOrdered' /\ ChainLinked'
<1>1. Position' = Position
  BY PositionsFixed
<1>2. ChainOrdered'
  BY <1>1 DEF ChainOrdered, chain
<1>3. ChainLinked'
  BY <1>1 DEF ChainLinked, chain
<1>4. QED
  BY <1>2, <1>3

LEMMA TokensKept ==
    ASSUME TokensKnown, splits' = splits, UNCHANGED <<chain, vocabulary>>,
           Len(token_count') = Len(token_count)
    PROVE  TokensKnown'
<1>1. Position' = Position
  BY PositionsFixed
<1>2. QED
  BY <1>1 DEF TokensKnown, chain

\* Outside the parallel region and its replay the threads have nothing.
LEMMA QuietThreads ==
    ASSUME IInv, splits' = splits, UNCHANGED <<thread, events>>,
           phase \notin {"surgery", "replay", "aborted"}, phase' \notin {"surgery", "replay"}
    PROVE  /\ ThreadsOwn' /\ ThreadsIdle' /\ EventsSound' /\ HeldFresh'
           /\ PendingEvents = {} /\ PendingEvents' = {}
<1>1. \A t \in Threads : held[t] = no_position /\ events[t] = << >>
  BY DEF IInv, ThreadsIdle
<1>2. held' = held /\ events' = events /\ bucket' = bucket /\ word' = word
  BY DEF thread
<1>3. ThreadsOwn'
  BY <1>2 DEF IInv, ThreadsOwn
<1>4. ThreadsIdle' /\ HeldFresh' /\ EventsSound'
  BY <1>1, <1>2 DEF ThreadsIdle, HeldFresh, EventsSound
<1>5. PendingEvents = {} /\ PendingEvents' = {}
  BY <1>1, <1>2 DEF PendingEvents
<1>6. QED
  BY <1>3, <1>4, <1>5

\* Neither the chain nor the edges nor the events change.
LEMMA EndsKept ==
    ASSUME EndsFree, splits' = splits, UNCHANGED <<chain, events>>, phase # "aborted",
           book'.edge_group = book.edge_group
    PROVE  EndsFree'
<1>1. Position' = Position
  BY PositionsFixed
<1>2. PendingEvents' = PendingEvents
  BY DEF PendingEvents
<1>3. QED
  BY <1>1, <1>2 DEF EndsFree, chain

LEMMA ForgetBorn ==
    ASSUME NEW P, NEW b, BookOK(b, P), NEW c, c = [b EXCEPT !.born = << >>]
    PROVE  BookOK(c, P) /\ c.pairs = b.pairs /\ c.edge_group = b.edge_group
<1> DEFINE none == << >>
<1>0. none \in Seq(Nat) /\ c = [b EXCEPT !.born = none]
  OBVIOUS
<1> HIDE DEF none
<1> DEFINE S == Seq(Pair(P))
           R == [pairs : S,
                 edge_group : [P -> Nat \cup {no_position}],
                 pos_prev : [P -> P \cup {no_position}],
                 pos_next : [P -> P \cup {no_position}],
                 group_state : Seq(Nat),
                 group_count : Seq(Nat \cup {no_position}),
                 free_head : Nat \cup {no_position},
                 left_cache : SUBSET CacheEntry,
                 right_cache : SUBSET CacheEntry,
                 same_cache : SUBSET CacheEntry,
                 born : Seq(Nat),
                 aborted : BOOLEAN]
<1>a. b \in R
  BY DEF BookOK, BookTypeOK
<1> HIDE DEF S
<1>b. c \in R
  BY <1>0, <1>a
<1>1. BookTypeOK(c, P)
  BY <1>b DEF BookTypeOK, S
<1>2. /\ c.pairs = b.pairs /\ c.born = none
      /\ c.edge_group = b.edge_group /\ c.group_state = b.group_state
      /\ c.group_count = b.group_count /\ c.free_head = b.free_head
      /\ c.left_cache = b.left_cache /\ c.right_cache = b.right_cache
      /\ c.same_cache = b.same_cache
  BY <1>0, <1>a
<1>3. Used(c) = Used(b) /\ Unused(c) = Unused(b) /\ \A h : Members(c, h) = Members(b, h)
  BY <1>2 DEF Used, Unused, Members
<1>4. IdsInRange(c)
  BY <1>2 DEF BookOK, GroupsSound, IdsInRange, none
<1> HIDE DEF R
<1>5. UsedCounted(c)
  BY <1>2, <1>3 DEF BookOK, GroupsSound, UsedCounted
<1>c. FreeListSound(c)
  BY <1>2, <1>3 DEF BookOK, GroupsSound, FreeListSound
<1>d. CacheSound(c)
  BY <1>2, <1>3 DEF BookOK, GroupsSound, CacheSound
<1>6. QED
  BY <1>1, <1>2, <1>4, <1>5, <1>c, <1>d DEF BookOK, GroupsSound

LEMMA EmptyList ==
    ASSUME NEW P, NEW b, BookOK(b, P), NEW s \in DOMAIN b.pairs, NEW c,
           c = [b EXCEPT !.pairs[s] = WithoutList(@)]
    PROVE  BookOK(c, P) /\ SameButLists(b, c)
<1> DEFINE q  == WithoutList(b.pairs[s])
           pr == [b.pairs EXCEPT ![s] = q]
<1>1. b.pairs \in Seq(Pair(P)) /\ b.pairs[s] \in Pair(P)
  BY PairUpdate DEF BookOK, BookTypeOK
<1>2. q \in Pair(P) /\ SamePair(b.pairs[s], q)
  BY <1>1 DEF Pair, SamePair, WithoutList
<1>3. c = [b EXCEPT !.pairs = pr]
  OBVIOUS
<1> HIDE DEF q
<1>4. pr \in Seq(Pair(P)) /\ DOMAIN pr = DOMAIN b.pairs
  BY <1>1, <1>2, SeqUpdate
<1>5. \A k \in DOMAIN b.pairs : SamePair(b.pairs[k], pr[k])
  <2>1. \A k \in DOMAIN b.pairs : pr[k] = IF k = s THEN q ELSE b.pairs[k]
    BY <1>1
  <2>2. QED
    BY <1>2, <2>1 DEF SamePair
<1> HIDE DEF pr
<1>6. BookTypeOK(c, P)
  BY <1>3, <1>4 DEF BookOK, BookTypeOK
<1>7. SameButLists(b, c)
  BY <1>3, <1>4, <1>5 DEF BookOK, BookTypeOK, SameButLists
<1>8. QED
  BY <1>6, <1>7, SameButListsSound DEF BookOK

-----------------------------------------------------------------------------
LEMMA EntryTyped ==
    ASSUME BookOK(book, Position), NEW s \in DOMAIN book.pairs
    PROVE  Entry(s) \in [state : Nat, count : Nat]
<1>1. book.pairs[s] \in Pair(Position) /\ book.pairs \in Seq(Pair(Position))
  BY PairUpdate DEF BookOK, BookTypeOK
<1>2. book.pairs[s].count \in Nat
  BY <1>1 DEF Pair
<1>3. s \in Nat
  BY <1>1
<1>4. QED
  BY <1>2, <1>3 DEF Entry

-----------------------------------------------------------------------------
(* build_state.                                                            *)

LEMMA BuildPositionInv == IInv /\ BuildPosition => IInv'
<1> SUFFICES ASSUME IInv, BuildPosition PROVE IInv'
  OBVIOUS
<1>1. /\ splits' = splits /\ UNCHANGED <<chain, vocabulary, queue, best, positions, thread,
                                         events, total_frequency>>
      /\ phase = "build" /\ phase' = "build"
      /\ cursor[1] \in DOMAIN splits /\ alive[cursor] /\ cursor' = next[cursor]
  BY DEF BuildPosition
<1>2. /\ splits \in Corpora /\ ChainTyped /\ BookOK(book, Position)
      /\ DOMAIN vocabulary \in SUBSET Nat /\ Len(vocabulary) \in Nat
      /\ DOMAIN vocabulary = 1..Len(vocabulary)
  BY InvFacts
<1>3. /\ cursor \in Position
      /\ \A p \in Position :
            p[1] > cursor[1] \/ (p[1] = cursor[1] /\ p[2] >= cursor[2])
               => book.edge_group[p] = no_position
  BY <1>1 DEF IInv, BuildAhead
<1>4. /\ no_position \notin Position /\ Position \subseteq Nat \X Nat
      /\ \A p \in Position : p[1] \in Nat /\ p[2] \in Nat /\ Frequency(p) \in Nat
  BY <1>2, PositionsTyped
<1>5. next[cursor] \in Position /\ next[cursor][1] = cursor[1] /\ next[cursor][2] > cursor[2]
  BY <1>1, <1>2, <1>3 DEF IInv, ChainOrdered, ChainTyped, Optional
<1>6. book.edge_group[cursor] = no_position
  BY <1>3, <1>4
<1>7. /\ Position' = Position /\ Optional(Position)' = Optional(Position)
      /\ Occurrence' = Occurrence /\ Optional(Occurrence)' = Optional(Occurrence)
      /\ EventSet' = EventSet
  BY <1>1, SetsFixed
<1>8. /\ BookOK(book', Position) /\ KeysIn(book', DOMAIN vocabulary)
      /\ DOMAIN book.pairs \subseteq DOMAIN book'.pairs
      /\ \A p \in Position \ {cursor} : book'.edge_group[p] = book.edge_group[p]
      /\ is_live(next[cursor]) \/ book' = book
  <2>1. CASE is_live(next[cursor])
    <3> DEFINE key == <<token[cursor], token[next[cursor]]>>
               w   == cursor[1]
               f   == Frequency(cursor)
               V   == DOMAIN vocabulary
               e   == build_edge(book, cursor, key, w, f)
    <3>1. key \in V \X V
      BY <1>1, <1>3, <1>5, <2>1 DEF IInv, TokensKnown, is_live
    <3>2. w \in Nat /\ f \in Nat /\ KeysIn(book, V) /\ V \in SUBSET Nat /\ IsFiniteSet(Position)
      BY <1>2, <1>3, <1>4, PositionsFinite DEF IInv, PairsKnown
    <3>3. book' = e
      BY <2>1 DEF BuildPosition
    <3> HIDE DEF key, w, f, V
    <3>4. /\ BookOK(e, Position) /\ KeysIn(e, V)
          /\ DOMAIN book.pairs \subseteq DOMAIN e.pairs
          /\ \A p \in Position \ {cursor} : e.edge_group[p] = book.edge_group[p]
      BY <1>2, <1>3, <1>6, <3>1, <3>2, BuildEdge
    <3> HIDE DEF e
    <3>5. QED
      BY <2>1, <3>3, <3>4 DEF V
  <2>2. CASE ~is_live(next[cursor])
    <3>1. book' = book
      BY <2>2 DEF BuildPosition
    <3>2. QED
      BY <1>2, <3>1 DEF IInv, PairsKnown
  <2>3. QED
    BY <2>1, <2>2
<1>9. token_count' \in Seq(Int) /\ Len(token_count') = Len(token_count)
  <2> DEFINE v == token[cursor]
             f == Frequency(cursor)
  <2>1. v \in DOMAIN token_count /\ token_count \in Seq(Int) /\ f \in Nat
    BY <1>1, <1>3, <1>4 DEF IInv, TokensKnown, TypeOK
  <2>2. token_count' = [token_count EXCEPT ![v] = @ + f]
    BY DEF BuildPosition
  <2> HIDE DEF v, f
  <2>3. token_count[v] + f \in Int
    BY <2>1
  <2>4. QED
    BY <2>1, <2>2, <2>3
<1>10. TypeOK'
  <2>1. cursor' \in Optional(Nat \X Nat)
    BY <1>1, <1>4, <1>5 DEF Optional
  <2>2. BookTypeOK(book', Position)
    BY <1>8 DEF BookOK
  <2>3. QED
    BY <1>1, <1>7, <1>9, <2>1, <2>2 DEF IInv, TypeOK, chain, thread
<1>11. GroupsSafe'
  BY <1>8 DEF GroupsSafe, BookOK
<1>12. ChainOrdered' /\ ChainLinked'
  BY <1>1, ChainKept DEF IInv
<1>13. TokensKnown'
  BY <1>1, <1>9, TokensKept DEF IInv
<1>14. PairsKnown'
  BY <1>1, <1>8 DEF IInv, PairsKnown, InRound
<1>15. BuildAhead'
  <2>1. cursor' \in Position /\ cursor'[1] = cursor[1] /\ cursor'[2] > cursor[2]
    BY <1>1, <1>5
  <2>2. ASSUME NEW p \in Position,
               p[1] > cursor'[1] \/ (p[1] = cursor'[1] /\ p[2] >= cursor'[2])
        PROVE  book'.edge_group[p] = no_position
    <3>1. p # cursor /\ (p[1] > cursor[1] \/ (p[1] = cursor[1] /\ p[2] >= cursor[2]))
      BY <1>3, <1>4, <2>1, <2>2
    <3>2. QED
      BY <1>3, <1>8, <3>1
  <2>3. QED
    BY <1>4, <1>7, <2>1, <2>2 DEF BuildAhead
<1>16. /\ ThreadsOwn' /\ ThreadsIdle' /\ EventsSound' /\ HeldFresh'
       /\ PendingEvents = {} /\ PendingEvents' = {}
  BY <1>1, QuietThreads
<1>17. EndsFree'
  <2> SUFFICES ASSUME NEW p \in Position, alive[p], ~alive[next[p]],
                      book'.edge_group[p] # no_position
               PROVE  FALSE
    BY <1>1, <1>7 DEF EndsFree, chain
  <2>1. CASE p = cursor
    BY <1>6, <1>8, <2>1 DEF is_live
  <2>2. CASE p # cursor
    BY <1>1, <1>8, <1>16, <2>2 DEF IInv, EndsFree
  <2>3. QED
    BY <2>1, <2>2
<1>18. WalkCursor'
  BY <1>1 DEF WalkCursor
<1>19. QED
  BY <1>10, <1>11, <1>12, <1>13, <1>14, <1>15, <1>16, <1>17, <1>18 DEF IInv

LEMMA BuildNextWordInv == IInv /\ BuildNextWord => IInv'
<1> SUFFICES ASSUME IInv, BuildNextWord PROVE IInv'
  OBVIOUS
<1>1. /\ splits' = splits
      /\ UNCHANGED <<chain, token_count, vocabulary, book, queue, best, positions, thread,
                     events, total_frequency>>
      /\ phase = "build" /\ phase' = "build"
      /\ cursor[1] \in DOMAIN splits /\ cursor' = <<cursor[1] + 1, 1>>
  BY DEF BuildNextWord
<1>2. splits \in Corpora
  BY InvFacts
<1>3. /\ DOMAIN splits \subseteq Nat \ {0}
      /\ \A w \in DOMAIN splits : <<w, 1>> \in Position
      /\ \A p \in Position : p[1] \in Nat /\ p[2] \in Nat
  BY <1>2, PositionsTyped
<1>4. /\ Position' = Position /\ Optional(Position)' = Optional(Position)
      /\ Occurrence' = Occurrence /\ Optional(Occurrence)' = Optional(Occurrence)
      /\ EventSet' = EventSet
  BY <1>1, SetsFixed
<1>5. TypeOK'
  <2>1. cursor' \in Optional(Nat \X Nat)
    BY <1>1, <1>3 DEF Optional
  <2>2. BookTypeOK(book', Position)
    BY <1>1 DEF IInv, TypeOK
  <2>3. QED
    BY <1>1, <1>4, <2>1, <2>2 DEF IInv, TypeOK, chain, thread
<1>6. GroupsSafe'
  BY <1>1 DEF IInv, GroupsSafe
<1>7. ChainOrdered' /\ ChainLinked'
  BY <1>1, ChainKept DEF IInv
<1>8. TokensKnown'
  BY <1>1, TokensKept DEF IInv
<1>9. PairsKnown'
  BY <1>1 DEF IInv, PairsKnown, InRound
<1>10. BuildAhead'
  <2>1. \A p \in Position :
           p[1] > cursor[1] \/ (p[1] = cursor[1] /\ p[2] >= cursor[2])
               => book.edge_group[p] = no_position
    BY <1>1 DEF IInv, BuildAhead
  <2>2. cursor' \in Nat \X Nat /\ cursor'[1] = cursor[1] + 1 /\ cursor[1] \in Nat
    BY <1>1, <1>3
  <2>3. cursor'[1] \in DOMAIN splits => cursor' \in Position
    BY <1>1, <1>3
  <2>4. ASSUME NEW p \in Position,
               p[1] > cursor'[1] \/ (p[1] = cursor'[1] /\ p[2] >= cursor'[2])
        PROVE  book.edge_group[p] = no_position
    <3>1. p[1] > cursor[1]
      BY <1>3, <2>2, <2>4
    <3>2. QED
      BY <2>1, <3>1
  <2>5. QED
    BY <1>1, <1>4, <2>2, <2>3, <2>4 DEF BuildAhead
<1>11. ThreadsOwn' /\ ThreadsIdle' /\ EventsSound' /\ HeldFresh'
  BY <1>1, QuietThreads
<1>12. EndsFree'
  BY <1>1, EndsKept DEF IInv
<1>13. WalkCursor'
  BY <1>1 DEF WalkCursor
<1>14. QED
  BY <1>5, <1>6, <1>7, <1>8, <1>9, <1>10, <1>11, <1>12, <1>13 DEF IInv

LEMMA StartMergingInv == IInv /\ StartMerging => IInv'
<1> SUFFICES ASSUME IInv, StartMerging PROVE IInv'
  OBVIOUS
<1>1. /\ splits' = splits
      /\ UNCHANGED <<chain, token_count, vocabulary, cursor, best, positions, thread,
                     events, total_frequency>>
      /\ phase = "build" /\ phase' = "pop"
      /\ book' = [book EXCEPT !.born = << >>]
      /\ queue' = {Entry(s) : s \in {k \in DOMAIN book.pairs : book.pairs[k].word_count >= 2}}
  BY DEF StartMerging
<1>2. BookOK(book, Position)
  BY InvFacts
<1>3. /\ Position' = Position /\ Optional(Position)' = Optional(Position)
      /\ Occurrence' = Occurrence /\ Optional(Occurrence)' = Optional(Occurrence)
      /\ EventSet' = EventSet
  BY <1>1, SetsFixed
<1>4. BookOK(book', Position) /\ book'.pairs = book.pairs /\ book'.edge_group = book.edge_group
  BY <1>1, <1>2, ForgetBorn
<1>5. \A s \in DOMAIN book.pairs : Entry(s) \in [state : Nat, count : Nat]
  BY <1>2, EntryTyped
<1>6. TypeOK'
  <2>1. queue' \subseteq [state : Nat, count : Nat]
    BY <1>1, <1>5
  <2>2. BookTypeOK(book', Position)
    BY <1>4 DEF BookOK
  <2>3. QED
    BY <1>1, <1>3, <2>1, <2>2 DEF IInv, TypeOK, chain, thread
<1>7. GroupsSafe'
  BY <1>4 DEF GroupsSafe, BookOK
<1>8. ChainOrdered' /\ ChainLinked'
  BY <1>1, ChainKept DEF IInv
<1>9. TokensKnown'
  BY <1>1, TokensKept DEF IInv
<1>10. PairsKnown'
  <2>1. \A e \in queue' : e.state \in DOMAIN book.pairs
    BY <1>1 DEF Entry
  <2>2. QED
    BY <1>1, <1>4, <2>1 DEF IInv, PairsKnown, KeysIn, InRound
<1>11. ThreadsOwn' /\ ThreadsIdle' /\ EventsSound' /\ HeldFresh'
  BY <1>1, QuietThreads
<1>12. EndsFree'
  BY <1>1, <1>4, EndsKept DEF IInv
<1>13. BuildAhead' /\ WalkCursor'
  BY <1>1 DEF BuildAhead, WalkCursor
<1>14. QED
  BY <1>6, <1>7, <1>8, <1>9, <1>10, <1>11, <1>12, <1>13 DEF IInv

-----------------------------------------------------------------------------
(* pop_best_state and the walk over the chosen list.                       *)

\* Steps that change nothing but the queue, and perhaps end the loop.
LEMMA QueueOnly ==
    ASSUME IInv, splits' = splits,
           UNCHANGED <<chain, token_count, vocabulary, book, cursor, best, positions, thread,
                       events, total_frequency>>,
           phase = "pop", phase' \in {"pop", "done"},
           \A e \in queue' : e \in queue \/ \E s \in DOMAIN book.pairs : e = Entry(s)
    PROVE  IInv'
<1>1. BookOK(book, Position)
  BY InvFacts
<1>2. /\ Position' = Position /\ Optional(Position)' = Optional(Position)
      /\ Occurrence' = Occurrence /\ Optional(Occurrence)' = Optional(Occurrence)
      /\ EventSet' = EventSet
  BY SetsFixed
<1>3. \A e \in queue' : e \in [state : Nat, count : Nat] /\ e.state \in DOMAIN book.pairs
  <2> TAKE e \in queue'
  <2>1. CASE e \in queue
    BY <2>1 DEF IInv, TypeOK, PairsKnown
  <2>2. CASE e \notin queue
    <3>1. PICK s \in DOMAIN book.pairs : e = Entry(s)
      BY <2>2
    <3>2. e.state = s
      BY <3>1 DEF Entry
    <3>3. QED
      BY <1>1, <3>1, <3>2, EntryTyped
  <2>3. QED
    BY <2>1, <2>2
<1>4. TypeOK'
  <2>1. queue' \subseteq [state : Nat, count : Nat]
    BY <1>3
  <2>2. BookTypeOK(book', Position)
    BY <1>1 DEF BookOK
  <2>3. QED
    BY <1>2, <2>1, <2>2 DEF IInv, TypeOK, chain, thread
<1>5. GroupsSafe'
  BY DEF IInv, GroupsSafe
<1>6. ChainOrdered' /\ ChainLinked' /\ TokensKnown'
  BY ChainKept, TokensKept DEF IInv
<1>7. PairsKnown'
  BY <1>3 DEF IInv, PairsKnown, InRound
<1>8. ThreadsOwn' /\ ThreadsIdle' /\ EventsSound' /\ HeldFresh'
  BY QuietThreads
<1>9. EndsFree'
  BY EndsKept DEF IInv
<1>10. BuildAhead' /\ WalkCursor'
  BY DEF BuildAhead, WalkCursor
<1>11. QED
  BY <1>4, <1>5, <1>6, <1>7, <1>8, <1>9, <1>10 DEF IInv

LEMMA PopIneligibleInv == IInv /\ PopIneligible => IInv'
<1> SUFFICES ASSUME IInv, PopIneligible PROVE IInv'
  OBVIOUS
<1>1. \A e \in queue' : e \in queue
  BY DEF PopIneligible
<1>2. QED
  BY <1>1, QueueOnly DEF PopIneligible

LEMMA PopOutdatedInv == IInv /\ PopOutdated => IInv'
<1> SUFFICES ASSUME IInv, PopOutdated PROVE IInv'
  OBVIOUS
<1>1. PICK e \in Top : queue' = (queue \ {e}) \cup {Entry(e.state)}
  BY DEF PopOutdated
<1>2. e.state \in DOMAIN book.pairs
  BY DEF Top, IInv, PairsKnown
<1>3. \A q \in queue' : q \in queue \/ \E s \in DOMAIN book.pairs : q = Entry(s)
  BY <1>1, <1>2
<1>4. QED
  BY <1>3, QueueOnly DEF PopOutdated

LEMMA FinishInv == IInv /\ Finish => IInv'
<1> SUFFICES ASSUME IInv, Finish PROVE IInv'
  OBVIOUS
<1>1. QED
  BY QueueOnly DEF Finish

LEMMA PopBestInv == IInv /\ PopBest => IInv'
<1> SUFFICES ASSUME IInv, PopBest PROVE IInv'
  OBVIOUS
<1>1. /\ splits' = splits
      /\ UNCHANGED <<chain, token_count, vocabulary, positions, thread, events, total_frequency>>
      /\ phase = "pop" /\ phase' = "walk"
  BY DEF PopBest
<1>2. PICK e \in Top : /\ queue' = queue \ {e}
                       /\ best' = e.state
                       /\ cursor' = book.pairs[e.state].positions_head
                       /\ book' = [book EXCEPT !.pairs[e.state] = WithoutList(@)]
  BY DEF PopBest
<1>3. splits \in Corpora /\ BookOK(book, Position)
  BY InvFacts
<1>4. /\ Position' = Position /\ Optional(Position)' = Optional(Position)
      /\ Occurrence' = Occurrence /\ Optional(Occurrence)' = Optional(Occurrence)
      /\ EventSet' = EventSet
  BY <1>1, SetsFixed
<1>5. e.state \in DOMAIN book.pairs
  BY DEF Top, IInv, PairsKnown
<1>6. BookOK(book', Position) /\ SameButLists(book, book')
  <2> DEFINE s == e.state
  <2>1. s \in DOMAIN book.pairs /\ book' = [book EXCEPT !.pairs[s] = WithoutList(@)]
    BY <1>2, <1>5
  <2> HIDE DEF s
  <2>2. QED
    BY <1>3, <2>1, EmptyList
<1>7. cursor' \in Optional(Position)
  <2>1. book.pairs[e.state] \in Pair(Position)
    BY <1>3, <1>5, PairUpdate DEF BookOK, BookTypeOK
  <2>2. QED
    BY <1>2, <2>1 DEF Pair, Optional
<1>8. TypeOK'
  <2>1. cursor' \in Optional(Nat \X Nat)
    BY <1>3, <1>7, PositionsTyped DEF Optional
  <2>2. queue' \subseteq [state : Nat, count : Nat]
    BY <1>2 DEF IInv, TypeOK
  <2>3. BookTypeOK(book', Position)
    BY <1>6 DEF BookOK
  <2>4. best' \in Optional(Nat)
    <3>1. book.pairs \in Seq(Pair(Position))
      BY <1>3 DEF BookOK, BookTypeOK
    <3>2. QED
      BY <1>2, <1>5, <3>1 DEF Optional
  <2>5. QED
    BY <1>1, <1>4, <2>1, <2>2, <2>3, <2>4 DEF IInv, TypeOK, chain, thread
<1>9. GroupsSafe'
  BY <1>6 DEF GroupsSafe, BookOK
<1>10. ChainOrdered' /\ ChainLinked' /\ TokensKnown'
  BY <1>1, ChainKept, TokensKept DEF IInv
<1>11. PairsKnown'
  <2>1. DOMAIN book'.pairs = DOMAIN book.pairs
    BY <1>6 DEF SameButLists
  <2>2. \A s \in DOMAIN book.pairs : book'.pairs[s].key = book.pairs[s].key
    BY <1>6 DEF SameButLists, SamePair
  <2>3. QED
    BY <1>1, <1>2, <1>5, <2>1, <2>2 DEF IInv, PairsKnown, KeysIn, InRound
<1>12. ThreadsOwn' /\ ThreadsIdle' /\ EventsSound' /\ HeldFresh'
  BY <1>1, QuietThreads
<1>13. EndsFree'
  BY <1>1, <1>6, EndsKept DEF IInv, SameButLists
<1>14. BuildAhead' /\ WalkCursor'
  BY <1>1, <1>4, <1>7 DEF BuildAhead, WalkCursor
<1>15. QED
  BY <1>8, <1>9, <1>10, <1>11, <1>12, <1>13, <1>14 DEF IInv

LEMMA WalkListInv == IInv /\ WalkList => IInv'
<1> SUFFICES ASSUME IInv, WalkList PROVE IInv'
  OBVIOUS
<1>1. /\ splits' = splits
      /\ UNCHANGED <<chain, token_count, vocabulary, book, queue, best, thread, events,
                     total_frequency>>
      /\ phase = "walk" /\ phase' = "walk" /\ cursor # no_position
      /\ positions' = Append(positions, cursor) /\ cursor' = book.pos_next[cursor]
  BY DEF WalkList
<1>2. splits \in Corpora /\ BookOK(book, Position)
  BY InvFacts
<1>3. /\ Position' = Position /\ Optional(Position)' = Optional(Position)
      /\ Occurrence' = Occurrence /\ Optional(Occurrence)' = Optional(Occurrence)
      /\ EventSet' = EventSet
  BY <1>1, SetsFixed
<1>4. cursor \in Position
  BY <1>1 DEF IInv, WalkCursor, Optional
<1>5. cursor' \in Optional(Position)
  BY <1>1, <1>2, <1>4 DEF BookOK, BookTypeOK, Optional
<1>6. TypeOK'
  <2>1. cursor' \in Optional(Nat \X Nat)
    BY <1>2, <1>5, PositionsTyped DEF Optional
  <2>2. positions' \in Seq(Position)
    BY <1>1, <1>4 DEF IInv, TypeOK
  <2>3. BookTypeOK(book', Position)
    BY <1>1, <1>2 DEF BookOK
  <2>4. QED
    BY <1>1, <1>3, <2>1, <2>2, <2>3 DEF IInv, TypeOK, chain, thread
<1>7. GroupsSafe'
  BY <1>1 DEF IInv, GroupsSafe
<1>8. ChainOrdered' /\ ChainLinked' /\ TokensKnown'
  BY <1>1, ChainKept, TokensKept DEF IInv
<1>9. PairsKnown'
  BY <1>1 DEF IInv, PairsKnown, InRound
<1>10. ThreadsOwn' /\ ThreadsIdle' /\ EventsSound' /\ HeldFresh'
  BY <1>1, QuietThreads
<1>11. EndsFree'
  BY <1>1, EndsKept DEF IInv
<1>12. BuildAhead' /\ WalkCursor'
  BY <1>1, <1>3, <1>5 DEF BuildAhead, WalkCursor
<1>13. QED
  BY <1>6, <1>7, <1>8, <1>9, <1>10, <1>11, <1>12 DEF IInv

LEMMA StartRoundInv == IInv /\ StartRound => IInv'
<1> SUFFICES ASSUME IInv, StartRound PROVE IInv'
  OBVIOUS
<1>1. /\ splits' = splits
      /\ UNCHANGED <<chain, book, queue, cursor, best, positions, word, index, held, events,
                     total_frequency>>
      /\ phase = "walk" /\ phase' \in {"sequential", "surgery"}
      /\ vocabulary' = Append(vocabulary, vocabulary[left_token] \o vocabulary[right_token])
      /\ token_count' = Append(token_count, 0)
      /\ \/ bucket' = bucket
         \/ bucket' = [t \in Threads |-> IF t \in Team THEN OwnedWords(t) ELSE {}]
  BY DEF StartRound
<1>2. /\ splits \in Corpora /\ BookOK(book, Position)
      /\ DOMAIN vocabulary = 1..Len(vocabulary) /\ Len(vocabulary) \in Nat
  BY InvFacts
<1>3. /\ Position' = Position /\ Optional(Position)' = Optional(Position)
      /\ Occurrence' = Occurrence /\ Optional(Occurrence)' = Optional(Occurrence)
      /\ EventSet' = EventSet
  BY <1>1, SetsFixed
<1>4. best \in DOMAIN book.pairs /\ KeysIn(book, DOMAIN vocabulary)
  BY <1>1 DEF IInv, PairsKnown
<1>5. left_token \in 1..Len(vocabulary) /\ right_token \in 1..Len(vocabulary)
  BY <1>2, <1>4 DEF KeysIn, left_token, right_token
<1>6. /\ vocabulary' \in Seq(Seq(Nat)) /\ Len(vocabulary') = Len(vocabulary) + 1
      /\ token_count' \in Seq(Int) /\ Len(token_count') = Len(token_count) + 1
  <2> DEFINE S == Seq(Nat)
             l == vocabulary[left_token]
             r == vocabulary[right_token]
  <2>1. vocabulary \in Seq(S) /\ token_count \in Seq(Int)
    BY DEF IInv, TypeOK
  <2> HIDE DEF S
  <2>2. l \in S /\ r \in S
    BY <1>5, <2>1
  <2>3. l \o r \in S
    <3> HIDE DEF l, r
    <3>1. QED
      BY <2>2 DEF S
  <2> HIDE DEF l, r
  <2>4. vocabulary' = Append(vocabulary, l \o r)
    BY <1>1 DEF l, r
  <2> DEFINE m == l \o r
  <2>5. m \in S /\ vocabulary' = Append(vocabulary, m)
    BY <2>3, <2>4
  <2> HIDE DEF m
  <2>6. vocabulary' \in Seq(S) /\ Len(vocabulary') = Len(vocabulary) + 1
    BY <2>1, <2>5
  <2>7. QED
    BY <1>1, <2>1, <2>6 DEF S
<1>7. DOMAIN vocabulary' = 1..(Len(vocabulary) + 1)
  BY <1>6
<1>8. /\ \A t \in Threads : held[t] = no_position /\ events[t] = << >>
      /\ PendingEvents = {} /\ PendingEvents' = {}
  <2>1. \A t \in Threads : held[t] = no_position /\ events[t] = << >>
    BY <1>1 DEF IInv, ThreadsIdle
  <2>2. QED
    BY <1>1, <2>1 DEF PendingEvents
<1>9. /\ bucket' \in [Threads -> SUBSET DOMAIN splits]
      /\ \A t \in Threads : \A w \in bucket'[t] : Owner(w) = t
  <2>1. CASE bucket' = bucket
    BY <2>1 DEF IInv, TypeOK, ThreadsOwn
  <2>2. CASE bucket' = [t \in Threads |-> IF t \in Team THEN OwnedWords(t) ELSE {}]
    <3>1. \A t \in Threads : /\ bucket'[t] \subseteq OwnedWords(t)
      BY <2>2
    <3>2. \A t \in Threads : \A w \in OwnedWords(t) : w \in DOMAIN splits /\ Owner(w) = t
      BY DEF OwnedWords
    <3>3. QED
      BY <2>2, <3>1, <3>2
  <2>3. QED
    BY <1>1, <2>1, <2>2
<1>10. TypeOK'
  <2>1. BookTypeOK(book', Position)
    BY <1>1, <1>2 DEF BookOK
  <2>2. phase' \in {"build", "pop", "walk", "sequential", "surgery", "replay", "done", "aborted"}
    BY <1>1
  <2>3. QED
    BY <1>1, <1>3, <1>6, <1>9, <2>1, <2>2 DEF IInv, TypeOK, chain
<1>11. GroupsSafe'
  BY <1>1 DEF IInv, GroupsSafe
<1>12. ChainOrdered' /\ ChainLinked'
  BY <1>1, ChainKept DEF IInv
<1>13. TokensKnown'
  <2>1. Len(token_count') = Len(vocabulary')
    BY <1>6 DEF IInv, TokensKnown
  <2>2. \A p \in Position : alive[p] => token[p] \in DOMAIN vocabulary'
    BY <1>2, <1>7 DEF IInv, TokensKnown
  <2>3. QED
    BY <1>1, <1>3, <2>1, <2>2 DEF TokensKnown, chain
<1>14. PairsKnown'
  <2>1. DOMAIN vocabulary \subseteq DOMAIN vocabulary'
    BY <1>2, <1>7
  <2>2. KeysIn(book', DOMAIN vocabulary')
    BY <1>1, <1>4, <2>1 DEF KeysIn
  <2>3. /\ left_token' = left_token /\ right_token' = right_token
    BY <1>1 DEF left_token, right_token
  <2>4. left_token' \in 1..(Len(vocabulary') - 1) /\ right_token' \in 1..(Len(vocabulary') - 1)
    BY <1>2, <1>5, <1>6, <2>3
  <2>5. QED
    BY <1>1, <1>4, <2>2, <2>4 DEF IInv, PairsKnown
<1>15. ThreadsOwn' /\ ThreadsIdle' /\ EventsSound' /\ HeldFresh'
  <2>1. ThreadsOwn'
    BY <1>1, <1>9 DEF IInv, ThreadsOwn, Owner
  <2>2. ThreadsIdle'
    BY <1>1, <1>8 DEF ThreadsIdle
  <2>3. EventsSound' /\ HeldFresh'
    BY <1>1, <1>8 DEF EventsSound, HeldFresh
  <2>4. QED
    BY <2>1, <2>2, <2>3
<1>16. EndsFree'
  BY <1>1, EndsKept DEF IInv
<1>17. BuildAhead' /\ WalkCursor'
  BY <1>1 DEF BuildAhead, WalkCursor
<1>18. QED
  BY <1>10, <1>11, <1>12, <1>13, <1>14, <1>15, <1>16, <1>17 DEF IInv

-----------------------------------------------------------------------------
(* A merge: its event, its counts and its pairs.                           *)

LEMMA MergeEventFacts ==
    ASSUME IInv, NEW p \in Position, alive[p], alive[next[p]],
           NEW n, n = Neighbours(p), NEW ev, ev = MergeEvent(n)
    PROVE  /\ ev \in EventSet
           /\ ev.position = p /\ ev.right = n.right /\ ev.left = n.left
           /\ ev.after = IF alive[n.after] THEN n.after ELSE no_position
           /\ ev.left # no_position => ev.left_token \in DOMAIN vocabulary
           /\ ev.after # no_position => ev.after_token \in DOMAIN vocabulary
<1>1. splits \in Corpora /\ ChainTyped /\ ChainOrdered /\ ChainLinked
  BY InvFacts DEF IInv
<1>2. no_position \notin Position
  BY <1>1, PositionsTyped
<1> DEFINE right == n.right
           left  == n.left
           after == n.after
<1>3. /\ n.position = p /\ right \in Position
      /\ after \in Position
      /\ left \in Optional(Position)
      /\ left # no_position => left \in Position /\ alive[left]
  BY <1>1, NeighbourFacts
<1>4. /\ ev.position = n.position /\ ev.right = right
      /\ ev.left = IF is_live(left) THEN left ELSE no_position
      /\ ev.after = IF is_live(after) THEN after ELSE no_position
      /\ ev.left_token = IF is_live(left) THEN token[left] ELSE no_position
      /\ ev.after_token = IF is_live(after) THEN token[after] ELSE no_position
  BY DEF MergeEvent
<1>5. ev = [position |-> ev.position, right |-> ev.right, left |-> ev.left, after |-> ev.after,
            left_token |-> ev.left_token, after_token |-> ev.after_token]
  BY DEF MergeEvent
<1> HIDE DEF right, left, after
<1>6. /\ is_live(left) <=> left # no_position
      /\ is_live(after) <=> alive[after]
  BY <1>2, <1>3 DEF is_live
<1>7. /\ ev.left = left
      /\ ev.left # no_position => ev.left_token = token[left] /\ alive[left] /\ left \in Position
      /\ ev.after = IF alive[after] THEN after ELSE no_position
      /\ ev.after # no_position => ev.after_token = token[after] /\ alive[after]
  BY <1>2, <1>3, <1>4, <1>6
<1>8. /\ ev.left # no_position => ev.left_token \in DOMAIN vocabulary
      /\ ev.after # no_position => ev.after_token \in DOMAIN vocabulary
  BY <1>3, <1>7 DEF IInv, TokensKnown
<1>9. /\ ev.left_token \in Optional(Nat) /\ ev.after_token \in Optional(Nat)
      /\ ev.after \in Optional(Position) /\ ev.left \in Optional(Position)
  <2>1. token \in [Position -> Nat]
    BY <1>1 DEF ChainTyped
  <2>2. QED
    BY <1>3, <1>4, <1>6, <1>7, <2>1 DEF Optional
<1>10. ev \in EventSet
  BY <1>3, <1>4, <1>5, <1>9 DEF EventSet
<1>11. QED
  BY <1>3, <1>4, <1>7, <1>8, <1>10 DEF right, left, after

LEMMA CountMergedTyped ==
    ASSUME IInv, InRound, NEW f \in Nat
    PROVE  CountMerged(f) \in Seq(Int) /\ Len(CountMerged(f)) = Len(token_count)
<1> DEFINE l == left_token
           r == right_token
           m == merged_token
           less == [token_count EXCEPT ![l] = @ - f]
           lesser == [less EXCEPT ![r] = @ - f]
<1>1. /\ token_count \in Seq(Int) /\ Len(token_count) = Len(vocabulary)
      /\ l \in 1..(Len(vocabulary) - 1) /\ r \in 1..(Len(vocabulary) - 1)
      /\ Len(vocabulary) \in Nat
  BY InvFacts DEF IInv, TypeOK, TokensKnown, PairsKnown
<1>2. l \in DOMAIN token_count /\ r \in DOMAIN token_count /\ m \in DOMAIN token_count
  BY <1>1 DEF merged_token
<1>3. CountMerged(f) = [less EXCEPT ![r] = @ - f, ![m] = @ + f]
  BY DEF CountMerged
<1> HIDE DEF l, r, m
<1>4. less \in Seq(Int) /\ Len(less) = Len(token_count) /\ DOMAIN less = DOMAIN token_count
  <2>1. token_count[l] - f \in Int
    BY <1>1, <1>2
  <2>2. QED
    BY <1>1, <1>2, <2>1
<1> HIDE DEF less
<1>5. lesser \in Seq(Int) /\ Len(lesser) = Len(less) /\ DOMAIN lesser = DOMAIN less
  <2>1. less[r] - f \in Int
    BY <1>2, <1>4
  <2>2. QED
    BY <1>2, <1>4, <2>1
<1>6. CountMerged(f) = [lesser EXCEPT ![m] = @ + f]
  <2>1. r # m
    BY <1>1 DEF m, merged_token
  <2>2. lesser[m] = less[m]
    BY <1>2, <1>4, <2>1
  <2>3. QED
    BY <1>3, <2>2
<1> HIDE DEF lesser
<1>7. lesser[m] + f \in Int
  BY <1>2, <1>4, <1>5
<1>8. QED
  BY <1>2, <1>4, <1>5, <1>6, <1>7

LEMMA RoundKept ==
    ASSUME IInv, InRound, Kept(book, book', DOMAIN vocabulary),
           UNCHANGED <<vocabulary, queue, best>>,
           phase' = phase \/ phase' = "aborted"
    PROVE  /\ PairsKnown' /\ GroupsSafe' /\ BookTypeOK(book', Position)
           /\ left_token' = left_token /\ right_token' = right_token
           /\ merged_token' = merged_token
<1>1. best \in DOMAIN book.pairs
  BY DEF IInv, PairsKnown
<1>2. left_token' = left_token /\ right_token' = right_token /\ merged_token' = merged_token
  BY <1>1 DEF Kept, left_token, right_token, merged_token
<1>3. PairsKnown'
  BY <1>1, <1>2 DEF IInv, PairsKnown, Kept, InRound
<1>4. QED
  BY <1>2, <1>3 DEF Kept, BookOK, GroupsSafe

-----------------------------------------------------------------------------
(* process_positions_sequential.                                           *)

LEMMA SkipPositionInv == IInv /\ SkipPosition => IInv'
<1> SUFFICES ASSUME IInv, SkipPosition PROVE IInv'
  OBVIOUS
<1>1. /\ splits' = splits
      /\ UNCHANGED <<chain, token_count, vocabulary, book, queue, cursor, best, thread, events,
                     total_frequency>>
      /\ phase = "sequential" /\ phase' = "sequential"
      /\ positions # << >> /\ positions' = Tail(positions)
  BY DEF SkipPosition
<1>2. /\ Position' = Position /\ Optional(Position)' = Optional(Position)
      /\ Occurrence' = Occurrence /\ Optional(Occurrence)' = Optional(Occurrence)
      /\ EventSet' = EventSet
  BY <1>1, SetsFixed
<1>3. TypeOK'
  <2>1. positions' \in Seq(Position)
    BY <1>1 DEF IInv, TypeOK
  <2>2. BookTypeOK(book', Position)
    BY <1>1 DEF IInv, TypeOK
  <2>3. QED
    BY <1>1, <1>2, <2>1, <2>2 DEF IInv, TypeOK, chain, thread
<1>4. GroupsSafe'
  BY <1>1 DEF IInv, GroupsSafe
<1>5. ChainOrdered' /\ ChainLinked' /\ TokensKnown'
  BY <1>1, ChainKept, TokensKept DEF IInv
<1>6. PairsKnown'
  BY <1>1 DEF IInv, PairsKnown, InRound, left_token, right_token
<1>7. ThreadsOwn' /\ ThreadsIdle' /\ EventsSound' /\ HeldFresh'
  BY <1>1, QuietThreads
<1>8. EndsFree'
  BY <1>1, EndsKept DEF IInv
<1>9. BuildAhead' /\ WalkCursor'
  BY <1>1 DEF BuildAhead, WalkCursor
<1>10. QED
  BY <1>3, <1>4, <1>5, <1>6, <1>7, <1>8, <1>9 DEF IInv

LEMMA MergePositionInv == IInv /\ MergePosition => IInv'
<1> SUFFICES ASSUME IInv, MergePosition PROVE IInv'
  OBVIOUS
<1> DEFINE V == DOMAIN vocabulary
<1>p. PICK p : p = Head(positions)
  OBVIOUS
<1>n. PICK n : n = Neighbours(p)
  OBVIOUS
<1>e. PICK ev : ev = MergeEvent(n)
  OBVIOUS
<1>m. PICK m : m = merged_token
  OBVIOUS
<1>1. /\ splits' = splits
      /\ UNCHANGED <<vocabulary, queue, cursor, best, thread, events, total_frequency>>
      /\ phase = "sequential"
      /\ positions # << >> /\ positions' = Tail(positions)
      /\ pair_is_at(p, left_token, right_token)
      /\ Rewire(ev) /\ Splice(n, m) /\ token_count' = CountMerged(Frequency(p))
  BY <1>p, <1>n, <1>e, <1>m DEF MergePosition
<1>2. p \in Position
  BY <1>1, <1>p DEF IInv, TypeOK
<1>3. /\ splits \in Corpora /\ ChainTyped /\ BookOK(book, Position)
      /\ V \in SUBSET Nat /\ V = 1..Len(vocabulary) /\ Len(vocabulary) \in Nat
      /\ ChainOrdered /\ ChainLinked /\ KeysIn(book, V)
  BY InvFacts DEF IInv, PairsKnown
<1>4. no_position \notin Position /\ Frequency(p) \in Nat
  BY <1>2, <1>3, PositionsTyped
<1>5. alive[p] /\ alive[next[p]] /\ InRound
  BY <1>1 DEF pair_is_at, is_live, InRound
<1>6. left_token \in 1..(Len(vocabulary) - 1) /\ merged_token \in V /\ m \in V /\ m \in Nat
  BY <1>3, <1>5, <1>m DEF IInv, PairsKnown, merged_token
<1>7. /\ Position' = Position /\ Optional(Position)' = Optional(Position)
      /\ Occurrence' = Occurrence /\ Optional(Occurrence)' = Optional(Occurrence)
      /\ EventSet' = EventSet
  BY <1>1, SetsFixed
<1> HIDE DEF V
<1>8. /\ n.right = next[p] /\ n.right \in Position /\ alive[n.right]
      /\ n.right # p /\ previous[n.right] = p
      /\ n.after = next[n.right] /\ n.after \in Position /\ n.after # n.right
      /\ n.left \in Optional(Position) /\ n.left # p
      /\ n.left # no_position => n.left \in Position /\ n.left # n.right /\ next[n.left] = p
  BY <1>2, <1>3, <1>5, <1>n, NeighbourFacts
<1>9. /\ ev.position = p /\ ev.right = n.right /\ ev.left = n.left
      /\ ev.after = IF alive[n.after] THEN n.after ELSE no_position
      /\ ev.left # no_position => ev.left_token \in V
      /\ ev.after # no_position => ev.after_token \in V
  BY <1>2, <1>5, <1>n, <1>e, MergeEventFacts DEF V
<1>10. ChainTyped' /\ ChainOrdered' /\ ChainLinked' /\ Spliced(p, n.right, n.after, m)
  <2>1. splits' = splits /\ Splice(n, m) /\ m \in Nat
    BY <1>1, <1>6
  <2>2. QED
    BY <1>2, <1>3, <1>5, <1>n, <2>1, SpliceFacts
<1> DEFINE right == n.right
           left  == n.left
           after == n.after
<1>11. /\ right = next[p] /\ right \in Position /\ alive[right]
       /\ right # p /\ previous[right] = p
       /\ after = next[right] /\ after \in Position /\ after # right
       /\ left \in Optional(Position) /\ left # p
       /\ left # no_position => left \in Position /\ left # right /\ next[left] = p
       /\ ev.position = p /\ ev.right = right /\ ev.left = left
       /\ ev.after = IF alive[after] THEN after ELSE no_position
       /\ Spliced(p, right, after, m)
  BY <1>8, <1>9, <1>10
<1>s. \A q \in Position :
         /\ token'[q] = IF q = p THEN m ELSE token[q]
         /\ alive'[q] <=> q # right /\ alive[q]
         /\ next'[q] = IF q = p THEN after ELSE IF q = right THEN no_position ELSE next[q]
  BY <1>11 DEF Spliced
<1> HIDE DEF right, left, after
<1>12. /\ ThreadsOwn' /\ ThreadsIdle' /\ EventsSound' /\ HeldFresh'
       /\ PendingEvents = {} /\ PendingEvents' = {}
  <2>1. phase' = "sequential" \/ phase' = "aborted"
    BY <1>1 DEF Rewire
  <2>2. QED
    BY <1>1, <2>1, QuietThreads
<1>13. Workable(book, ev, V)
  <2>1. ASSUME ev.after = no_position PROVE book.edge_group[ev.right] = no_position
    <3>1. ~alive[next[right]]
      BY <1>4, <1>11, <2>1
    <3>2. QED
      BY <1>1, <1>11, <1>12, <3>1 DEF IInv, EndsFree
  <2>2. ev.after \in Optional(Position)
    BY <1>11 DEF Optional
  <2>3. QED
    BY <1>2, <1>9, <1>11, <2>1, <2>2 DEF Workable
<1>14. /\ Kept(book, book', V)
       /\ phase' = phase \/ phase' = "aborted"
       /\ phase' # "aborted" =>
            \A q \in Position :
               book'.edge_group[q] # no_position =>
                  \/ q = ev.left
                  \/ q = ev.position /\ ev.after # no_position
                  \/ q # ev.position /\ book.edge_group[q] # no_position
  BY <1>1, <1>3, <1>6, <1>13, RewireKept
<1>15. PairsKnown' /\ GroupsSafe' /\ BookTypeOK(book', Position)
  BY <1>1, <1>5, <1>14, RoundKept DEF V
<1>16. token_count' \in Seq(Int) /\ Len(token_count') = Len(token_count)
  BY <1>1, <1>4, <1>5, CountMergedTyped
<1>17. TypeOK'
  <2>1. positions' \in Seq(Position)
    BY <1>1 DEF IInv, TypeOK
  <2>2. /\ token' \in [Position -> Nat] /\ alive' \in [Position -> BOOLEAN]
        /\ next' \in [Position -> Optional(Position)]
        /\ previous' \in [Position -> Optional(Position)]
    BY <1>7, <1>10 DEF ChainTyped
  <2>3. phase' \in {"build", "pop", "walk", "sequential", "surgery", "replay", "done", "aborted"}
    BY <1>1, <1>14
  <2>4. QED
    BY <1>1, <1>7, <1>15, <1>16, <2>1, <2>2, <2>3 DEF IInv, TypeOK, thread
<1>18. TokensKnown'
  BY <1>1, <1>6, <1>7, <1>11, <1>s, <1>16 DEF IInv, TokensKnown, V
<1>19. EndsFree'
  <2> SUFFICES ASSUME phase' # "aborted", NEW q \in Position, alive'[q], ~alive'[next'[q]],
                      book'.edge_group[q] # no_position
               PROVE  FALSE
    BY <1>7 DEF EndsFree
  <2>1. q # right /\ alive[q]
    BY <1>11, <1>s
  <2>2. CASE q = left
    <3>1. next'[q] = p
      BY <1>4, <1>11, <1>s, <2>1, <2>2
    <3>2. QED
      BY <1>2, <1>5, <1>11, <1>s, <3>1
  <2>3. CASE q = p /\ ev.after # no_position
    <3>1. next'[q] = after /\ alive[after]
      BY <1>11, <1>s, <2>3
    <3>2. QED
      BY <1>11, <1>s, <3>1
  <2>4. CASE q # p /\ book.edge_group[q] # no_position
    <3>1. next'[q] = next[q] /\ next[q] \in Position
      BY <1>3, <1>11, <1>s, <2>1, <2>4 DEF ChainOrdered, ChainTyped, Optional
    <3>2. alive[next[q]]
      BY <1>1, <1>12, <2>1, <2>4 DEF IInv, EndsFree
    <3>3. previous[next[q]] = q
      BY <1>3, <2>1, <3>2 DEF ChainLinked
    <3>4. next[q] # right
      BY <1>11, <1>s, <2>4, <3>3
    <3>5. QED
      BY <1>11, <1>s, <3>1, <3>2, <3>4
  <2>5. QED
    BY <1>11, <1>s, <1>14, <2>2, <2>3, <2>4
<1>20. BuildAhead' /\ WalkCursor'
  BY <1>1, <1>14 DEF BuildAhead, WalkCursor
<1>21. QED
  BY <1>10, <1>12, <1>15, <1>17, <1>18, <1>19, <1>20 DEF IInv

LEMMA EndRoundInv == IInv /\ EndRound => IInv'
<1> SUFFICES ASSUME IInv, EndRound PROVE IInv'
  OBVIOUS
<1>1. /\ splits' = splits
      /\ UNCHANGED <<chain, token_count, vocabulary, cursor, positions, thread, events,
                     total_frequency>>
      /\ phase \in {"sequential", "replay"} /\ phase' = "pop" /\ best' = no_position
      /\ phase = "replay" => \A t \in Threads : events[t] = << >>
      /\ book' = [book EXCEPT !.born = << >>]
      /\ \A e \in queue' : e \in queue \/ \E s \in DOMAIN book.pairs : e = Entry(s)
  BY DEF EndRound, RoundProcessed
<1>2. BookOK(book, Position)
  BY InvFacts
<1>3. /\ Position' = Position /\ Optional(Position)' = Optional(Position)
      /\ Occurrence' = Occurrence /\ Optional(Occurrence)' = Optional(Occurrence)
      /\ EventSet' = EventSet
  BY <1>1, SetsFixed
<1>4. BookOK(book', Position) /\ book'.pairs = book.pairs /\ book'.edge_group = book.edge_group
  BY <1>1, <1>2, ForgetBorn
<1>5. \A e \in queue' : e \in [state : Nat, count : Nat] /\ e.state \in DOMAIN book.pairs
  <2> TAKE e \in queue'
  <2>1. CASE e \in queue
    BY <2>1 DEF IInv, TypeOK, PairsKnown
  <2>2. CASE e \notin queue
    <3>1. PICK s \in DOMAIN book.pairs : e = Entry(s)
      BY <1>1, <2>2
    <3>2. e.state = s
      BY <3>1 DEF Entry
    <3>3. QED
      BY <1>2, <3>1, <3>2, EntryTyped
  <2>3. QED
    BY <2>1, <2>2
<1>6. /\ \A t \in Threads : held[t] = no_position /\ events[t] = << >>
      /\ held' = held /\ events' = events /\ bucket' = bucket /\ word' = word
  BY <1>1 DEF IInv, ThreadsIdle, thread
<1>7. TypeOK'
  <2>1. queue' \subseteq [state : Nat, count : Nat] /\ best' \in Optional(Nat)
    BY <1>1, <1>5 DEF Optional
  <2>2. BookTypeOK(book', Position)
    BY <1>4 DEF BookOK
  <2>3. QED
    BY <1>1, <1>3, <2>1, <2>2 DEF IInv, TypeOK, chain, thread
<1>8. GroupsSafe'
  BY <1>4 DEF GroupsSafe, BookOK
<1>9. ChainOrdered' /\ ChainLinked' /\ TokensKnown'
  BY <1>1, ChainKept, TokensKept DEF IInv
<1>10. PairsKnown'
  BY <1>1, <1>4, <1>5 DEF IInv, PairsKnown, KeysIn, InRound
<1>11. ThreadsOwn' /\ ThreadsIdle' /\ EventsSound' /\ HeldFresh'
  <2>1. ThreadsOwn'
    BY <1>1, <1>6 DEF IInv, ThreadsOwn
  <2>2. QED
    BY <1>1, <1>6, <2>1 DEF ThreadsIdle, EventsSound, HeldFresh
<1>12. EndsFree'
  BY <1>1, <1>4, EndsKept DEF IInv
<1>13. BuildAhead' /\ WalkCursor'
  BY <1>1 DEF BuildAhead, WalkCursor
<1>14. QED
  BY <1>7, <1>8, <1>9, <1>10, <1>11, <1>12, <1>13 DEF IInv

-----------------------------------------------------------------------------
(* process_positions_parallel: the parallel region.                        *)

\* What a step within the region keeps when it changes neither the chain nor
\* the book nor the events.
LEMMA RegionKept ==
    ASSUME IInv, splits' = splits, phase = "surgery", phase' \in {"surgery", "replay"},
           UNCHANGED <<chain, vocabulary, book, queue, best, events>>,
           Len(token_count') = Len(token_count)
    PROVE  /\ GroupsSafe' /\ ChainOrdered' /\ ChainLinked' /\ TokensKnown' /\ PairsKnown'
           /\ BuildAhead' /\ WalkCursor' /\ EndsFree' /\ EventsSound'
           /\ BookTypeOK(book', Position)
<1>1. Position' = Position /\ PendingEvents' = PendingEvents
  BY PositionsFixed DEF PendingEvents
<1>2. GroupsSafe' /\ BookTypeOK(book', Position)
  BY DEF IInv, GroupsSafe, TypeOK
<1>3. ChainOrdered' /\ ChainLinked' /\ TokensKnown'
  BY ChainKept, TokensKept DEF IInv
<1>4. PairsKnown'
  BY DEF IInv, PairsKnown, InRound, left_token, right_token
<1>5. BuildAhead' /\ WalkCursor'
  BY DEF BuildAhead, WalkCursor
<1>6. EndsFree'
  BY EndsKept DEF IInv
<1>7. EventsSound'
  BY <1>1 DEF IInv, EventsSound, chain, merged_token
<1>8. QED
  BY <1>2, <1>3, <1>4, <1>5, <1>6, <1>7

LEMMA TakeWordInv == ASSUME IInv, NEW t \in Team, TakeWord(t) PROVE IInv'
<1>1. /\ splits' = splits
      /\ UNCHANGED <<chain, token_count, vocabulary, book, queue, cursor, best, positions, held,
                     events, total_frequency>>
      /\ phase = "surgery" /\ phase' = "surgery" /\ index' = [index EXCEPT ![t] = 0]
  BY DEF TakeWord
<1>2. PICK w \in bucket[t] : /\ word' = [word EXCEPT ![t] = w]
                             /\ bucket' = [bucket EXCEPT ![t] = @ \ {w}]
  BY DEF TakeWord
<1>3. t \in Threads
  BY ThreadAssumption
<1>4. /\ GroupsSafe' /\ ChainOrdered' /\ ChainLinked' /\ TokensKnown' /\ PairsKnown'
      /\ BuildAhead' /\ WalkCursor' /\ EndsFree' /\ EventsSound'
      /\ BookTypeOK(book', Position)
  BY <1>1, RegionKept
<1>5. /\ Position' = Position /\ Optional(Position)' = Optional(Position)
      /\ Occurrence' = Occurrence /\ Optional(Occurrence)' = Optional(Occurrence)
      /\ EventSet' = EventSet
  BY <1>1, SetsFixed
<1>6. bucket \in [Threads -> SUBSET DOMAIN splits] /\ word \in [Threads -> Nat]
  BY DEF IInv, TypeOK
<1>7. w \in Nat
  BY <1>3, <1>6, InvFacts, PositionsTyped
<1>8. TypeOK'
  <2>1. bucket' \in [Threads -> SUBSET DOMAIN splits] /\ word' \in [Threads -> Nat]
    BY <1>2, <1>3, <1>6, <1>7
  <2>2. index' \in [Threads -> Nat]
    BY <1>1 DEF IInv, TypeOK
  <2>3. QED
    BY <1>1, <1>4, <1>5, <2>1, <2>2 DEF IInv, TypeOK, chain
<1>9. ThreadsOwn'
  <2>1. \A u \in Threads : bucket'[u] \subseteq bucket[u] /\ word'[u] \in {word[u]} \cup bucket[u]
    BY <1>2, <1>3, <1>6
  <2>2. QED
    BY <1>1, <2>1 DEF IInv, ThreadsOwn, Owner
<1>10. ThreadsIdle' /\ HeldFresh'
  BY <1>1 DEF IInv, ThreadsIdle, HeldFresh, pair_is_at, is_live, Neighbours, left_token,
              right_token, chain
<1>11. QED
  BY <1>4, <1>8, <1>9, <1>10 DEF IInv

LEMMA ResolveInv == ASSUME IInv, NEW t \in Team, Resolve(t) PROVE IInv'
<1>1. /\ splits' = splits
      /\ UNCHANGED <<chain, token_count, vocabulary, book, queue, cursor, best, positions, bucket,
                     word, events, total_frequency>>
      /\ phase = "surgery" /\ phase' = "surgery"
  BY DEF Resolve
<1>2. PICK k \in Remaining(t) :
         /\ index' = [index EXCEPT ![t] = k]
         /\ held' = [held EXCEPT ![t] = IF pair_is_at(positions[k], left_token, right_token)
                                        THEN Neighbours(positions[k]) ELSE no_position]
  BY DEF Resolve
<1>p. PICK p : p = positions[k]
  OBVIOUS
<1>n. PICK n : n = Neighbours(p)
  OBVIOUS
<1>3. t \in Threads
  BY ThreadAssumption
<1>4. /\ GroupsSafe' /\ ChainOrdered' /\ ChainLinked' /\ TokensKnown' /\ PairsKnown'
      /\ BuildAhead' /\ WalkCursor' /\ EndsFree' /\ EventsSound'
      /\ BookTypeOK(book', Position)
  BY <1>1, RegionKept
<1>5. /\ Position' = Position /\ Optional(Position)' = Optional(Position)
      /\ Occurrence' = Occurrence /\ Optional(Occurrence)' = Optional(Occurrence)
      /\ EventSet' = EventSet
  BY <1>1, SetsFixed
<1>6. splits \in Corpora /\ ChainTyped /\ ChainOrdered /\ ChainLinked
  BY InvFacts DEF IInv
<1>7. k \in Nat /\ p \in Position /\ p[1] = word[t]
  BY <1>p DEF Remaining, IInv, TypeOK
<1>8. /\ index' = [index EXCEPT ![t] = k]
      /\ held' = [held EXCEPT ![t] = IF pair_is_at(p, left_token, right_token)
                                     THEN n ELSE no_position]
  BY <1>2, <1>p, <1>n
<1>9. pair_is_at(p, left_token, right_token) => n \in Occurrence /\ n.position = p
  <2> SUFFICES ASSUME pair_is_at(p, left_token, right_token)
               PROVE  n \in Occurrence /\ n.position = p
    OBVIOUS
  <2>1. alive[p] /\ alive[next[p]]
    BY DEF pair_is_at, is_live
  <2>2. /\ n.position = p /\ n.right \in Position /\ n.left \in Optional(Position)
        /\ n.after \in Position
    BY <1>6, <1>7, <1>n, <2>1, NeighbourFacts
  <2>3. n = [position |-> n.position, right |-> n.right, left |-> n.left, after |-> n.after]
    BY <1>n DEF Neighbours
  <2>4. n.after \in Optional(Position)
    BY <2>2 DEF Optional
  <2>5. QED
    BY <1>7, <2>2, <2>3, <2>4 DEF Occurrence
<1>10. held \in [Threads -> Optional(Occurrence)]
  BY DEF IInv, TypeOK
<1>11. \A u \in Threads : held'[u] # no_position =>
                             \/ held'[u] = held[u]
                             \/ u = t /\ held'[u] = n /\ pair_is_at(p, left_token, right_token)
  BY <1>3, <1>8, <1>10
<1>12. TypeOK'
  <2>1. index' \in [Threads -> Nat]
    BY <1>7, <1>8 DEF IInv, TypeOK
  <2>2. held' \in [Threads -> Optional(Occurrence)]
    <3>1. CASE pair_is_at(p, left_token, right_token)
      BY <1>8, <1>9, <1>10, <3>1 DEF Optional
    <3>2. CASE ~pair_is_at(p, left_token, right_token)
      BY <1>8, <1>10, <3>2 DEF Optional
    <3>3. QED
      BY <3>1, <3>2
  <2>3. QED
    BY <1>1, <1>4, <1>5, <2>1, <2>2 DEF IInv, TypeOK, chain
<1>13. ThreadsOwn'
  <2>1. word[t] # 0
    BY <1>6, <1>7, PositionsTyped
  <2>2. \A u \in Threads : held'[u] # no_position => Owner(held'[u].position[1]) = u
    BY <1>3, <1>7, <1>9, <1>11, <2>1 DEF IInv, ThreadsOwn
  <2>3. QED
    BY <1>1, <2>2 DEF IInv, ThreadsOwn, Owner
<1>14. ThreadsIdle'
  BY <1>1 DEF ThreadsIdle
<1>15. HeldFresh'
  <2>1. ASSUME NEW u \in Threads, held'[u] # no_position
        PROVE  /\ pair_is_at(held'[u].position, left_token, right_token)
               /\ Neighbours(held'[u].position) = held'[u]
    <3>1. CASE held'[u] = held[u]
      BY <2>1, <3>1 DEF IInv, HeldFresh
    <3>2. CASE u = t /\ held'[u] = n /\ pair_is_at(p, left_token, right_token)
      BY <1>9, <1>n, <3>2
    <3>3. QED
      BY <1>11, <2>1, <3>1, <3>2
  <2>2. QED
    BY <1>1, <2>1 DEF HeldFresh, pair_is_at, is_live, Neighbours, left_token, right_token, chain
<1>16. QED
  BY <1>4, <1>12, <1>13, <1>14, <1>15 DEF IInv

LEMMA JoinInv == IInv /\ Join => IInv'
<1> SUFFICES ASSUME IInv, Join PROVE IInv'
  OBVIOUS
<1>1. /\ splits' = splits
      /\ UNCHANGED <<chain, vocabulary, book, queue, cursor, best, bucket, held, events>>
      /\ phase = "surgery" /\ phase' = "replay" /\ positions' = << >> /\ total_frequency' = 0
      /\ word' = [u \in Threads |-> 0] /\ index' = [u \in Threads |-> 0]
      /\ token_count' = CountMerged(total_frequency)
      /\ \A t \in Threads : held[t] = no_position
  BY DEF Join
<1>2. token_count' \in Seq(Int) /\ Len(token_count') = Len(token_count)
  <2>1. InRound /\ total_frequency \in Nat
    BY <1>1 DEF InRound, IInv, TypeOK
  <2>2. QED
    BY <1>1, <2>1, CountMergedTyped
<1>3. /\ GroupsSafe' /\ ChainOrdered' /\ ChainLinked' /\ TokensKnown' /\ PairsKnown'
      /\ BuildAhead' /\ WalkCursor' /\ EndsFree' /\ EventsSound'
      /\ BookTypeOK(book', Position)
  BY <1>1, <1>2, RegionKept
<1>4. /\ Position' = Position /\ Optional(Position)' = Optional(Position)
      /\ Occurrence' = Occurrence /\ Optional(Occurrence)' = Optional(Occurrence)
      /\ EventSet' = EventSet
  BY <1>1, SetsFixed
<1>5. TypeOK'
  <2>1. positions' \in Seq(Position) /\ word' \in [Threads -> Nat] /\ index' \in [Threads -> Nat]
        /\ total_frequency' \in Nat
    BY <1>1
  <2>2. QED
    BY <1>1, <1>2, <1>3, <1>4, <2>1 DEF IInv, TypeOK, chain
<1>6. ThreadsOwn'
  BY <1>1 DEF IInv, ThreadsOwn, Owner
<1>7. ThreadsIdle' /\ HeldFresh'
  BY <1>1 DEF ThreadsIdle, HeldFresh
<1>8. QED
  BY <1>3, <1>5, <1>6, <1>7 DEF IInv

\* The occurrence a thread holds is in no event yet, and its right half starts no
\* edge if nothing follows it.
LEMMA ApplyInv == ASSUME IInv, NEW t \in Team, Apply(t) PROVE IInv'
<1> DEFINE V == DOMAIN vocabulary
<1>n. PICK n : n = held[t]
  OBVIOUS
<1>p. PICK p : p = n.position
  OBVIOUS
<1>e. PICK ev : ev = MergeEvent(n)
  OBVIOUS
<1>m. PICK m : m = merged_token
  OBVIOUS
<1>1. /\ splits' = splits
      /\ UNCHANGED <<token_count, vocabulary, book, queue, cursor, best, positions, bucket,
                     word, index>>
      /\ phase = "surgery" /\ phase' = "surgery" /\ n # no_position
      /\ Splice(n, m)
      /\ events' = [events EXCEPT ![t] = Append(@, ev)]
      /\ total_frequency' = total_frequency + Frequency(p)
      /\ held' = [held EXCEPT ![t] = no_position]
  BY <1>n, <1>p, <1>e, <1>m DEF Apply
<1>2. t \in Threads
  BY ThreadAssumption
<1>3. /\ splits \in Corpora /\ ChainTyped /\ ChainOrdered /\ ChainLinked
      /\ V \in SUBSET Nat /\ V = 1..Len(vocabulary) /\ Len(vocabulary) \in Nat
  BY InvFacts DEF IInv
<1>4. /\ held \in [Threads -> Optional(Occurrence)] /\ events \in [Threads -> Seq(EventSet)]
      /\ total_frequency \in Nat
  BY DEF IInv, TypeOK
<1>5. n \in Occurrence /\ p \in Position
  <2>1. n \in Occurrence
    BY <1>1, <1>2, <1>4, <1>n DEF Optional
  <2>2. QED
    BY <2>1, <1>p DEF Occurrence
<1>6. pair_is_at(p, left_token, right_token) /\ n = Neighbours(p)
  BY <1>1, <1>2, <1>n, <1>p DEF IInv, HeldFresh
<1>7. /\ alive[p] /\ token[p] = left_token
      /\ alive[next[p]] /\ token[next[p]] = right_token
  BY <1>6 DEF pair_is_at, is_live
<1>8. /\ no_position \notin Position /\ Frequency(p) \in Nat
  BY <1>3, <1>5, PositionsTyped
<1>9. InRound
  BY <1>1 DEF InRound
<1>10. m \in V /\ m \in Nat /\ left_token # m /\ right_token # m
  BY <1>3, <1>9, <1>m DEF IInv, PairsKnown, merged_token
<1> HIDE DEF V
<1>11. /\ Position' = Position /\ Optional(Position)' = Optional(Position)
       /\ Occurrence' = Occurrence /\ Optional(Occurrence)' = Optional(Occurrence)
       /\ EventSet' = EventSet
  BY <1>1, SetsFixed
<1>12. /\ n.right = next[p] /\ n.right \in Position /\ alive[n.right]
       /\ n.right[1] = p[1] /\ n.right # p /\ previous[n.right] = p
       /\ n.after = next[n.right] /\ n.after \in Position /\ n.after # n.right
       /\ n.after[1] = p[1]
       /\ n.left \in Optional(Position) /\ n.left # p
       /\ n.left # no_position => /\ n.left \in Position /\ n.left # n.right
                                  /\ alive[n.left] /\ next[n.left] = p
  BY <1>3, <1>5, <1>6, <1>7, NeighbourFacts
<1>13. /\ ev \in EventSet
       /\ ev.position = p /\ ev.right = n.right /\ ev.left = n.left
       /\ ev.after = IF alive[n.after] THEN n.after ELSE no_position
       /\ ev.left # no_position => ev.left_token \in V
       /\ ev.after # no_position => ev.after_token \in V
  BY <1>5, <1>6, <1>7, <1>e, MergeEventFacts DEF V
<1>14. ChainTyped' /\ ChainOrdered' /\ ChainLinked' /\ Spliced(p, n.right, n.after, m)
  <2>1. splits' = splits /\ Splice(n, m) /\ m \in Nat
    BY <1>1, <1>10
  <2>2. QED
    BY <1>3, <1>5, <1>6, <1>7, <2>1, SpliceFacts
<1> DEFINE right == n.right
           left  == n.left
           after == n.after
<1>15. /\ right = next[p] /\ right \in Position /\ alive[right]
       /\ right[1] = p[1] /\ right # p /\ previous[right] = p
       /\ after = next[right] /\ after \in Position /\ after # right /\ after[1] = p[1]
       /\ left \in Optional(Position) /\ left # p
       /\ left # no_position => left \in Position /\ left # right /\ alive[left] /\ next[left] = p
       /\ ev.position = p /\ ev.right = right /\ ev.left = left
       /\ ev.after = IF alive[after] THEN after ELSE no_position
       /\ Spliced(p, right, after, m)
       /\ token[right] = right_token
  BY <1>7, <1>12, <1>13, <1>14
<1> HIDE DEF right, left, after
<1>16. \A q \in Position :
          /\ token'[q] = IF q = p THEN m ELSE token[q]
          /\ alive'[q] <=> q # right /\ alive[q]
          /\ next'[q] = IF q = p THEN after ELSE IF q = right THEN no_position ELSE next[q]
          /\ previous'[q] = IF q = right THEN no_position
                            ELSE IF q = after THEN p ELSE previous[q]
  BY <1>15 DEF Spliced
<1>17. \A q \in Position : next[q] # no_position => next[q] \in Position /\ next[q][1] = q[1]
  BY <1>3 DEF ChainOrdered, ChainTyped, Optional
<1>18. /\ events'[t] = Append(events[t], ev)
       /\ \A u \in Threads \ {t} : events'[u] = events[u]
       /\ \A u \in Threads : DOMAIN events[u] = 1..Len(events[u]) /\ Len(events[u]) \in Nat
  BY <1>1, <1>2, <1>4
<1>19. \A e : e \in PendingEvents' <=> e \in PendingEvents \/ e = ev
  <2>1. events[t] \in Seq(EventSet)
    BY <1>2, <1>4
  <2>2. \A e : (\E i \in DOMAIN events'[t] : e = events'[t][i])
                  <=> (\E i \in DOMAIN events[t] : e = events[t][i]) \/ e = ev
    <3> DEFINE s == events[t]
    <3>1. s \in Seq(EventSet) /\ events'[t] = Append(s, ev)
      BY <1>18, <2>1
    <3> HIDE DEF s
    <3>2. /\ DOMAIN Append(s, ev) = 1..(Len(s) + 1) /\ DOMAIN s = 1..Len(s) /\ Len(s) \in Nat
          /\ \A i \in 1..Len(s) : Append(s, ev)[i] = s[i]
          /\ Append(s, ev)[Len(s) + 1] = ev
      BY <3>1
    <3>3. \A i \in 1..(Len(s) + 1) : i \in 1..Len(s) \/ i = Len(s) + 1
      BY <3>2
    <3>4. Len(s) + 1 \in 1..(Len(s) + 1) /\ 1..Len(s) \subseteq 1..(Len(s) + 1)
      BY <3>2
    <3>5. QED
      BY <3>1, <3>2, <3>3, <3>4 DEF s
  <2>3. QED
    BY <1>2, <1>18, <2>2 DEF PendingEvents
<1>20. \A e \in PendingEvents :
          /\ e \in EventSet
          /\ alive[e.position] /\ token[e.position] = m
          /\ ~alive[e.right]
          /\ e.left # no_position =>
               /\ e.left # e.position
               /\ alive[e.left] => next[e.left] = e.position
               /\ e.left_token \in V
          /\ e.after # no_position => alive[next[e.position]] /\ e.after_token \in V
          /\ e.after = no_position =>
               /\ book.edge_group[e.right] = no_position
               /\ \A f \in PendingEvents : f.left # e.right
  <2>1. \A e \in PendingEvents : e \in EventSet
    BY <1>4 DEF PendingEvents
  <2>2. QED
    BY <1>1, <1>m, <2>1 DEF IInv, EventsSound, V
<1>21. \A e \in PendingEvents :
          /\ e.position \in Position /\ e.right \in Position
          /\ e.left # no_position => e.left \in Position
          /\ e.position # right /\ e.position # p
  <2> TAKE e \in PendingEvents
  <2>1. e \in EventSet /\ token[e.position] = m
    BY <1>20
  <2>2. e.position \in Position /\ e.right \in Position /\ e.left \in Optional(Position)
    BY <2>1 DEF EventSet
  <2>3. QED
    BY <1>7, <1>10, <1>15, <2>1, <2>2 DEF Optional
<1>22. TypeOK'
  <2>1. events' \in [Threads -> Seq(EventSet)]
    <3>1. events[t] \in Seq(EventSet)
      BY <1>2, <1>4
    <3>2. Append(events[t], ev) \in Seq(EventSet)
      BY <1>13, <3>1
    <3>3. QED
      BY <1>1, <1>4, <3>2
  <2>2. held' \in [Threads -> Optional(Occurrence)]
    BY <1>1, <1>4 DEF Optional
  <2>3. total_frequency' \in Nat
    BY <1>1, <1>4, <1>8
  <2>4. /\ token' \in [Position -> Nat] /\ alive' \in [Position -> BOOLEAN]
        /\ next' \in [Position -> Optional(Position)]
        /\ previous' \in [Position -> Optional(Position)]
    BY <1>11, <1>14 DEF ChainTyped
  <2>5. BookTypeOK(book', Position)
    BY <1>1 DEF IInv, TypeOK
  <2>6. QED
    BY <1>1, <1>11, <2>1, <2>2, <2>3, <2>4, <2>5 DEF IInv, TypeOK
<1>23. GroupsSafe'
  BY <1>1 DEF IInv, GroupsSafe
<1>24. TokensKnown'
  BY <1>1, <1>10, <1>11, <1>16 DEF IInv, TokensKnown, V
<1>25. PairsKnown'
  BY <1>1 DEF IInv, PairsKnown, InRound, left_token, right_token
<1>26. BuildAhead' /\ WalkCursor'
  BY <1>1 DEF BuildAhead, WalkCursor
<1>27. \A q \in Position \ {p} :
          alive'[q] /\ alive[next[q]] => next'[q] = next[q] /\ alive'[next[q]]
  <2> TAKE q \in Position \ {p}
  <2> SUFFICES ASSUME alive'[q], alive[next[q]] PROVE next'[q] = next[q] /\ alive'[next[q]]
    OBVIOUS
  <2>1. q # right /\ alive[q] /\ next[q] \in Position
    BY <1>3, <1>16, <1>17 DEF ChainOrdered
  <2>2. previous[next[q]] = q
    BY <1>3, <2>1 DEF ChainLinked
  <2>3. next[q] # right
    BY <1>15, <2>2
  <2>4. QED
    BY <1>16, <2>1, <2>3
<1>28. EndsFree'
  <2> SUFFICES ASSUME NEW q \in Position, alive'[q], ~alive'[next'[q]],
                      book.edge_group[q] # no_position
               PROVE  \E e \in PendingEvents' : e.position = q
    BY <1>1, <1>11 DEF EndsFree
  <2>1. CASE q = p
    BY <1>15, <1>19, <2>1
  <2>2. CASE q # p
    <3>1. alive[q] /\ next'[q] = next[q]
      BY <1>16, <2>2
    <3>2. ~alive[next[q]]
      BY <1>27, <2>2, <3>1
    <3>3. QED
      BY <1>1, <1>19, <3>1, <3>2 DEF IInv, EndsFree
  <2>3. QED
    BY <2>1, <2>2
<1>29. ThreadsOwn'
  <2>1. Owner(p[1]) = t
    BY <1>1, <1>2, <1>n, <1>p DEF IInv, ThreadsOwn
  <2>2. \A i \in DOMAIN events'[t] : Owner(events'[t][i].position[1]) = t
    <3>1. \A i \in DOMAIN events'[t] :
             events'[t][i] = ev \/ \E j \in DOMAIN events[t] : events'[t][i] = events[t][j]
      <4> DEFINE s == events[t]
      <4>1. s \in Seq(EventSet) /\ events'[t] = Append(s, ev)
        BY <1>2, <1>4, <1>18
      <4> HIDE DEF s
      <4>2. \A i \in DOMAIN Append(s, ev) :
               Append(s, ev)[i] = ev \/ (i \in DOMAIN s /\ Append(s, ev)[i] = s[i])
        BY <4>1
      <4>3. QED
        BY <4>1, <4>2 DEF s
    <3>2. QED
      BY <1>2, <1>15, <2>1, <3>1 DEF IInv, ThreadsOwn
  <2>3. \A u \in Threads : held'[u] # no_position => held'[u] = held[u]
    BY <1>1, <1>2, <1>4
  <2>4. QED
    BY <1>1, <1>18, <2>2, <2>3 DEF IInv, ThreadsOwn, Owner
<1>30. ThreadsIdle'
  BY <1>1 DEF ThreadsIdle
<1>31. EventsSound'
  <2>1. ASSUME NEW e \in PendingEvents
        PROVE  /\ alive'[e.position] /\ token'[e.position] = m
               /\ ~alive'[e.right]
               /\ e.left # no_position =>
                    /\ e.left # e.position
                    /\ alive'[e.left] => next'[e.left] = e.position
                    /\ e.left_token \in V
               /\ e.after # no_position => alive'[next'[e.position]] /\ e.after_token \in V
               /\ e.after = no_position =>
                    /\ book.edge_group[e.right] = no_position
                    /\ \A f \in PendingEvents : f.left # e.right
                    /\ ev.left # e.right
    <3>1. /\ e.position \in Position /\ e.right \in Position
          /\ e.left # no_position => e.left \in Position
          /\ e.position # right /\ e.position # p
      BY <1>21
    <3>2. alive'[e.position] /\ token'[e.position] = m /\ ~alive'[e.right]
      BY <1>16, <1>20, <3>1
    <3>3. ASSUME e.left # no_position, alive'[e.left]
          PROVE  next'[e.left] = e.position
      <4>1. e.left \in Position /\ e.left # right /\ next[e.left] = e.position
        BY <1>16, <1>20, <3>1, <3>3
      <4>2. e.left # p
        BY <1>15, <3>1, <4>1
      <4>3. QED
        BY <1>16, <4>1, <4>2
    <3>4. e.after # no_position => alive'[next'[e.position]]
      BY <1>20, <1>27, <3>1, <3>2
    <3>5. ev.left # e.right
      BY <1>8, <1>15, <1>20, <3>1
    <3>6. QED
      BY <1>20, <3>2, <3>3, <3>4, <3>5
  <2>2. /\ alive'[p] /\ token'[p] = m /\ ~alive'[right]
        /\ ev.left # no_position =>
             /\ ev.left # p
             /\ alive'[ev.left] => next'[ev.left] = p
        /\ ev.after # no_position => alive'[next'[p]]
    BY <1>5, <1>7, <1>8, <1>15, <1>16
  <2>3. ASSUME ev.after = no_position
        PROVE  /\ book.edge_group[right] = no_position
               /\ \A f \in PendingEvents : f.left # right
               /\ ev.left # right
    <3>1. ~alive[next[right]]
      BY <1>8, <1>15, <2>3
    <3>2. \A f \in PendingEvents : f.position # right
      BY <1>21
    <3>3. book.edge_group[right] = no_position
      BY <1>1, <1>15, <3>1, <3>2 DEF IInv, EndsFree
    <3>4. \A f \in PendingEvents : f.left # right
      BY <1>8, <1>15, <1>20, <3>1
    <3>5. ev.left # right
      BY <1>8, <1>15
    <3>6. QED
      BY <3>3, <3>4, <3>5
  <2>4. merged_token' = m /\ DOMAIN vocabulary' = V /\ book' = book
    BY <1>1, <1>m DEF merged_token, V
  <2>5. ASSUME NEW e \in PendingEvents'
        PROVE  /\ alive'[e.position] /\ token'[e.position] = merged_token'
               /\ ~alive'[e.right]
               /\ e.left # no_position =>
                    /\ e.left # e.position
                    /\ alive'[e.left] => next'[e.left] = e.position
                    /\ e.left_token \in DOMAIN vocabulary'
               /\ e.after # no_position =>
                    /\ alive'[next'[e.position]]
                    /\ e.after_token \in DOMAIN vocabulary'
               /\ e.after = no_position =>
                    /\ book'.edge_group[e.right] = no_position
                    /\ \A f \in PendingEvents' : f.left # e.right
    <3>1. CASE e \in PendingEvents
      BY <1>19, <2>1, <2>4, <3>1
    <3>2. CASE e = ev
      BY <1>13, <1>15, <1>19, <2>2, <2>3, <2>4, <3>2
    <3>3. QED
      BY <1>19, <3>1, <3>2
  <2>6. QED
    BY <2>5 DEF EventsSound
<1>32. HeldFresh'
  <2> SUFFICES ASSUME NEW u \in Threads, held'[u] # no_position
               PROVE  /\ pair_is_at(held[u].position, left_token, right_token)'
                      /\ (Neighbours(held[u].position) = held[u])'
    BY DEF HeldFresh
  <2>1. u # t /\ held'[u] = held[u]
    BY <1>1, <1>2, <1>4
  <2>o. PICK o : o = held[u]
    OBVIOUS
  <2>q. PICK q : q = o.position
    OBVIOUS
  <2>2. o \in Occurrence /\ pair_is_at(q, left_token, right_token) /\ o = Neighbours(q)
    BY <1>4, <2>1, <2>o, <2>q DEF IInv, HeldFresh, Optional
  <2>3. q \in Position
    BY <2>2, <2>q DEF Occurrence
  <2>4. q[1] # p[1]
    <3>1. Owner(q[1]) = u /\ Owner(p[1]) = t
      BY <1>1, <1>2, <1>n, <1>p, <2>1, <2>o, <2>q DEF IInv, ThreadsOwn
    <3>2. QED
      BY <2>1, <3>1
  <2>5. /\ alive[q] /\ token[q] = left_token
        /\ alive[next[q]] /\ token[next[q]] = right_token
    BY <2>2 DEF pair_is_at, is_live
  <2>6. next[q] \in Position /\ next[q][1] = q[1]
    BY <1>3, <1>17, <2>3, <2>5 DEF ChainOrdered
  <2>7. q \notin {p, right, after} /\ next[q] \notin {p, right, after}
    BY <1>15, <2>4, <2>6
  <2>8. /\ token'[q] = token[q] /\ alive'[q] /\ next'[q] = next[q] /\ previous'[q] = previous[q]
        /\ token'[next[q]] = token[next[q]] /\ alive'[next[q]] /\ next'[next[q]] = next[next[q]]
    BY <1>16, <2>3, <2>5, <2>6, <2>7
  <2>9. left_token' = left_token /\ right_token' = right_token
    BY <1>1 DEF left_token, right_token
  <2>10. next'[q] # no_position /\ q # no_position
    BY <1>8, <2>3, <2>6, <2>8
  <2>11. held'[u].position = q /\ held'[u] = o
    BY <2>1, <2>o, <2>q
  <2>12. pair_is_at(held[u].position, left_token, right_token)'
    BY <2>5, <2>8, <2>9, <2>10, <2>11 DEF pair_is_at, is_live
  <2>13. (Neighbours(held[u].position) = held[u])'
    BY <2>2, <2>8, <2>11 DEF Neighbours
  <2>14. QED
    BY <2>12, <2>13
<1>33. QED
  BY <1>14, <1>22, <1>23, <1>24, <1>25, <1>26, <1>28, <1>29, <1>30, <1>31, <1>32 DEF IInv

-----------------------------------------------------------------------------
(* process_positions_parallel: the replay.                                 *)

LEMMA ReplayEventInv == IInv /\ ReplayEvent => IInv'
<1> SUFFICES ASSUME IInv, ReplayEvent PROVE IInv'
  OBVIOUS
<1> DEFINE V == DOMAIN vocabulary
<1>t. PICK t \in Threads : /\ events[t] # << >>
                           /\ Rewire(Head(events[t]))
                           /\ events' = [events EXCEPT ![t] = Tail(@)]
  BY DEF ReplayEvent
<1>e. PICK ev : ev = Head(events[t])
  OBVIOUS
<1>1. /\ splits' = splits
      /\ UNCHANGED <<chain, token_count, vocabulary, queue, cursor, best, positions, bucket, word,
                     index, held, total_frequency>>
      /\ phase = "replay"
  BY DEF ReplayEvent, thread
<1>2. /\ splits \in Corpora /\ ChainTyped /\ BookOK(book, Position)
      /\ ChainOrdered /\ ChainLinked /\ KeysIn(book, V)
      /\ V \in SUBSET Nat /\ V = 1..Len(vocabulary) /\ Len(vocabulary) \in Nat
      /\ events \in [Threads -> Seq(EventSet)]
  BY InvFacts DEF IInv, PairsKnown, TypeOK
<1>3. InRound /\ merged_token \in V
  <2>1. InRound
    BY <1>1 DEF InRound
  <2>2. left_token \in 1..(Len(vocabulary) - 1)
    BY <2>1 DEF IInv, PairsKnown
  <2>3. QED
    BY <1>2, <2>1, <2>2 DEF merged_token
<1> HIDE DEF V
<1>4. /\ Position' = Position /\ Optional(Position)' = Optional(Position)
      /\ Occurrence' = Occurrence /\ Optional(Occurrence)' = Optional(Occurrence)
      /\ EventSet' = EventSet
  BY <1>1, SetsFixed
<1>5. no_position \notin Position
  BY <1>2, PositionsTyped
<1>6. /\ ev = events[t][1] /\ 1 \in DOMAIN events[t] /\ Tail(events[t]) \in Seq(EventSet)
      /\ \A i \in DOMAIN Tail(events[t]) :
            i + 1 \in DOMAIN events[t] /\ Tail(events[t])[i] = events[t][i + 1]
      /\ \A i \in DOMAIN events[t] :
            i = 1 \/ (i - 1 \in DOMAIN Tail(events[t]) /\ Tail(events[t])[i - 1] = events[t][i])
  <2> DEFINE s == events[t]
  <2>1. s \in Seq(EventSet) /\ s # << >> /\ ev = Head(s)
    BY <1>2, <1>t, <1>e
  <2> HIDE DEF s
  <2>2. ev = s[1] /\ 1 \in DOMAIN s /\ Tail(s) \in Seq(EventSet)
    BY <2>1
  <2>3. \A i \in DOMAIN Tail(s) : i + 1 \in DOMAIN s /\ Tail(s)[i] = s[i + 1]
    BY <2>1
  <2>4. \A i \in DOMAIN s : i = 1 \/ (i - 1 \in DOMAIN Tail(s) /\ Tail(s)[i - 1] = s[i])
    BY <2>1
  <2>5. QED
    BY <2>2, <2>3, <2>4 DEF s
<1>7. /\ events'[t] = Tail(events[t])
      /\ \A u \in Threads \ {t} : events'[u] = events[u]
      /\ events' \in [Threads -> Seq(EventSet)]
  BY <1>2, <1>6, <1>t
<1>i. \A u \in Threads : \A i \in DOMAIN events'[u] :
         \E j \in DOMAIN events[u] : events'[u][i] = events[u][j]
  <2> TAKE u \in Threads
  <2>1. CASE u = t
    <3>1. \A i \in DOMAIN events'[t] :
             i + 1 \in DOMAIN events[t] /\ events'[t][i] = events[t][i + 1]
      BY <1>6, <1>7
    <3>2. QED
      BY <2>1, <3>1
  <2>2. CASE u # t
    BY <1>7, <2>2
  <2>3. QED
    BY <2>1, <2>2
<1>j. \A u \in Threads : \A i \in DOMAIN events[u] :
         events[u][i] = ev \/ \E j \in DOMAIN events'[u] : events[u][i] = events'[u][j]
  <2> TAKE u \in Threads
  <2>1. CASE u = t
    <3>1. \A i \in DOMAIN events[t] :
             i = 1 \/ (i - 1 \in DOMAIN events'[t] /\ events'[t][i - 1] = events[t][i])
      BY <1>6, <1>7
    <3>2. QED
      BY <1>6, <2>1, <3>1
  <2>2. CASE u # t
    BY <1>7, <2>2
  <2>3. QED
    BY <2>1, <2>2
<1>8. /\ ev \in PendingEvents
      /\ \A e \in PendingEvents' : e \in PendingEvents
      /\ \A e \in PendingEvents : e = ev \/ e \in PendingEvents'
  <2>1. ev \in PendingEvents
    BY <1>6 DEF PendingEvents
  <2>2. ASSUME NEW e \in PendingEvents' PROVE e \in PendingEvents
    <3>1. PICK u \in Threads : \E i \in DOMAIN events'[u] : e = events'[u][i]
      BY <2>2 DEF PendingEvents
    <3>2. \E i \in DOMAIN events[u] : e = events[u][i]
      BY <1>i, <3>1
    <3>3. QED
      BY <3>2 DEF PendingEvents
  <2>3. ASSUME NEW e \in PendingEvents PROVE e = ev \/ e \in PendingEvents'
    <3>1. PICK u \in Threads : \E i \in DOMAIN events[u] : e = events[u][i]
      BY <2>3 DEF PendingEvents
    <3>2. e = ev \/ \E i \in DOMAIN events'[u] : e = events'[u][i]
      BY <1>j, <3>1
    <3>3. QED
      BY <3>2 DEF PendingEvents
  <2>4. QED
    BY <2>1, <2>2, <2>3
<1>9. \A e \in PendingEvents :
         /\ alive[e.position] /\ token[e.position] = merged_token
         /\ ~alive[e.right]
         /\ e.left # no_position =>
              /\ e.left # e.position
              /\ alive[e.left] => next[e.left] = e.position
              /\ e.left_token \in V
         /\ e.after # no_position => alive[next[e.position]] /\ e.after_token \in V
         /\ e.after = no_position =>
              /\ book.edge_group[e.right] = no_position
              /\ \A f \in PendingEvents : f.left # e.right
  BY <1>1 DEF IInv, EventsSound, V
<1>10. \A e \in PendingEvents : /\ e.position \in Position /\ e.right \in Position
                                /\ e.left \in Optional(Position) /\ e.after \in Optional(Position)
  <2>1. \A e \in PendingEvents : e \in EventSet
    BY <1>2 DEF PendingEvents
  <2>2. QED
    BY <2>1 DEF EventSet
<1>11. Workable(book, ev, V)
  <2>1. ev.left # ev.position
    BY <1>5, <1>8, <1>9, <1>10
  <2>2. QED
    BY <1>8, <1>9, <1>10, <2>1 DEF Workable
<1>12. /\ Kept(book, book', V)
       /\ phase' = phase \/ phase' = "aborted"
       /\ phase' # "aborted" =>
            \A q \in Position :
               book'.edge_group[q] # no_position =>
                  \/ q = ev.left
                  \/ q = ev.position /\ ev.after # no_position
                  \/ q # ev.position /\ book.edge_group[q] # no_position
  <2>1. Rewire(ev)
    BY <1>t, <1>e
  <2>2. QED
    BY <1>1, <1>2, <1>3, <1>11, <2>1, RewireKept
<1>13. /\ PairsKnown' /\ GroupsSafe' /\ BookTypeOK(book', Position)
       /\ merged_token' = merged_token
  BY <1>1, <1>3, <1>12, RoundKept DEF V
<1>14. TypeOK'
  <2>1. phase' \in {"build", "pop", "walk", "sequential", "surgery", "replay", "done", "aborted"}
    BY <1>1, <1>12
  <2>2. QED
    BY <1>1, <1>4, <1>7, <1>13, <2>1 DEF IInv, TypeOK, chain
<1>15. ChainOrdered' /\ ChainLinked' /\ TokensKnown'
  BY <1>1, ChainKept, TokensKept DEF IInv
<1>16. BuildAhead' /\ WalkCursor'
  BY <1>1, <1>12 DEF BuildAhead, WalkCursor
<1>17. ThreadsOwn'
  BY <1>1, <1>i DEF IInv, ThreadsOwn, Owner
<1>18. ThreadsIdle' /\ HeldFresh'
  BY <1>1, <1>12 DEF IInv, ThreadsIdle, HeldFresh
<1>19. EndsFree'
  <2> SUFFICES ASSUME phase' # "aborted", NEW q \in Position, alive[q], ~alive[next[q]],
                      book'.edge_group[q] # no_position
               PROVE  \E e \in PendingEvents' : e.position = q
    BY <1>1, <1>4 DEF EndsFree, chain
  <2>1. q # ev.left
    BY <1>5, <1>8, <1>9
  <2>2. q # ev.position \/ ev.after = no_position
    BY <1>8, <1>9
  <2>3. q # ev.position /\ book.edge_group[q] # no_position
    BY <1>12, <2>1, <2>2
  <2>4. PICK e \in PendingEvents : e.position = q
    BY <1>1, <2>3 DEF IInv, EndsFree
  <2>5. QED
    BY <1>8, <2>3, <2>4
<1>20. EventsSound'
  <2> SUFFICES ASSUME phase' = "replay", NEW e \in PendingEvents'
               PROVE  /\ alive[e.position] /\ token[e.position] = merged_token
                      /\ ~alive[e.right]
                      /\ e.left # no_position =>
                           /\ e.left # e.position
                           /\ alive[e.left] => next[e.left] = e.position
                           /\ e.left_token \in DOMAIN vocabulary
                      /\ e.after # no_position =>
                           /\ alive[next[e.position]]
                           /\ e.after_token \in DOMAIN vocabulary
                      /\ e.after = no_position =>
                           /\ book'.edge_group[e.right] = no_position
                           /\ \A f \in PendingEvents' : f.left # e.right
    BY <1>1, <1>12, <1>13 DEF EventsSound, chain
  <2>1. e \in PendingEvents
    BY <1>8
  <2>2. ASSUME e.after = no_position PROVE book'.edge_group[e.right] = no_position
    <3>1. e.right # ev.left /\ book.edge_group[e.right] = no_position /\ e.right \in Position
      BY <1>8, <1>9, <1>10, <2>1, <2>2
    <3>2. e.right # ev.position
      BY <1>8, <1>9, <2>1
    <3>3. QED
      BY <1>12, <3>1, <3>2
  <2>3. QED
    BY <1>8, <1>9, <2>1, <2>2 DEF V
<1>21. QED
  BY <1>13, <1>14, <1>15, <1>16, <1>17, <1>18, <1>19, <1>20 DEF IInv

-----------------------------------------------------------------------------
(* The theorems.                                                           *)

LEMMA StutterInv == IInv /\ UNCHANGED vars => IInv'
<1> SUFFICES ASSUME IInv, UNCHANGED vars PROVE IInv'
  OBVIOUS
<1>1. /\ splits' = splits
      /\ UNCHANGED <<token, alive, next, previous, token_count, vocabulary, book, queue, phase,
                     cursor, best, positions, bucket, word, index, held, events,
                     total_frequency>>
  BY DEF vars, chain, thread
<1>2. /\ Position' = Position /\ Optional(Position)' = Optional(Position)
      /\ Occurrence' = Occurrence /\ Optional(Occurrence)' = Optional(Occurrence)
      /\ EventSet' = EventSet /\ PendingEvents' = PendingEvents
  BY <1>1, SetsFixed DEF PendingEvents
<1>3. TypeOK' /\ GroupsSafe'
  BY <1>1, <1>2 DEF IInv, TypeOK, GroupsSafe
<1>4. ChainOrdered' /\ ChainLinked' /\ TokensKnown'
  BY <1>1, <1>2 DEF IInv, ChainOrdered, ChainLinked, TokensKnown
<1>5. PairsKnown'
  BY <1>1 DEF IInv, PairsKnown, InRound, left_token, right_token
<1>6. BuildAhead' /\ WalkCursor'
  BY <1>1, <1>2 DEF IInv, BuildAhead, WalkCursor
<1>7. EndsFree' /\ ThreadsIdle'
  BY <1>1, <1>2 DEF IInv, EndsFree, ThreadsIdle
<1>8. EventsSound'
  BY <1>1, <1>2 DEF IInv, EventsSound, merged_token
<1>9. ThreadsOwn'
  BY <1>1 DEF IInv, ThreadsOwn, Owner
<1>10. HeldFresh'
  BY <1>1 DEF IInv, HeldFresh, pair_is_at, is_live, Neighbours, left_token, right_token
<1>11. QED
  BY <1>3, <1>4, <1>5, <1>6, <1>7, <1>8, <1>9, <1>10 DEF IInv

LEMMA NextInv == IInv /\ [Next]_vars => IInv'
<1> SUFFICES ASSUME IInv, [Next]_vars PROVE IInv'
  OBVIOUS
<1>1. CASE BuildPosition \/ BuildNextWord \/ StartMerging
  BY <1>1, BuildPositionInv, BuildNextWordInv, StartMergingInv
<1>2. CASE PopIneligible \/ PopOutdated \/ PopBest \/ Finish
  BY <1>2, PopIneligibleInv, PopOutdatedInv, PopBestInv, FinishInv
<1>3. CASE WalkList \/ StartRound
  BY <1>3, WalkListInv, StartRoundInv
<1>4. CASE SkipPosition \/ MergePosition
  BY <1>4, SkipPositionInv, MergePositionInv
<1>5. CASE Join \/ ReplayEvent \/ EndRound
  BY <1>5, JoinInv, ReplayEventInv, EndRoundInv
<1>6. CASE \E t \in Team : ThreadStep(t)
  BY <1>6, TakeWordInv, ResolveInv, ApplyInv DEF ThreadStep
<1>7. CASE Terminated \/ UNCHANGED vars
  BY <1>7, StutterInv DEF Terminated
<1>8. QED
  BY <1>1, <1>2, <1>3, <1>4, <1>5, <1>6, <1>7 DEF Next, MainStep

\* IInv holds throughout every run.
THEOREM Inductive == Spec => []IInv
<1>1. QED
  BY InitInv, NextInv, PTL DEF Spec

\* Type correctness: every variable of task2_state and of the merge loop stays in
\* its range whatever the corpus, and remove_edge and get_word_group never index a
\* pair or a group that does not exist.
THEOREM TypeCorrect == Spec => []TypeOK
<1>1. IInv => TypeOK
  BY DEF IInv
<1>2. QED
  BY <1>1, Inductive, PTL

\* The word groups are counted exactly and recycled safely: a group is freed by
\* remove_edge with its last edge and not before, and the free list threaded
\* through group_count never reaches a group in use.
THEOREM GroupsStaySafe == Spec => []GroupsSafe
<1>1. IInv => GroupsSafe
  BY DEF IInv
<1>2. QED
  BY <1>1, Inductive, PTL

\* No thread of the parallel region of process_positions_parallel ever acts on a
\* stale reading of the chain, though none takes a lock: the division of the words
\* by word % threads is enough.
THEOREM NoStaleRead == Spec => []HeldFresh
<1>1. IInv => HeldFresh
  BY DEF IInv
<1>2. QED
  BY <1>1, Inductive, PTL

LEMMA OwnersApart == IInv => WordsNotShared
<1> SUFFICES ASSUME IInv, NEW t \in Threads, NEW u \in Threads, t # u
             PROVE  /\ \A i \in DOMAIN events[t], j \in DOMAIN events[u] :
                          events[t][i].position[1] # events[u][j].position[1]
                    /\ held[t] # no_position /\ held[u] # no_position
                          => held[t].position[1] # held[u].position[1]
  BY DEF WordsNotShared
<1>1. QED
  BY DEF IInv, ThreadsOwn

\* The events of a word are recorded by one thread, in the order they happened, so
\* the replay of the threads one after the other repeats each word's merges in order.
THEOREM WordsStayApart == Spec => []WordsNotShared
<1>1. QED
  BY OwnersApart, Inductive, PTL

-----------------------------------------------------------------------------
(* The chain.                                                              *)

IsEnd(p) == p[2] = Len(splits[p[1]].chars) + 1

\* The sentinel of a word is never alive.
LEMMA EndsDead ==
    ASSUME splits \in Corpora, ChainTyped, ChainOrdered, NEW p \in Position, IsEnd(p)
    PROVE  ~alive[p]
<1> SUFFICES ASSUME alive[p] PROVE FALSE
  OBVIOUS
<1>1. next[p] \in Position /\ next[p][1] = p[1] /\ next[p][2] > p[2]
  BY DEF ChainTyped, ChainOrdered, Optional
<1>2. next[p][2] <= Len(splits[p[1]].chars) + 1 /\ next[p][2] \in Nat /\ p[2] \in Nat
  BY <1>1, PositionsTyped
<1>3. QED
  BY <1>1, <1>2 DEF IsEnd

\* A slot is followed by one slot at most, and follows one at most.
LEMMA FollowsOnce ==
    ASSUME splits \in Corpora, NEW p \in Position, NEW q \in Position, NEW r \in Position
    PROVE  /\ Follows(p, q) /\ Follows(p, r) => q = r
           /\ Follows(p, r) /\ Follows(q, r) => p = q
<1>1. \A x \in Position : /\ x = <<x[1], x[2]>> /\ x[2] \in Nat
                          /\ x[2] <= Len(splits[x[1]].chars) + 1
  BY PositionsTyped
<1>l. \A x \in Position : Len(splits[x[1]].chars) + 1 \in Int
  BY PositionsTyped
<1>2. ASSUME Follows(p, q), Follows(p, r) PROVE q = r
  <2>1. p[1] = q[1] /\ p[1] = r[1]
    BY <1>2 DEF Follows
  <2>2. ASSUME q[2] < r[2] PROVE FALSE
    <3>1. ~alive[q]
      BY <1>2, <2>1, <2>2 DEF Follows
    <3>2. q[2] = Len(splits[r[1]].chars) + 1
      BY <1>2, <2>1, <3>1 DEF Follows
    <3>3. QED
      BY <1>1, <1>l, <2>2, <3>2
  <2>3. ASSUME r[2] < q[2] PROVE FALSE
    <3>1. ~alive[r]
      BY <1>2, <2>1, <2>3 DEF Follows
    <3>2. r[2] = Len(splits[q[1]].chars) + 1
      BY <1>2, <2>1, <3>1 DEF Follows
    <3>3. QED
      BY <1>1, <1>l, <2>3, <3>2
  <2>4. q[2] = r[2]
    BY <1>1, <2>2, <2>3
  <2>5. QED
    BY <1>1, <2>1, <2>4
<1>3. ASSUME Follows(p, r), Follows(q, r) PROVE p = q
  <2>1. p[1] = r[1] /\ q[1] = r[1]
    BY <1>3 DEF Follows
  <2>2. ~(p[2] < q[2])
    BY <1>3, <2>1 DEF Follows
  <2>3. ~(q[2] < p[2])
    BY <1>3, <2>1 DEF Follows
  <2>4. p[2] = q[2]
    BY <1>1, <2>2, <2>3
  <2>5. QED
    BY <1>1, <2>1, <2>4
<1>4. QED
  BY <1>2, <1>3

LEMMA InitChain == Init => ChainIntact
<1> SUFFICES ASSUME Init, NEW p \in Position, NEW q \in Position
             PROVE  /\ Follows(p, q) <=> next[p] = q
                    /\ Follows(p, q) <=> previous[q] = p
  BY DEF ChainIntact
<1> DEFINE L == Len(splits[p[1]].chars)
<1>1. /\ splits \in Corpora
      /\ alive = [x \in Position |-> x[2] <= Len(splits[x[1]].chars)]
      /\ next = [x \in Position |-> IF x[2] <= Len(splits[x[1]].chars)
                                    THEN <<x[1], x[2] + 1>> ELSE no_position]
      /\ previous = [x \in Position |-> IF x[2] = 1 THEN no_position
                                        ELSE <<x[1], x[2] - 1>>]
  BY DEF Init, InitInput
<1>2. /\ no_position \notin Position
      /\ \A x \in Position : x = <<x[1], x[2]>> /\ x[2] \in Nat \ {0}
                             /\ x[2] <= Len(splits[x[1]].chars) + 1
                             /\ x[1] \in DOMAIN splits
      /\ \A w, i : <<w, i>> \in Position <=> /\ w \in DOMAIN splits
                                             /\ i \in 1..(Len(splits[w].chars) + 1)
  BY <1>1, PositionsTyped
<1>l. L \in Nat
  BY <1>1, PositionsTyped
<1>a. \A x \in Position : alive[x] <=> x[2] <= Len(splits[x[1]].chars)
  BY <1>1
<1>3. Follows(p, q) <=> p[1] = q[1] /\ p[2] <= L /\ q[2] = p[2] + 1
  <2>1. ASSUME p[1] = q[1], p[2] <= L, q[2] = p[2] + 1 PROVE Follows(p, q)
    <3>1. alive[p] /\ (alive[q] \/ q[2] = Len(splits[q[1]].chars) + 1)
      BY <1>2, <1>l, <1>a, <2>1
    <3>2. \A r \in Position : ~(p[2] < r[2] /\ r[2] < q[2])
      BY <1>2, <2>1
    <3>3. QED
      BY <1>2, <2>1, <3>1, <3>2 DEF Follows
  <2>2. ASSUME Follows(p, q) PROVE p[1] = q[1] /\ p[2] <= L /\ q[2] = p[2] + 1
    <3>1. p[1] = q[1] /\ p[2] <= L /\ p[2] < q[2]
      BY <1>a, <2>2 DEF Follows
    <3> DEFINE r == <<p[1], p[2] + 1>>
    <3>2. r \in Position /\ r[1] = p[1] /\ r[2] = p[2] + 1
      BY <1>2, <1>l, <3>1
    <3>3. ASSUME r[2] < q[2] PROVE FALSE
      <4>1. alive[r]
        <5>1. q[2] <= L + 1
          BY <1>2, <3>1
        <5>2. r[2] <= Len(splits[r[1]].chars)
          BY <1>2, <1>l, <3>1, <3>2, <3>3, <5>1
        <5> HIDE DEF r
        <5>3. QED
          BY <1>a, <3>2, <5>2
      <4>2. QED
        BY <1>2, <2>2, <3>2, <3>3, <4>1 DEF Follows
    <3>4. QED
      BY <1>2, <3>1, <3>2, <3>3
  <2>3. QED
    BY <2>1, <2>2
<1>4. next[p] = q <=> p[1] = q[1] /\ p[2] <= L /\ q[2] = p[2] + 1
  <2>1. next[p] = IF p[2] <= L THEN <<p[1], p[2] + 1>> ELSE no_position
    BY <1>1
  <2>2. <<p[1], p[2] + 1>> = q <=> p[1] = q[1] /\ q[2] = p[2] + 1
    BY <1>2
  <2>3. QED
    BY <1>2, <2>1, <2>2
<1>5. previous[q] = p <=> p[1] = q[1] /\ p[2] <= L /\ q[2] = p[2] + 1
  <2>1. previous[q] = IF q[2] = 1 THEN no_position ELSE <<q[1], q[2] - 1>>
    BY <1>1
  <2>2. <<q[1], q[2] - 1>> = p <=> p[1] = q[1] /\ q[2] = p[2] + 1
    BY <1>2
  <2>3. p[1] = q[1] => q[2] <= L + 1
    BY <1>2
  <2>4. QED
    BY <1>2, <1>l, <2>1, <2>2, <2>3
<1>6. QED
  BY <1>3, <1>4, <1>5

\* The merge of an occurrence leaves the rest of the chain as it was, and joins the
\* slots on both sides of the one it takes out.
LEMMA SpliceChain ==
    ASSUME splits \in Corpora, splits' = splits, ChainTyped, ChainOrdered, ChainLinked, ChainIntact,
           NEW p \in Position, alive[p], alive[next[p]], NEW n, n = Neighbours(p),
           NEW merged \in Nat, Splice(n, merged)
    PROVE  ChainIntact'
<1> DEFINE right == n.right
           after == n.after
<1>1. /\ right = next[p] /\ right \in Position /\ alive[right] /\ right # p
      /\ after = next[right] /\ after \in Position /\ after # p /\ after # right
  BY NeighbourFacts
<1>2. \A q \in Position :
         /\ alive'[q] <=> q # right /\ alive[q]
         /\ next'[q] = IF q = p THEN after ELSE IF q = right THEN no_position ELSE next[q]
         /\ previous'[q] = IF q = right THEN no_position ELSE IF q = after THEN p ELSE previous[q]
  BY SpliceFacts DEF Spliced
<1>3. Position' = Position /\ no_position \notin Position /\ ~IsEnd(right)
  BY <1>1, PositionsFixed, PositionsTyped, EndsDead
<1>4. \A x, y \in Position : /\ Follows(x, y) <=> next[x] = y
                             /\ Follows(x, y) <=> previous[y] = x
  BY DEF ChainIntact
<1> HIDE DEF right, after
<1>5. Follows(p, right) /\ Follows(right, after)
  BY <1>1, <1>4
<1>6. \A x \in Position : x = <<x[1], x[2]>> /\ x[2] \in Nat
  BY PositionsTyped
<1>7. \A x, y \in Position :
         Follows(x, y)' <=> /\ alive'[x] /\ x[1] = y[1] /\ x[2] < y[2]
                            /\ alive'[y] \/ IsEnd(y)
                            /\ \A r \in Position : r[1] = x[1] /\ x[2] < r[2] /\ r[2] < y[2] => ~alive'[r]
  BY <1>3 DEF Follows, IsEnd
<1>8. \A x, y \in Position :
         Follows(x, y) <=> /\ alive[x] /\ x[1] = y[1] /\ x[2] < y[2]
                           /\ alive[y] \/ IsEnd(y)
                           /\ \A r \in Position : r[1] = x[1] /\ x[2] < r[2] /\ r[2] < y[2] => ~alive[r]
  BY DEF Follows, IsEnd
\* From slots other than the two of the occurrence.
<1>9. ASSUME NEW x \in Position, NEW y \in Position, x # p, x # right
      PROVE  Follows(x, y)' <=> Follows(x, y)
  <2>1. ASSUME Follows(x, y) PROVE Follows(x, y)'
    <3>1. y # right
      BY <1>1, <1>5, <1>9, <2>1, FollowsOnce
    <3>2. QED
      BY <1>2, <1>7, <1>8, <1>9, <2>1, <3>1
  <2>2. ASSUME Follows(x, y)' PROVE Follows(x, y)
    <3>1. /\ alive[x] /\ x[1] = y[1] /\ x[2] < y[2]
          /\ alive[y] \/ IsEnd(y)
          /\ \A r \in Position : r[1] = x[1] /\ x[2] < r[2] /\ r[2] < y[2] /\ r # right => ~alive[r]
      BY <1>2, <1>7, <2>2
    <3>2. ~(right[1] = x[1] /\ x[2] < right[2] /\ right[2] < y[2])
      <4> SUFFICES ASSUME right[1] = x[1], x[2] < right[2], right[2] < y[2] PROVE FALSE
        OBVIOUS
      <4>1. alive[p] /\ p[1] = x[1] /\ p[2] < right[2] /\ p # right
        BY <1>1, <1>5, <1>8
      <4>2. ~(x[2] < p[2])
        BY <1>1, <1>6, <3>1, <4>1
      <4>3. x[2] # p[2]
        BY <1>6, <1>9, <4>1
      <4>4. p[2] < x[2]
        BY <1>6, <4>2, <4>3
      <4>5. QED
        BY <1>1, <1>5, <1>8, <3>1, <4>1, <4>4
    <3>3. QED
      BY <1>8, <3>1, <3>2
  <2>3. QED
    BY <2>1, <2>2
<1>10. Follows(p, after)'
  <2>1. alive'[p] /\ p[1] = after[1] /\ p[2] < after[2]
    BY <1>1, <1>2, <1>5, <1>6, <1>8
  <2>2. alive'[after] \/ IsEnd(after)
    BY <1>1, <1>2, <1>5, <1>8
  <2>3. ASSUME NEW r \in Position, r[1] = p[1], p[2] < r[2], r[2] < after[2] PROVE ~alive'[r]
    <3>1. CASE r[2] < right[2]
      BY <1>1, <1>2, <1>5, <1>8, <2>3, <3>1
    <3>2. CASE r[2] = right[2]
      <4>1. r = right
        BY <1>1, <1>5, <1>6, <1>8, <2>3, <3>2
      <4>2. QED
        BY <1>2, <4>1
    <3>3. CASE right[2] < r[2]
      BY <1>1, <1>2, <1>5, <1>8, <2>3, <3>3
    <3>4. QED
      BY <1>1, <1>6, <3>1, <3>2, <3>3
  <2>4. QED
    BY <1>1, <1>7, <2>1, <2>2, <2>3
<1>11. \A x \in Position : /\ Follows(p, x)' => x = after
                           /\ Follows(x, after)' => x = p
  <2>1. ASSUME NEW x \in Position, Follows(p, x)' PROVE x = after
    <3>1. x[1] = after[1] /\ x[2] \in Nat /\ after[2] \in Nat
      BY <1>1, <1>6, <1>7, <1>10, <2>1
    <3>2. ASSUME x[2] < after[2] PROVE FALSE
      <4>1. IsEnd(x)
        BY <1>1, <1>7, <1>10, <2>1, <3>2
      <4>2. after[2] <= Len(splits[after[1]].chars) + 1 /\ Len(splits[after[1]].chars) \in Nat
        BY <1>1, <2>1, PositionsTyped
      <4>3. x[2] = Len(splits[after[1]].chars) + 1
        BY <3>1, <4>1 DEF IsEnd
      <4>4. QED
        BY <3>1, <3>2, <4>2, <4>3
    <3>3. ASSUME after[2] < x[2] PROVE FALSE
      <4>1. IsEnd(after)
        BY <1>1, <1>7, <1>10, <2>1, <3>3
      <4>2. x[2] <= Len(splits[x[1]].chars) + 1 /\ Len(splits[x[1]].chars) \in Nat
        BY <1>1, <2>1, PositionsTyped
      <4>3. after[2] = Len(splits[x[1]].chars) + 1
        BY <3>1, <4>1 DEF IsEnd
      <4>4. QED
        BY <3>1, <3>3, <4>2, <4>3
    <3>4. x[2] = after[2]
      BY <3>1, <3>2, <3>3
    <3>5. QED
      BY <1>1, <1>6, <3>1, <3>4
  <2>2. ASSUME NEW x \in Position, Follows(x, after)' PROVE x = p
    <3>1. x[1] = p[1] /\ x[2] \in Nat /\ p[2] \in Nat
      BY <1>1, <1>6, <1>7, <1>10, <2>2
    <3>2. ~(x[2] < p[2])
      BY <1>1, <1>7, <1>10, <2>2
    <3>3. ~(p[2] < x[2])
      BY <1>1, <1>7, <1>10, <2>2
    <3>4. QED
      BY <1>6, <3>1, <3>2, <3>3
  <2>3. QED
    BY <2>1, <2>2
<1>12. ASSUME NEW x \in Position, NEW y \in Position
       PROVE  (Follows(x, y)' <=> next'[x] = y) /\ (Follows(x, y)' <=> previous'[y] = x)
  <2>1. ~Follows(right, y)' /\ ~Follows(x, right)'
    BY <1>1, <1>2, <1>3, <1>7
  <2>2. Follows(x, y)' <=> next'[x] = y
    <3>1. CASE x = p
      BY <1>1, <1>2, <1>10, <1>11, <1>12, <3>1
    <3>2. CASE x = right
      BY <1>1, <1>2, <1>3, <1>12, <2>1, <3>2
    <3>3. CASE x # p /\ x # right
      BY <1>2, <1>4, <1>9, <1>12, <3>3
    <3>4. QED
      BY <3>1, <3>2, <3>3
  <2>3. CASE y = right \/ y = after
    <3>1. Follows(x, y)' <=> previous'[y] = x
      <4>1. CASE y = right
        BY <1>1, <1>2, <1>3, <1>12, <2>1, <4>1
      <4>2. CASE y = after
        <5>1. previous'[y] = p
          BY <1>1, <1>2, <4>2
        <5>2. Follows(x, y)' <=> x = p
          BY <1>10, <1>11, <1>12, <4>2
        <5>3. QED
          BY <5>1, <5>2
      <4>3. QED
        BY <2>3, <4>1, <4>2
    <3>2. QED
      BY <2>2, <3>1
  <2>4. CASE y # right /\ y # after
    <3>1. previous'[y] = previous[y]
      BY <1>2, <2>4
    <3>2. Follows(x, y)' <=> Follows(x, y)
      <4>1. CASE x = p
        BY <1>1, <1>4, <1>11, <2>4, <4>1
      <4>2. CASE x = right
        BY <1>1, <1>4, <2>1, <2>4, <4>2
      <4>3. QED
        BY <1>9, <4>1, <4>2
    <3>3. QED
      BY <1>4, <2>2, <3>1, <3>2
  <2>5. QED
    BY <2>2, <2>3, <2>4
<1>13. QED
  BY <1>3, <1>12 DEF ChainIntact

\* Every step that leaves the slots alone leaves the chain as it is.
LEMMA SameChain ==
    ASSUME splits' = splits, UNCHANGED chain, ChainIntact
    PROVE  ChainIntact'
<1>1. Position' = Position
  BY PositionsFixed
<1>2. \A p, q \in Position : Follows(p, q)' <=> Follows(p, q)
  BY <1>1 DEF Follows, chain
<1>3. QED
  BY <1>1, <1>2 DEF ChainIntact, chain

LEMMA MergePositionChain == IInv /\ ChainIntact /\ MergePosition => ChainIntact'
<1> SUFFICES ASSUME IInv, ChainIntact, MergePosition PROVE ChainIntact'
  OBVIOUS
<1>p. PICK p : p = Head(positions)
  OBVIOUS
<1>n. PICK n : n = Neighbours(p)
  OBVIOUS
<1>1. /\ splits' = splits /\ phase = "sequential" /\ positions # << >>
      /\ pair_is_at(p, left_token, right_token) /\ Splice(n, merged_token)
  BY <1>p, <1>n DEF MergePosition
<1>2. p \in Position /\ alive[p] /\ alive[next[p]]
  BY <1>1, <1>p DEF IInv, TypeOK, pair_is_at, is_live
<1>3. merged_token \in Nat
  BY <1>1, InvFacts DEF IInv, PairsKnown, InRound, merged_token
<1>4. splits \in Corpora /\ ChainTyped /\ ChainOrdered /\ ChainLinked
  BY InvFacts DEF IInv
<1>5. QED
  BY <1>1, <1>2, <1>3, <1>4, <1>n, SpliceChain

LEMMA ApplyChain ==
    ASSUME IInv, ChainIntact, NEW t \in Team, Apply(t) PROVE ChainIntact'
<1>n. PICK n : n = held[t]
  OBVIOUS
<1>p. PICK p : p = n.position
  OBVIOUS
<1>1. splits' = splits /\ phase = "surgery" /\ n # no_position /\ Splice(n, merged_token)
  BY <1>n DEF Apply
<1>2. t \in Threads /\ held \in [Threads -> Optional(Occurrence)]
  BY ThreadAssumption DEF IInv, TypeOK
<1>3. n \in Occurrence
  BY <1>1, <1>2, <1>n DEF Optional
<1>4. p \in Position
  BY <1>3, <1>p DEF Occurrence
<1>5. pair_is_at(p, left_token, right_token) /\ n = Neighbours(p)
  BY <1>1, <1>2, <1>n, <1>p DEF IInv, HeldFresh
<1>6. alive[p] /\ alive[next[p]]
  BY <1>5 DEF pair_is_at, is_live
<1>7. merged_token \in Nat
  BY <1>1, InvFacts DEF IInv, PairsKnown, InRound, merged_token
<1>8. splits \in Corpora /\ ChainTyped /\ ChainOrdered /\ ChainLinked
  BY InvFacts DEF IInv
<1>9. QED
  BY <1>1, <1>4, <1>5, <1>6, <1>7, <1>8, SpliceChain

LEMMA NextChain == IInv /\ ChainIntact /\ [Next]_vars => ChainIntact'
<1> SUFFICES ASSUME IInv, ChainIntact, [Next]_vars PROVE ChainIntact'
  OBVIOUS
<1>1. CASE BuildPosition \/ BuildNextWord \/ StartMerging
  <2>1. splits' = splits /\ UNCHANGED chain
    BY <1>1 DEF BuildPosition, BuildNextWord, StartMerging
  <2>2. QED
    BY <2>1, SameChain
<1>2. CASE PopIneligible \/ PopOutdated \/ PopBest \/ Finish
  <2>1. splits' = splits /\ UNCHANGED chain
    BY <1>2 DEF PopIneligible, PopOutdated, PopBest, Finish
  <2>2. QED
    BY <2>1, SameChain
<1>3. CASE WalkList \/ StartRound \/ SkipPosition
  <2>1. splits' = splits /\ UNCHANGED chain
    BY <1>3 DEF WalkList, StartRound, SkipPosition
  <2>2. QED
    BY <2>1, SameChain
<1>4. CASE MergePosition
  BY <1>4, MergePositionChain
<1>5. CASE Join \/ ReplayEvent \/ EndRound
  <2>1. splits' = splits /\ UNCHANGED chain
    BY <1>5 DEF Join, ReplayEvent, EndRound
  <2>2. QED
    BY <2>1, SameChain
<1>6. CASE \E t \in Team : TakeWord(t) \/ Resolve(t)
  <2>1. splits' = splits /\ UNCHANGED chain
    BY <1>6 DEF TakeWord, Resolve
  <2>2. QED
    BY <2>1, SameChain
<1>7. CASE \E t \in Team : Apply(t)
  BY <1>7, ApplyChain
<1>8. CASE Terminated \/ UNCHANGED vars
  <2>1. splits' = splits /\ UNCHANGED chain
    BY <1>8 DEF Terminated, vars, chain
  <2>2. QED
    BY <2>1, SameChain
<1>9. QED
  BY <1>1, <1>2, <1>3, <1>4, <1>5, <1>6, <1>7, <1>8 DEF Next, MainStep, ThreadStep

\* Under every interleaving of the threads of process_positions_parallel, and in the
\* sequential loop, next leads from each live slot to the next live slot of its word
\* and previous leads back: no slot is lost and none that was taken out comes back.
THEOREM ChainStaysIntact == Spec => []ChainIntact
<1>1. QED
  BY Inductive, InitChain, NextChain, PTL DEF Spec

-----------------------------------------------------------------------------
(* The counts of the pairs, one operation of the registry at a time.       *)

Newborn(b, s) == \E i \in DOMAIN b.born : b.born[i] = s

Stamps(b) == b.left_cache \cup b.right_cache \cup b.same_cache

\* The stamps of the round of token merged name pairs born in it; all others are
\* of earlier rounds.
StampsSound(b, merged) ==
    \A e \in Stamps(b) : e.stamp <= merged /\ (e.stamp = merged => Newborn(b, e.state))

\* From b to c pairs may be born, and only newborn ones have gained occurrences.
Grows(b, c) ==
    /\ DOMAIN b.pairs \subseteq DOMAIN c.pairs
    /\ \A s : Newborn(b, s) => Newborn(c, s)
    /\ \A s \in DOMAIN b.pairs :
          /\ Newborn(c, s) => Newborn(b, s)
          /\ c.pairs[s].count <= b.pairs[s].count \/ Newborn(b, s)

LEMMA CountsTyped ==
    ASSUME NEW P, NEW b, BookTypeOK(b, P)
    PROVE  /\ DOMAIN b.pairs = 1..Len(b.pairs) /\ Len(b.pairs) \in Nat
           /\ \A s \in DOMAIN b.pairs : b.pairs[s].count \in Nat
<1>1. b.pairs \in Seq(Pair(P))
  BY DEF BookTypeOK
<1>2. \A s \in DOMAIN b.pairs : b.pairs[s].count \in Nat
  BY PairUpdate DEF Pair
<1>3. QED
  BY <1>1, <1>2

LEMMA GrowsTwice ==
    ASSUME NEW P, NEW b, NEW c, NEW d, BookTypeOK(b, P), BookTypeOK(c, P), BookTypeOK(d, P),
           Grows(b, c), Grows(c, d)
    PROVE  Grows(b, d)
<1>1. ASSUME NEW s \in DOMAIN b.pairs, ~Newborn(b, s) PROVE d.pairs[s].count <= b.pairs[s].count
  <2>1. /\ s \in DOMAIN c.pairs /\ s \in DOMAIN d.pairs /\ ~Newborn(c, s)
        /\ c.pairs[s].count <= b.pairs[s].count /\ d.pairs[s].count <= c.pairs[s].count
    BY <1>1 DEF Grows
  <2>2. b.pairs[s].count \in Nat /\ c.pairs[s].count \in Nat /\ d.pairs[s].count \in Nat
    BY <1>1, <2>1, CountsTyped
  <2>3. QED
    BY <2>1, <2>2
<1>2. QED
  BY <1>1 DEF Grows

LEMMA GrowsNot ==
    ASSUME NEW P, NEW b, BookTypeOK(b, P)
    PROVE  Grows(b, b)
BY CountsTyped DEF Grows

LEMMA StampsKept ==
    ASSUME NEW b, NEW c, SameStamps(b, c), NEW merged, StampsSound(b, merged)
    PROVE  StampsSound(c, merged)
BY DEF SameStamps, StampsSound, Stamps, Newborn

LEMMA RemoveGrows ==
    ASSUME splits \in Corpora, NEW b, BookOK(b, Position), NEW start \in Position, NEW f \in Nat,
           NEW merged, StampsSound(b, merged)
    PROVE  LET c == remove_edge(b, start, f) IN Grows(b, c) /\ StampsSound(c, merged)
<1> DEFINE c == remove_edge(b, start, f)
<1>f. IsFiniteSet(Position)
  BY PositionsFinite
<1>1. /\ DOMAIN c.pairs = DOMAIN b.pairs /\ SameStamps(b, c)
      /\ \A s \in DOMAIN b.pairs : c.pairs[s].count <= b.pairs[s].count
  <2> DEFINE P == Position
  <2>1. IsFiniteSet(P) /\ BookOK(b, P) /\ start \in P
    BY <1>f
  <2> HIDE DEF P
  <2>2. /\ BookOK(c, P)
        /\ DOMAIN c.pairs = DOMAIN b.pairs
        /\ \A s \in DOMAIN b.pairs : c.pairs[s].key = b.pairs[s].key
        /\ b.aborted => c.aborted
        /\ \/ c.aborted /\ c.edge_group = b.edge_group
           \/ c.edge_group = [b.edge_group EXCEPT ![start] = no_position]
        /\ SameStamps(b, c)
        /\ \A s \in DOMAIN b.pairs : c.pairs[s].count <= b.pairs[s].count
    BY <2>1, RemoveEdge, Zenon
  <2>3. QED
    BY <2>2
<1> HIDE DEF c
<1>2. Grows(b, c)
  BY <1>1 DEF Grows, SameStamps, Newborn
<1>3. StampsSound(c, merged)
  BY <1>1, StampsKept
<1>4. QED
  BY <1>2, <1>3 DEF c

LEMMA AddGrows ==
    ASSUME splits \in Corpora, NEW b, BookOK(b, Position),
           NEW start \in Position, b.edge_group[start] = no_position,
           NEW s \in DOMAIN b.pairs, Newborn(b, s), NEW w \in Nat, NEW f \in Nat,
           NEW merged, StampsSound(b, merged)
    PROVE  LET c == add_edge(b, start, s, w, f) IN Grows(b, c) /\ StampsSound(c, merged)
<1> DEFINE c == add_edge(b, start, s, w, f)
<1>f. IsFiniteSet(Position)
  BY PositionsFinite
<1>1. /\ DOMAIN c.pairs = DOMAIN b.pairs /\ SameStamps(b, c)
      /\ \A k \in DOMAIN b.pairs \ {s} : c.pairs[k].count = b.pairs[k].count
  BY <1>f, AddEdge
<1>2. \A k \in DOMAIN b.pairs : b.pairs[k].count \in Nat
  BY CountsTyped DEF BookOK
<1> HIDE DEF c
<1>3. Grows(b, c)
  BY <1>1, <1>2 DEF Grows, SameStamps, Newborn
<1>4. StampsSound(c, merged)
  BY <1>1, StampsKept
<1>5. QED
  BY <1>3, <1>4 DEF c

\* What a get_ operator does to the counts: nothing, and its pair is a newborn one.
GetsNewborn(b, g, merged) ==
    Grows(b, g.book) /\ StampsSound(g.book, merged) /\ Newborn(g.book, g.state)

LEMMA HitIsNewborn ==
    ASSUME NEW P, NEW b, BookTypeOK(b, P), NEW merged, StampsSound(b, merged),
           NEW cache \in SUBSET Stamps(b), NEW name, Hits(cache, name, merged) # {}
    PROVE  GetsNewborn(b, [book |-> b, state |-> Found(Hits(cache, name, merged))], merged)
<1> DEFINE e == CHOOSE c \in Hits(cache, name, merged) : TRUE
<1>1. e \in Hits(cache, name, merged)
  OBVIOUS
<1>2. e \in Stamps(b) /\ e.stamp = merged
  BY <1>1 DEF Hits
<1> HIDE DEF e
<1>3. Newborn(b, e.state)
  BY <1>2 DEF StampsSound
<1>4. Found(Hits(cache, name, merged)) = e.state
  BY DEF Found, e
<1>5. QED
  BY <1>3, <1>4, GrowsNot DEF GetsNewborn

LEMMA BornIsNewborn ==
    ASSUME NEW P, NEW b, BookOK(b, P), NEW merged \in Nat, StampsSound(b, merged),
           NEW key, NEW name, NEW cache \in SUBSET Stamps(b), NEW c,
           LET x == Stamped(cache, name, merged, Len(b.pairs) + 1)
               a == create_pair_state(b, key)
           IN  c \in {[a EXCEPT !.left_cache = x], [a EXCEPT !.right_cache = x],
                      [a EXCEPT !.same_cache = x]}
    PROVE  GetsNewborn(b, [book |-> c, state |-> Len(b.pairs) + 1], merged)
<1> DEFINE s  == Len(b.pairs) + 1
           x  == Stamped(cache, name, merged, s)
           pr == Append(b.pairs, NewPair(key))
           bn == Append(b.born, s)
           a  == [b EXCEPT !.pairs = pr, !.born = bn]
<1>1. /\ b.pairs \in Seq(Pair(P)) /\ b.born \in Seq(Nat) /\ s \in Nat
      /\ \A i \in DOMAIN b.born : b.born[i] \in DOMAIN b.pairs
  BY DEF BookOK, BookTypeOK, GroupsSound, IdsInRange
<1>2. /\ DOMAIN b.pairs \subseteq DOMAIN pr /\ \A k \in DOMAIN b.pairs : pr[k] = b.pairs[k]
      /\ s \notin DOMAIN b.pairs
  BY <1>1
<1>3. \A k : (\E i \in DOMAIN bn : bn[i] = k) <=> k = s \/ Newborn(b, k)
  <2>1. /\ DOMAIN bn = DOMAIN b.born \cup {Len(b.born) + 1}
        /\ bn[Len(b.born) + 1] = s
        /\ \A i \in DOMAIN b.born : bn[i] = b.born[i]
    BY <1>1
  <2> HIDE DEF bn, s
  <2>2. QED
    BY <2>1 DEF Newborn
<1>4. create_pair_state(b, key) = a
  BY DEF create_pair_state
<1>5. c \in {[a EXCEPT !.left_cache = x], [a EXCEPT !.right_cache = x], [a EXCEPT !.same_cache = x]}
  BY <1>4
<1> HIDE DEF x, pr, bn
<1>6. c.pairs = pr /\ c.born = bn /\ Stamps(c) \subseteq Stamps(b) \cup x
  BY <1>5 DEF BookOK, BookTypeOK, Stamps
<1>7. \A k : Newborn(c, k) <=> k = s \/ Newborn(b, k)
  BY <1>3, <1>6 DEF Newborn
<1> HIDE DEF a, s
<1>8. Grows(b, c)
  <2>1. \A k \in DOMAIN b.pairs : b.pairs[k].count \in Nat
    BY CountsTyped DEF BookOK
  <2>2. QED
    BY <1>2, <1>6, <1>7, <2>1 DEF Grows
<1>9. StampsSound(c, merged)
  <2>1. \A e \in x : e \in Stamps(b) \/ (e.stamp = merged /\ e.state = s)
    BY DEF x, Stamped
  <2>2. QED
    BY <1>6, <1>7, <2>1 DEF StampsSound
<1>10. QED
  BY <1>7, <1>8, <1>9 DEF GetsNewborn, s

LEMMA SameNewborn ==
    ASSUME NEW P, NEW b, BookOK(b, P), NEW merged \in Nat, StampsSound(b, merged)
    PROVE  GetsNewborn(b, get_same_pair_state(b, merged), merged)
<1>1. b.same_cache \in SUBSET Stamps(b) /\ {} \in SUBSET Stamps(b)
  BY DEF Stamps
<1>2. CASE Hits(b.same_cache, merged, merged) # {}
  BY <1>1, <1>2, HitIsNewborn DEF get_same_pair_state, BookOK
<1>3. CASE Hits(b.same_cache, merged, merged) = {}
  <2> DEFINE c == [create_pair_state(b, <<merged, merged>>) EXCEPT
                     !.same_cache = Stamped({}, merged, merged, Len(b.pairs) + 1)]
  <2>1. get_same_pair_state(b, merged) = [book |-> c, state |-> Len(b.pairs) + 1]
    BY <1>3 DEF get_same_pair_state
  <2>2. GetsNewborn(b, [book |-> c, state |-> Len(b.pairs) + 1], merged)
    BY <1>1, BornIsNewborn
  <2>3. QED
    BY <2>1, <2>2
<1>4. QED
  BY <1>2, <1>3

LEMMA LeftNewborn ==
    ASSUME NEW P, NEW b, BookOK(b, P), NEW left, NEW merged \in Nat, StampsSound(b, merged)
    PROVE  GetsNewborn(b, get_left_pair_state(b, left, merged), merged)
<1>1. b.left_cache \in SUBSET Stamps(b)
  BY DEF Stamps
<1>2. CASE left = merged
  BY <1>2, SameNewborn DEF get_left_pair_state
<1>3. CASE left # merged /\ Hits(b.left_cache, left, merged) # {}
  BY <1>1, <1>3, HitIsNewborn DEF get_left_pair_state, BookOK
<1>4. CASE left # merged /\ Hits(b.left_cache, left, merged) = {}
  <2> DEFINE d == [create_pair_state(b, <<left, merged>>) EXCEPT
                     !.left_cache = Stamped(b.left_cache, left, merged, Len(b.pairs) + 1)]
  <2>1. create_pair_state(b, <<left, merged>>).left_cache = b.left_cache
    BY DEF create_pair_state, BookOK, BookTypeOK
  <2>2. get_left_pair_state(b, left, merged) = [book |-> d, state |-> Len(b.pairs) + 1]
    BY <1>4, <2>1 DEF get_left_pair_state
  <2>3. GetsNewborn(b, [book |-> d, state |-> Len(b.pairs) + 1], merged)
    BY <1>1, BornIsNewborn
  <2>4. QED
    BY <2>2, <2>3
<1>5. QED
  BY <1>2, <1>3, <1>4

LEMMA RightNewborn ==
    ASSUME NEW P, NEW b, BookOK(b, P), NEW merged \in Nat, NEW right, StampsSound(b, merged)
    PROVE  GetsNewborn(b, get_right_pair_state(b, merged, right), merged)
<1>1. b.right_cache \in SUBSET Stamps(b)
  BY DEF Stamps
<1>2. CASE right = merged
  BY <1>2, SameNewborn DEF get_right_pair_state
<1>3. CASE right # merged /\ Hits(b.right_cache, right, merged) # {}
  BY <1>1, <1>3, HitIsNewborn DEF get_right_pair_state, BookOK
<1>4. CASE right # merged /\ Hits(b.right_cache, right, merged) = {}
  <2> DEFINE d == [create_pair_state(b, <<merged, right>>) EXCEPT
                     !.right_cache = Stamped(b.right_cache, right, merged, Len(b.pairs) + 1)]
  <2>1. create_pair_state(b, <<merged, right>>).right_cache = b.right_cache
    BY DEF create_pair_state, BookOK, BookTypeOK
  <2>2. get_right_pair_state(b, merged, right) = [book |-> d, state |-> Len(b.pairs) + 1]
    BY <1>4, <2>1 DEF get_right_pair_state
  <2>3. GetsNewborn(b, [book |-> d, state |-> Len(b.pairs) + 1], merged)
    BY <1>1, BornIsNewborn
  <2>4. QED
    BY <2>2, <2>3
<1>5. QED
  BY <1>2, <1>3, <1>4

-----------------------------------------------------------------------------
(* The counts of the pairs, one occurrence at a time.                      *)

\* The book c follows b in a round: it is sound, and only newborn pairs have grown.
Ages(b, c, V, merged) == Kept(b, c, V) /\ Grows(b, c) /\ StampsSound(c, merged)

LEMMA AgesTwice ==
    ASSUME NEW V, NEW merged, NEW b, BookOK(b, Position), NEW c, NEW d,
           Ages(b, c, V, merged), Ages(c, d, V, merged)
    PROVE  Ages(b, d, V, merged)
<1>1. BookTypeOK(b, Position) /\ BookTypeOK(c, Position) /\ BookTypeOK(d, Position)
  BY DEF Ages, Kept, BookOK
<1>2. Grows(b, d)
  BY <1>1, GrowsTwice DEF Ages
<1>3. QED
  BY <1>2, KeptTwice DEF Ages

LEMMA RemoveAges ==
    ASSUME splits \in Corpora, NEW b, BookOK(b, Position), NEW V, KeysIn(b, V),
           NEW start \in Position, NEW f \in Nat, NEW merged, StampsSound(b, merged)
    PROVE  LET c == remove_edge(b, start, f)
           IN  /\ Ages(b, c, V, merged)
               /\ \A p \in Position : c.edge_group[p] \in {no_position, b.edge_group[p]}
<1> DEFINE c == remove_edge(b, start, f)
<1>1. Kept(b, c, V) /\ \A p \in Position : c.edge_group[p] \in {no_position, b.edge_group[p]}
  BY RemoveKept
<1>2. Grows(b, c) /\ StampsSound(c, merged)
  BY RemoveGrows
<1> HIDE DEF c
<1>3. QED
  BY <1>1, <1>2 DEF Ages, c

LEMMA RemoveEdgesAges ==
    ASSUME splits \in Corpora, NEW b, BookOK(b, Position), NEW V, KeysIn(b, V),
           NEW ev, Workable(b, ev, V), NEW merged, StampsSound(b, merged)
    PROVE  Ages(b, RemoveEdges(b, ev), V, merged)
<1> DEFINE f  == Frequency(ev.position)
           b1 == IF ev.left = no_position THEN b ELSE remove_edge(b, ev.left, f)
           b2 == remove_edge(b1, ev.position, f)
           b3 == remove_edge(b2, ev.right, f)
           z  == [b2 EXCEPT !.edge_group[ev.right] = no_position]
           c  == RemoveEdges(b, ev)
<1>1. f \in Nat /\ ev.position \in Position /\ ev.right \in Position
  BY PositionsTyped DEF Workable
<1>2. c = IF ev.after = no_position THEN z ELSE b3
  BY DEF RemoveEdges
<1> HIDE DEF f, c
<1>3. Ages(b, b1, V, merged) /\ \A p \in Position : b1.edge_group[p] \in {no_position, b.edge_group[p]}
  <2>1. CASE ev.left = no_position
    <3>1. b1 = b
      BY <2>1
    <3> HIDE DEF b1
    <3>2. Grows(b, b)
      BY GrowsNot DEF BookOK
    <3>3. QED
      BY <3>1, <3>2 DEF Ages, Kept
  <2>2. CASE ev.left # no_position
    <3>1. b1 = remove_edge(b, ev.left, f) /\ ev.left \in Position
      BY <2>2 DEF Workable, Optional
    <3> HIDE DEF b1
    <3>2. QED
      BY <1>1, <3>1, RemoveAges
  <2>3. QED
    BY <2>1, <2>2
<1> HIDE DEF b1
<1>4. /\ BookOK(b1, Position) /\ KeysIn(b1, V) /\ StampsSound(b1, merged)
  BY <1>3 DEF Ages, Kept
<1>5. Ages(b1, b2, V, merged) /\ \A p \in Position : b2.edge_group[p] \in {no_position, b1.edge_group[p]}
  BY <1>1, <1>4, RemoveAges
<1> HIDE DEF b2
<1>6. Ages(b, b2, V, merged)
  BY <1>3, <1>5, AgesTwice
<1>7. /\ BookOK(b2, Position) /\ KeysIn(b2, V) /\ StampsSound(b2, merged)
  BY <1>5 DEF Ages, Kept
<1>8. Ages(b2, b3, V, merged)
  BY <1>1, <1>7, RemoveAges
<1> HIDE DEF b3
<1>9. CASE ev.after # no_position
  BY <1>2, <1>6, <1>8, <1>9, AgesTwice DEF c
<1>10. CASE ev.after = no_position
  <2>1. b2.edge_group[ev.right] = no_position
    BY <1>1, <1>3, <1>5, <1>10 DEF Workable
  <2>2. b2.edge_group \in [Position -> Nat \cup {no_position}]
    BY <1>7 DEF BookOK, BookTypeOK
  <2>3. [b2.edge_group EXCEPT ![ev.right] = no_position] = b2.edge_group
    BY <1>1, <2>1, <2>2
  <2>4. z = b2
    BY <1>7, <2>3 DEF BookOK, BookTypeOK
  <2>5. QED
    BY <1>2, <1>6, <1>10, <2>4 DEF c
<1>11. QED
  BY <1>9, <1>10

LEMMA AddAges ==
    ASSUME splits \in Corpora, NEW b, BookOK(b, Position), NEW V \in SUBSET Nat,
           NEW g, Gets(b, g, Position, V), NEW merged, GetsNewborn(b, g, merged),
           NEW start \in Position, b.edge_group[start] = no_position,
           NEW w \in Nat, NEW f \in Nat
    PROVE  LET c == add_edge(g.book, start, g.state, w, f)
           IN  /\ Ages(b, c, V, merged)
               /\ \A p \in Position \ {start} : c.edge_group[p] = b.edge_group[p]
<1> DEFINE c == add_edge(g.book, start, g.state, w, f)
<1>1. Kept(b, c, V) /\ \A p \in Position \ {start} : c.edge_group[p] = b.edge_group[p]
  BY AddKept
<1>2. /\ BookOK(g.book, Position) /\ g.state \in DOMAIN g.book.pairs
      /\ g.book.edge_group[start] = no_position
      /\ Grows(b, g.book) /\ StampsSound(g.book, merged) /\ Newborn(g.book, g.state)
  BY DEF Gets, Extends, GetsNewborn
<1>3. Grows(g.book, c) /\ StampsSound(c, merged)
  BY <1>2, AddGrows
<1> HIDE DEF c
<1>4. BookTypeOK(b, Position) /\ BookTypeOK(c, Position) /\ BookTypeOK(g.book, Position)
  BY <1>1, <1>2 DEF Kept, BookOK
<1>5. Grows(b, c)
  BY <1>2, <1>3, <1>4, GrowsTwice
<1>6. QED
  BY <1>1, <1>3, <1>5 DEF Ages, c

LEMMA AddEdgesAges ==
    ASSUME splits \in Corpora, NEW b, BookOK(b, Position), NEW V \in SUBSET Nat, KeysIn(b, V),
           NEW ev, Workable(b, ev, V), NEW merged \in V, StampsSound(b, merged),
           b.edge_group[ev.position] = no_position,
           ev.left # no_position => b.edge_group[ev.left] = no_position
    PROVE  Ages(b, AddEdges(b, ev, merged), V, merged)
<1> DEFINE f  == Frequency(ev.position)
           w  == ev.position[1]
           l  == get_left_pair_state(b, ev.left_token, merged)
           a1 == add_edge(l.book, ev.left, l.state, w, f)
           b1 == IF ev.left = no_position THEN b ELSE a1
           r  == get_right_pair_state(b1, merged, ev.after_token)
           a2 == add_edge(r.book, ev.position, r.state, w, f)
           d  == AddEdges(b, ev, merged)
<1>1. f \in Nat /\ w \in Nat /\ ev.position \in Position /\ merged \in Nat
  BY PositionsTyped DEF Workable
<1>2. d = IF ev.after = no_position THEN b1 ELSE a2
  BY DEF AddEdges
<1> HIDE DEF f, w, d
<1>3. /\ Ages(b, b1, V, merged)
      /\ \A p \in Position : p = ev.left \/ b1.edge_group[p] = b.edge_group[p]
  <2>1. CASE ev.left = no_position
    <3>1. b1 = b
      BY <2>1
    <3> HIDE DEF b1
    <3>2. Grows(b, b)
      BY GrowsNot DEF BookOK
    <3>3. QED
      BY <3>1, <3>2 DEF Ages, Kept
  <2>2. CASE ev.left # no_position
    <3>1. ev.left \in Position /\ ev.left_token \in V
      BY <2>2 DEF Workable, Optional
    <3>2. Gets(b, l, Position, V) /\ GetsNewborn(b, l, merged)
      BY <1>1, <3>1, GetLeft, LeftNewborn
    <3>3. b.edge_group[ev.left] = no_position
      BY <2>2
    <3> DEFINE start == ev.left
    <3>4. start \in Position /\ b.edge_group[start] = no_position
      BY <3>1, <3>3
    <3> HIDE DEF l, start
    <3>5. /\ Ages(b, add_edge(l.book, start, l.state, w, f), V, merged)
          /\ \A p \in Position \ {start} :
                add_edge(l.book, start, l.state, w, f).edge_group[p] = b.edge_group[p]
      BY <1>1, <3>2, <3>4, AddAges
    <3>6. b1 = add_edge(l.book, start, l.state, w, f)
      BY <2>2 DEF start
    <3> HIDE DEF b1
    <3>7. QED
      BY <3>5, <3>6 DEF start
  <2>3. QED
    BY <2>1, <2>2
<1> HIDE DEF b1
<1>4. CASE ev.after = no_position
  BY <1>2, <1>3, <1>4 DEF d
<1>5. CASE ev.after # no_position
  <2> DEFINE start == ev.position
  <2>1. /\ ev.after_token \in V /\ BookOK(b1, Position) /\ KeysIn(b1, V)
        /\ StampsSound(b1, merged)
    BY <1>3, <1>5 DEF Workable, Ages, Kept
  <2>2. Gets(b1, r, Position, V) /\ GetsNewborn(b1, r, merged)
    BY <1>1, <2>1, GetRight, RightNewborn
  <2>3. start \in Position /\ b1.edge_group[start] = no_position
    BY <1>1, <1>3 DEF Workable
  <2> HIDE DEF r, start
  <2>4. Ages(b1, add_edge(r.book, start, r.state, w, f), V, merged)
    BY <1>1, <2>1, <2>2, <2>3, AddAges
  <2>5. d = add_edge(r.book, start, r.state, w, f)
    BY <1>2, <1>5 DEF start
  <2>6. QED
    BY <1>3, <2>4, <2>5, AgesTwice DEF d
<1>6. QED
  BY <1>4, <1>5

LEMMA RewireAges ==
    ASSUME splits \in Corpora, BookOK(book, Position), NEW V \in SUBSET Nat, KeysIn(book, V),
           NEW ev, Workable(book, ev, V), merged_token \in V, StampsSound(book, merged_token),
           Rewire(ev)
    PROVE  Ages(book, book', V, merged_token)
<1> DEFINE c == RemoveEdges(book, ev)
           d == AddEdges(c, ev, merged_token)
<1>1. book' = IF c.aborted THEN c ELSE d
  BY DEF Rewire
<1>2. Ages(book, c, V, merged_token)
  BY RemoveEdgesAges
<1>3. /\ \A p \in Position : c.edge_group[p] \in {no_position, book.edge_group[p]}
      /\ ~c.aborted => /\ c.edge_group[ev.position] = no_position
                       /\ ev.left # no_position => c.edge_group[ev.left] = no_position
  BY RemoveEdgesKept
<1> HIDE DEF c
<1>4. CASE c.aborted
  BY <1>1, <1>2, <1>4
<1>5. CASE ~c.aborted
  <2>1. Workable(c, ev, V) /\ BookOK(c, Position) /\ KeysIn(c, V) /\ StampsSound(c, merged_token)
    BY <1>2, <1>3 DEF Workable, Ages, Kept
  <2>2. Ages(c, d, V, merged_token)
    BY <1>3, <1>5, <2>1, AddEdgesAges
  <2> HIDE DEF d
  <2>3. QED
    BY <1>1, <1>2, <1>5, <2>2, AgesTwice
<1>6. QED
  BY <1>4, <1>5

-----------------------------------------------------------------------------
(* Rounds.                                                                 *)

\* A stamp is never of a token yet to come, and in a round its own stamps name its
\* newborn pairs: no entry of an earlier round is ever taken for this one's.
StampsInTime ==
    /\ \A e \in Stamps(book) : e.stamp <= Len(vocabulary)
    /\ InRound => StampsSound(book, merged_token)

\* A pair has at most one entry in the queue, and the entry's count is not below the
\* pair's own: popping entries from the top down misses nothing that has one.
EntriesNeverLow ==
    \A e \in queue : /\ e.count >= book.pairs[e.state].count
                     /\ \A f \in queue : f.state = e.state => f = e

QueueAged ==
    /\ phase = "build" => queue = {}
    /\ \A e \in queue : ~Newborn(book, e.state)

RInv == StampsInTime /\ EntriesNeverLow /\ QueueAged

LEMMA InitRounds == Init => RInv
<1> SUFFICES ASSUME Init PROVE RInv
  OBVIOUS
<1>1. book = EmptyBook(Position) /\ queue = {} /\ phase = "build"
  BY DEF Init, InitInput
<1>2. Stamps(book) = {}
  BY <1>1 DEF Stamps, EmptyBook
<1>3. QED
  BY <1>1, <1>2 DEF RInv, StampsInTime, EntriesNeverLow, QueueAged, InRound

\* Steps that change no count and add no entry.
LEMMA QuietRound ==
    ASSUME IInv, RInv, vocabulary' = vocabulary, queue' \subseteq queue,
           SameStamps(book, book'), DOMAIN book'.pairs = DOMAIN book.pairs,
           \A s \in DOMAIN book.pairs : book'.pairs[s].count = book.pairs[s].count,
           InRound' => InRound, phase' = "build" => phase = "build"
    PROVE  RInv'
<1>1. \A e \in queue : e.state \in DOMAIN book.pairs
  BY DEF IInv, PairsKnown
<1>2. /\ Stamps(book') = Stamps(book)
      /\ \A s : Newborn(book', s) <=> Newborn(book, s)
  BY DEF Stamps, Newborn, SameStamps
<1>3. StampsInTime'
  BY <1>2, StampsKept DEF RInv, StampsInTime, StampsSound, merged_token
<1>4. EntriesNeverLow'
  BY <1>1 DEF RInv, EntriesNeverLow
<1>5. QueueAged'
  BY <1>2 DEF RInv, QueueAged
<1>6. QED
  BY <1>3, <1>4, <1>5 DEF RInv

\* build_state stamps nothing.
LEMMA BuildStampsNothing ==
    ASSUME NEW P, NEW b, BookTypeOK(b, P), NEW start, NEW key, NEW w, NEW f
    PROVE  Stamps(build_edge(b, start, key, w, f)) = Stamps(b)
<1> DEFINE known == {s \in DOMAIN b.pairs : b.pairs[s].key = key}
           c     == IF known # {} THEN b ELSE create_pair_state(b, key)
           s     == IF known # {} THEN CHOOSE k \in known : TRUE ELSE Len(c.pairs)
           fresh == c.pairs[s].last_word # w
           group == IF fresh THEN Len(c.group_state) + 1 ELSE c.pairs[s].last_group
           gs    == IF fresh THEN Append(c.group_state, s) ELSE c.group_state
           gc    == IF fresh THEN Append(c.group_count, 1)
                    ELSE [c.group_count EXCEPT ![group] = @ + 1]
           q     == WithGroup(Counted(c.pairs[s], f, IF fresh THEN 1 ELSE 0), w, group)
           pr    == [c.pairs EXCEPT ![s] = q]
           eg    == [c.edge_group EXCEPT ![start] = group]
           a     == [c EXCEPT !.pairs = pr, !.group_state = gs, !.group_count = gc, !.edge_group = eg]
<1>1. build_edge(b, start, key, w, f) = link_append(a, s, start)
  BY DEF build_edge
<1>2. /\ c.left_cache = b.left_cache /\ c.right_cache = b.right_cache
      /\ c.same_cache = b.same_cache
      /\ DOMAIN c = DOMAIN b
  BY DEF create_pair_state, BookTypeOK
<1> HIDE DEF known, c, s
<1>3. /\ a.left_cache = b.left_cache /\ a.right_cache = b.right_cache
      /\ a.same_cache = b.same_cache
      /\ DOMAIN a = DOMAIN b
  <2> HIDE DEF pr, gs, gc, eg
  <2> QED BY <1>2 DEF BookTypeOK
<1> HIDE DEF a
<1>4. QED
  BY <1>1, <1>3 DEF link_append, Stamps, BookTypeOK

LEMMA BuildPositionRounds == IInv /\ RInv /\ BuildPosition => RInv'
<1> SUFFICES ASSUME IInv, RInv, BuildPosition PROVE RInv'
  OBVIOUS
<1>1. /\ phase = "build" /\ phase' = "build" /\ queue' = queue /\ vocabulary' = vocabulary
      /\ book' = IF is_live(next[cursor])
                 THEN build_edge(book, cursor, <<token[cursor], token[next[cursor]]>>,
                                 cursor[1], Frequency(cursor))
                 ELSE book
  BY DEF BuildPosition
<1>2. Stamps(book') = Stamps(book)
  BY <1>1, BuildStampsNothing DEF IInv, TypeOK
<1>3. queue' = {} /\ ~InRound'
  BY <1>1 DEF RInv, QueueAged, InRound
<1>4. QED
  BY <1>1, <1>2, <1>3 DEF RInv, StampsInTime, EntriesNeverLow, QueueAged

LEMMA StartMergingRounds == IInv /\ RInv /\ StartMerging => RInv'
<1> SUFFICES ASSUME IInv, RInv, StartMerging PROVE RInv'
  OBVIOUS
<1> DEFINE S == {k \in DOMAIN book.pairs : book.pairs[k].word_count >= 2}
<1>1. /\ phase = "build" /\ phase' = "pop" /\ vocabulary' = vocabulary
      /\ book' = [book EXCEPT !.born = << >>] /\ queue' = {Entry(s) : s \in S}
  BY DEF StartMerging
<1>2. book'.pairs = book.pairs /\ book'.born = << >> /\ Stamps(book') = Stamps(book)
  BY <1>1 DEF IInv, TypeOK, BookTypeOK, Stamps
<1>3. \A s \in DOMAIN book.pairs : book.pairs[s].count \in Nat
  BY CountsTyped DEF IInv, TypeOK
<1>4. EntriesNeverLow'
  <2>1. ASSUME NEW e \in queue'
        PROVE  e.state \in DOMAIN book.pairs /\ e = Entry(e.state)
    BY <1>1 DEF Entry
  <2>2. \A s : Entry(s).count = book.pairs[s].count
    BY DEF Entry
  <2>3. \A e \in queue' : e.count >= book'.pairs[e.state].count
    BY <1>2, <1>3, <2>1, <2>2
  <2>4. QED
    BY <2>1, <2>3 DEF EntriesNeverLow
<1>5. QED
  BY <1>1, <1>2, <1>4 DEF RInv, StampsInTime, QueueAged, InRound, Newborn

LEMMA PopOutdatedRounds == IInv /\ RInv /\ PopOutdated => RInv'
<1> SUFFICES ASSUME IInv, RInv, PopOutdated PROVE RInv'
  OBVIOUS
<1>1. PICK e \in Top : queue' = (queue \ {e}) \cup {Entry(e.state)}
  BY DEF PopOutdated
<1>2. e \in queue /\ e.state \in DOMAIN book.pairs
  BY <1>1 DEF Top, IInv, PairsKnown
<1>3. /\ phase = "pop" /\ phase' = "pop" /\ vocabulary' = vocabulary /\ book' = book
  BY DEF PopOutdated
<1>4. Entry(e.state).state = e.state /\ Entry(e.state).count = book.pairs[e.state].count
  BY DEF Entry
<1>5. book.pairs[e.state].count \in Nat
  BY <1>2, CountsTyped DEF IInv, TypeOK
<1>6. EntriesNeverLow'
  <2>1. \A f \in queue' : f.count >= book'.pairs[f.state].count
    BY <1>1, <1>3, <1>4, <1>5 DEF RInv, EntriesNeverLow
  <2>2. \A f, g \in queue' : f.state = g.state => f = g
    BY <1>1, <1>2, <1>4 DEF RInv, EntriesNeverLow
  <2>3. QED
    BY <2>1, <2>2 DEF EntriesNeverLow
<1>7. QueueAged'
  BY <1>1, <1>2, <1>3, <1>4 DEF RInv, QueueAged
<1>8. StampsInTime'
  BY <1>3 DEF RInv, StampsInTime, InRound
<1>9. QED
  BY <1>6, <1>7, <1>8 DEF RInv

LEMMA PopBestKeeps ==
    IInv /\ PopBest => /\ SameStamps(book, book') /\ DOMAIN book'.pairs = DOMAIN book.pairs
                       /\ \A s \in DOMAIN book.pairs : book'.pairs[s].count = book.pairs[s].count
                       /\ queue' \subseteq queue
<1> SUFFICES ASSUME IInv, PopBest
             PROVE  /\ SameStamps(book, book') /\ DOMAIN book'.pairs = DOMAIN book.pairs
                    /\ \A s \in DOMAIN book.pairs : book'.pairs[s].count = book.pairs[s].count
                    /\ queue' \subseteq queue
  OBVIOUS
<1>1. PICK e \in Top : /\ queue' = queue \ {e}
                       /\ book' = [book EXCEPT !.pairs[e.state] = WithoutList(@)]
  BY DEF PopBest
<1>2. e.state \in DOMAIN book.pairs /\ BookTypeOK(book, Position)
  BY <1>1 DEF Top, IInv, PairsKnown, TypeOK
<1> DEFINE q  == WithoutList(book.pairs[e.state])
           pr == [book.pairs EXCEPT ![e.state] = q]
<1>3. book.pairs \in Seq(Pair(Position)) /\ book.pairs[e.state] \in Pair(Position)
  BY <1>2, PairUpdate DEF BookTypeOK
<1>4. q.count = book.pairs[e.state].count
  BY <1>3 DEF WithoutList, Pair
<1>5. book' = [book EXCEPT !.pairs = pr]
  BY <1>1
<1>6. DOMAIN pr = DOMAIN book.pairs /\ \A s \in DOMAIN book.pairs : pr[s].count = book.pairs[s].count
  <2> HIDE DEF q
  <2>1. \A s \in DOMAIN book.pairs : pr[s] = IF s = e.state THEN q ELSE book.pairs[s]
    BY <1>2, <1>3
  <2>2. DOMAIN pr = DOMAIN book.pairs
    BY <1>3
  <2> HIDE DEF pr
  <2>3. QED
    BY <1>4, <2>1, <2>2
<1> HIDE DEF pr
<1>7. book'.pairs = pr /\ SameStamps(book, book')
  BY <1>2, <1>5 DEF BookTypeOK, SameStamps
<1>8. QED
  BY <1>1, <1>6, <1>7

\* The round's token is new: no stamp bears it yet.
LEMMA StartRoundRounds == IInv /\ RInv /\ StartRound => RInv'
<1> SUFFICES ASSUME IInv, RInv, StartRound PROVE RInv'
  OBVIOUS
<1>1. /\ book' = book /\ queue' = queue /\ phase' \in {"surgery", "sequential"}
      /\ vocabulary' = Append(vocabulary, vocabulary[left_token] \o vocabulary[right_token])
  BY DEF StartRound
<1>2. Len(vocabulary') = Len(vocabulary) + 1 /\ Len(vocabulary) \in Nat
  BY <1>1, InvFacts DEF IInv, TypeOK
<1>3. \A e \in Stamps(book) : e.stamp \in Nat
  BY DEF IInv, TypeOK, BookTypeOK, CacheEntry, Stamps
<1>4. \A e \in Stamps(book) : e.stamp <= Len(vocabulary') /\ e.stamp # Len(vocabulary')
  BY <1>2, <1>3 DEF RInv, StampsInTime
<1>5. StampsInTime'
  BY <1>1, <1>4 DEF StampsInTime, StampsSound, merged_token
<1>6. EntriesNeverLow' /\ QueueAged'
  BY <1>1 DEF RInv, EntriesNeverLow, QueueAged
<1>7. QED
  BY <1>5, <1>6 DEF RInv

LEMMA EndRoundRounds == IInv /\ RInv /\ EndRound => RInv'
<1> SUFFICES ASSUME IInv, RInv, EndRound PROVE RInv'
  OBVIOUS
<1> DEFINE S == {k \in DOMAIN book.pairs : (\E i \in DOMAIN book.born : book.born[i] = k) /\ Eligible(k)}
<1>1. /\ phase' = "pop" /\ vocabulary' = vocabulary
      /\ book' = [book EXCEPT !.born = << >>] /\ queue' = queue \cup {Entry(s) : s \in S}
  BY DEF EndRound
<1>2. book'.pairs = book.pairs /\ book'.born = << >> /\ Stamps(book') = Stamps(book)
  BY <1>1 DEF IInv, TypeOK, BookTypeOK, Stamps
<1>3. \A s \in DOMAIN book.pairs : book.pairs[s].count \in Nat
  BY CountsTyped DEF IInv, TypeOK
<1>4. \A s : Entry(s).state = s /\ Entry(s).count = book.pairs[s].count
  BY DEF Entry
<1>5. \A s \in S : s \in DOMAIN book.pairs /\ Newborn(book, s)
  BY DEF Newborn
<1> HIDE DEF S
<1>6. EntriesNeverLow'
  <2>1. \A e \in queue' : e.count >= book'.pairs[e.state].count
    <3>1. \A e \in queue : e.count >= book'.pairs[e.state].count
      BY <1>2 DEF RInv, EntriesNeverLow
    <3>2. \A s \in S : Entry(s).count >= book'.pairs[Entry(s).state].count
      BY <1>2, <1>3, <1>4, <1>5
    <3>3. QED
      BY <1>1, <3>1, <3>2
  <2>2. ASSUME NEW e \in queue', NEW f \in queue', f.state = e.state PROVE f = e
    <3>1. CASE e \in queue /\ f \in queue
      BY <2>2, <3>1 DEF RInv, EntriesNeverLow
    <3>2. CASE e \notin queue /\ f \notin queue
      BY <1>1, <1>4, <2>2, <3>2
    <3>3. CASE e \in queue <=> f \notin queue
      BY <1>1, <1>4, <1>5, <2>2, <3>3 DEF RInv, QueueAged
    <3>4. QED
      BY <3>1, <3>2, <3>3
  <2>3. QED
    BY <2>1, <2>2 DEF EntriesNeverLow
<1>7. QED
  BY <1>1, <1>2, <1>6 DEF RInv, StampsInTime, QueueAged, InRound, Newborn

\* Working off an occurrence keeps them, and only newborn pairs gain by it.
LEMMA AgedRounds ==
    ASSUME IInv, RInv, NEW V, Ages(book, book', V, merged_token), queue' = queue,
           vocabulary' = vocabulary, InRound, phase' # "build"
    PROVE  RInv' /\ Grows(book, book')
<1>1. Grows(book, book') /\ StampsSound(book', merged_token) /\ BookTypeOK(book', Position)
  BY DEF Ages, Kept, BookOK
<1>2. StampsInTime'
  BY <1>1 DEF StampsInTime, StampsSound, merged_token
<1>3. \A e \in queue : /\ e.state \in DOMAIN book.pairs /\ ~Newborn(book, e.state)
                       /\ e.count \in Nat
  BY DEF IInv, TypeOK, PairsKnown, RInv, QueueAged
<1>4. QueueAged'
  BY <1>1, <1>3 DEF QueueAged, Grows
<1>5. EntriesNeverLow'
  <2>1. ASSUME NEW e \in queue PROVE e.count >= book'.pairs[e.state].count
    <3>1. /\ e.state \in DOMAIN book'.pairs
          /\ book'.pairs[e.state].count <= book.pairs[e.state].count
          /\ e.count >= book.pairs[e.state].count
      BY <1>1, <1>3 DEF Grows, RInv, EntriesNeverLow
    <3>2. book'.pairs[e.state].count \in Nat /\ book.pairs[e.state].count \in Nat
      BY <1>1, <1>3, <3>1, CountsTyped DEF IInv, TypeOK
    <3>3. QED
      BY <1>3, <3>1, <3>2
  <2>2. QED
    BY <2>1 DEF RInv, EntriesNeverLow
<1>6. QED
  BY <1>1, <1>2, <1>4, <1>5 DEF RInv

LEMMA RoundFacts ==
    ASSUME IInv, InRound
    PROVE  /\ splits \in Corpora /\ BookOK(book, Position) /\ KeysIn(book, DOMAIN vocabulary)
           /\ DOMAIN vocabulary \in SUBSET Nat /\ merged_token \in DOMAIN vocabulary
           /\ ChainTyped /\ ChainOrdered /\ ChainLinked
<1>1. Len(vocabulary) \in Nat /\ DOMAIN vocabulary = 1..Len(vocabulary)
  BY InvFacts
<1>2. left_token \in 1..(Len(vocabulary) - 1)
  BY DEF IInv, PairsKnown
<1>3. merged_token \in DOMAIN vocabulary
  BY <1>1, <1>2 DEF merged_token
<1>4. QED
  BY <1>3, InvFacts DEF IInv, PairsKnown

LEMMA MergePositionRounds == IInv /\ RInv /\ MergePosition => RInv' /\ Grows(book, book')
<1> SUFFICES ASSUME IInv, RInv, MergePosition PROVE RInv' /\ Grows(book, book')
  OBVIOUS
<1> DEFINE V == DOMAIN vocabulary
<1>p. PICK p : p = Head(positions)
  OBVIOUS
<1>n. PICK n : n = Neighbours(p)
  OBVIOUS
<1>e. PICK ev : ev = MergeEvent(n)
  OBVIOUS
<1>1. /\ vocabulary' = vocabulary /\ queue' = queue
      /\ phase = "sequential" /\ positions # << >>
      /\ pair_is_at(p, left_token, right_token) /\ Rewire(ev)
  BY <1>p, <1>n, <1>e DEF MergePosition
<1>2. InRound
  BY <1>1 DEF InRound
<1>3. phase' # "build"
  BY <1>1 DEF Rewire
<1>4. p \in Position /\ alive[p] /\ alive[next[p]]
  BY <1>1, <1>p DEF IInv, TypeOK, pair_is_at, is_live
<1>5. /\ splits \in Corpora /\ BookOK(book, Position) /\ KeysIn(book, V) /\ V \in SUBSET Nat
      /\ merged_token \in V /\ ChainTyped /\ ChainOrdered /\ ChainLinked
  BY <1>2, RoundFacts
<1>6. /\ n.right = next[p] /\ n.right \in Position /\ alive[n.right]
      /\ n.after = next[n.right] /\ n.after \in Position
      /\ n.left \in Optional(Position) /\ n.left # p
  BY <1>4, <1>5, <1>n, NeighbourFacts
<1>7. /\ ev.position = p /\ ev.right = n.right /\ ev.left = n.left
      /\ ev.after = IF alive[n.after] THEN n.after ELSE no_position
      /\ ev.left # no_position => ev.left_token \in V
      /\ ev.after # no_position => ev.after_token \in V
  BY <1>4, <1>n, <1>e, MergeEventFacts
<1>8. PendingEvents = {}
  BY <1>1 DEF IInv, ThreadsIdle, PendingEvents
<1>9. Workable(book, ev, V)
  <2> HIDE DEF V
  <2>1. ASSUME ev.after = no_position PROVE book.edge_group[ev.right] = no_position
    <3>1. no_position \notin Position
      BY <1>5, PositionsTyped
    <3>2. ~alive[next[n.right]]
      BY <1>6, <1>7, <2>1, <3>1
    <3>3. QED
      BY <1>1, <1>6, <1>7, <1>8, <3>2 DEF IInv, EndsFree
  <2>2. ev.after \in Optional(Position)
    BY <1>6, <1>7 DEF Optional
  <2>3. QED
    BY <1>4, <1>6, <1>7, <2>1, <2>2 DEF Workable
<1>10. StampsSound(book, merged_token)
  BY <1>2 DEF RInv, StampsInTime
<1> HIDE DEF V
<1>11. Ages(book, book', V, merged_token)
  BY <1>1, <1>5, <1>9, <1>10, RewireAges
<1>12. QED
  BY <1>1, <1>2, <1>3, <1>11, AgedRounds

LEMMA ReplayEventRounds == IInv /\ RInv /\ ReplayEvent => RInv' /\ Grows(book, book')
<1> SUFFICES ASSUME IInv, RInv, ReplayEvent PROVE RInv' /\ Grows(book, book')
  OBVIOUS
<1> DEFINE V == DOMAIN vocabulary
<1>t. PICK t \in Threads : events[t] # << >> /\ Rewire(Head(events[t]))
  BY DEF ReplayEvent
<1>e. PICK ev : ev = Head(events[t])
  OBVIOUS
<1>1. vocabulary' = vocabulary /\ queue' = queue /\ phase = "replay" /\ Rewire(ev)
  BY <1>t, <1>e DEF ReplayEvent
<1>2. InRound
  BY <1>1 DEF InRound
<1>3. phase' # "build"
  BY <1>1 DEF Rewire
<1>4. /\ splits \in Corpora /\ BookOK(book, Position) /\ KeysIn(book, V) /\ V \in SUBSET Nat
      /\ merged_token \in V
  BY <1>2, RoundFacts
<1>5. events \in [Threads -> Seq(EventSet)]
  BY DEF IInv, TypeOK
<1>6. ev = events[t][1] /\ 1 \in DOMAIN events[t] /\ ev \in EventSet
  <2> DEFINE s == events[t]
  <2>1. s \in Seq(EventSet) /\ s # << >> /\ ev = Head(s)
    BY <1>5, <1>t, <1>e
  <2> HIDE DEF s
  <2>2. ev = s[1] /\ 1 \in DOMAIN s /\ ev \in EventSet
    BY <2>1
  <2>3. QED
    BY <2>2 DEF s
<1>7. ev \in PendingEvents
  BY <1>6 DEF PendingEvents
<1>8. Workable(book, ev, V)
  <2>1. /\ ev.position \in Position /\ ev.right \in Position
        /\ ev.left \in Optional(Position) /\ ev.after \in Optional(Position)
    BY <1>6 DEF EventSet
  <2>2. no_position \notin Position
    BY <1>4, PositionsTyped
  <2>3. /\ ev.left # no_position => ev.left # ev.position /\ ev.left_token \in V
        /\ ev.after # no_position => ev.after_token \in V
        /\ ev.after = no_position => book.edge_group[ev.right] = no_position
    BY <1>1, <1>7 DEF IInv, EventsSound
  <2> HIDE DEF V
  <2>4. QED
    BY <2>1, <2>2, <2>3 DEF Workable
<1>9. StampsSound(book, merged_token)
  BY <1>2 DEF RInv, StampsInTime
<1> HIDE DEF V
<1>10. Ages(book, book', V, merged_token)
  BY <1>1, <1>4, <1>8, <1>9, RewireAges
<1>11. QED
  BY <1>1, <1>2, <1>3, <1>10, AgedRounds

\* What a step does to the counts that there are.
OnlyNewbornsGained ==
    \A s \in DOMAIN book.pairs :
        book'.pairs[s].count > book.pairs[s].count => phase = "build" \/ Newborn(book, s)

LEMMA QuietGains ==
    ASSUME IInv, \A s \in DOMAIN book.pairs : book'.pairs[s].count = book.pairs[s].count
    PROVE  OnlyNewbornsGained
<1>1. \A s \in DOMAIN book.pairs : book.pairs[s].count \in Nat
  BY CountsTyped DEF IInv, TypeOK
<1>2. QED
  BY <1>1 DEF OnlyNewbornsGained

LEMMA GrowsGains ==
    ASSUME IInv, IInv', Grows(book, book')
    PROVE  OnlyNewbornsGained
<1>1. BookTypeOK(book, Position) /\ BookTypeOK(book', Position')
  BY DEF IInv, TypeOK
<1>2. /\ \A s \in DOMAIN book.pairs : book.pairs[s].count \in Nat
      /\ \A s \in DOMAIN book'.pairs : book'.pairs[s].count \in Nat
  BY <1>1, CountsTyped
<1>3. QED
  BY <1>2 DEF OnlyNewbornsGained, Grows

LEMMA NextRounds == IInv /\ RInv /\ [Next]_vars => RInv' /\ OnlyNewbornsGained
<1> SUFFICES ASSUME IInv, RInv, [Next]_vars PROVE RInv' /\ OnlyNewbornsGained
  OBVIOUS
<1>i. IInv'
  BY NextInv
<1>q. ASSUME vocabulary' = vocabulary, queue' \subseteq queue, book' = book,
             InRound' => InRound, phase' = "build" => phase = "build"
      PROVE  RInv' /\ OnlyNewbornsGained
  BY <1>q, QuietRound, QuietGains DEF SameStamps
<1>1. CASE BuildPosition \/ BuildNextWord \/ StartMerging
  <2>1. phase = "build"
    BY <1>1 DEF BuildPosition, BuildNextWord, StartMerging
  <2>2. OnlyNewbornsGained
    BY <2>1 DEF OnlyNewbornsGained
  <2>3. CASE BuildNextWord
    BY <1>q, <2>3 DEF BuildNextWord, InRound
  <2>4. QED
    BY <1>1, <2>2, <2>3, BuildPositionRounds, StartMergingRounds
<1>2. CASE PopIneligible \/ Finish
  <2>1. /\ vocabulary' = vocabulary /\ queue' \subseteq queue /\ book' = book
        /\ phase = "pop" /\ phase' \in {"pop", "done"}
    BY <1>2 DEF PopIneligible, Finish
  <2>2. QED
    BY <1>q, <2>1 DEF InRound
<1>3. CASE PopOutdated
  <2>1. book' = book
    BY <1>3 DEF PopOutdated
  <2>2. QED
    BY <1>3, <2>1, PopOutdatedRounds, QuietGains
<1>4. CASE PopBest
  <2>1. vocabulary' = vocabulary /\ phase = "pop" /\ phase' = "walk"
    BY <1>4 DEF PopBest
  <2>2. QED
    BY <1>4, <2>1, PopBestKeeps, QuietRound, QuietGains DEF InRound
<1>5. CASE WalkList \/ SkipPosition
  <2>1. vocabulary' = vocabulary /\ queue' = queue /\ book' = book /\ phase' = phase
    BY <1>5 DEF WalkList, SkipPosition
  <2>2. QED
    BY <1>q, <2>1 DEF InRound
<1>6. CASE StartRound
  <2>1. book' = book
    BY <1>6 DEF StartRound
  <2>2. QED
    BY <1>6, <2>1, StartRoundRounds, QuietGains
<1>7. CASE MergePosition \/ ReplayEvent
  <2>1. RInv' /\ Grows(book, book')
    BY <1>7, MergePositionRounds, ReplayEventRounds
  <2>2. QED
    BY <1>i, <2>1, GrowsGains
<1>8. CASE EndRound
  <2>1. book' = [book EXCEPT !.born = << >>]
    BY <1>8 DEF EndRound
  <2>2. book'.pairs = book.pairs
    BY <2>1 DEF IInv, TypeOK, BookTypeOK
  <2>3. QED
    BY <1>8, <2>2, EndRoundRounds, QuietGains
<1>9. CASE Join
  <2>1. /\ vocabulary' = vocabulary /\ queue' = queue /\ book' = book
        /\ phase = "surgery" /\ phase' = "replay"
    BY <1>9 DEF Join
  <2>2. QED
    BY <1>q, <2>1 DEF InRound
<1>10. CASE \E t \in Team : ThreadStep(t)
  <2>1. vocabulary' = vocabulary /\ queue' = queue /\ book' = book /\ phase' = phase
    BY <1>10 DEF ThreadStep, TakeWord, Resolve, Apply
  <2>2. QED
    BY <1>q, <2>1 DEF InRound
<1>11. CASE Terminated \/ UNCHANGED vars
  <2>1. vocabulary' = vocabulary /\ queue' = queue /\ book' = book /\ phase' = phase
    BY <1>11 DEF Terminated, vars
  <2>2. QED
    BY <1>q, <2>1 DEF InRound
<1>12. QED
  BY <1>1, <1>2, <1>3, <1>4, <1>5, <1>6, <1>7, <1>8, <1>9, <1>10, <1>11 DEF Next, MainStep

LEMMA Rounds == Spec => []RInv
<1>1. QED
  BY Inductive, InitRounds, NextRounds, PTL DEF Spec

\* The stamps that stand in for a hash map never mislead: what a get_ operator finds
\* under the round's token was born in the round, so no old pair ever gains by it.
THEOREM StampsStayInTime == Spec => []StampsInTime
<1>1. RInv => StampsInTime
  BY DEF RInv
<1>2. QED
  BY <1>1, Rounds, PTL

\* pop_best_state may trust the order of its queue: an entry's count is never below
\* the pair's, however the counts have fallen since it was pushed, and a corrected
\* entry replaces the outdated one instead of doubling it.
THEOREM EntriesStayHigh == Spec => []EntriesNeverLow
<1>1. RInv => EntriesNeverLow
  BY DEF RInv
<1>2. QED
  BY <1>1, Rounds, PTL

\* remove_edge and add_edge only ever raise the count of pairs that the round has
\* created, whatever the neighbours of the merged occurrences are.
THEOREM NewbornsOnlyGrow == Spec => OnlyNewbornsGrow
<1>1. IInv /\ RInv /\ [Next]_vars =>
          [\A s \in DOMAIN book.pairs :
              book'.pairs[s].count > book.pairs[s].count
                  => phase = "build" \/ \E i \in DOMAIN book.born : book.born[i] = s]_vars
  BY NextRounds DEF OnlyNewbornsGained, Newborn
<1>2. QED
  BY <1>1, Inductive, Rounds, PTL DEF Spec, OnlyNewbornsGrow

-----------------------------------------------------------------------------
(* A merge in the chain and in the book.                                   *)

Frequencies == [p \in Position |-> Frequency(p)]

Chain == [token |-> token, alive |-> alive, next |-> next, previous |-> previous]

\* What the merges of the events E have made of the slots.
Mergeds(E) == {e.position : e \in E}
Rights(E)  == {e.right : e \in E}

\* The token of a slot before the merges of the events E.
OldToken(ch, E, l, p) == IF p \in Mergeds(E) THEN l ELSE ch.token[p]

EdgeKey(ch, E, l, v, q) == IF ch.alive[q] THEN <<v, OldToken(ch, E, l, q)>> ELSE no_position

\* The book b registers the edges that the chain ch had before the merges of E.
Describes(b, ch, E, l, r) ==
    /\ \A p \in DOMAIN b.edge_group :
          /\ ch.alive[p] /\ p \notin Mergeds(E)
                => KeyOf(b, p) = EdgeKey(ch, E, l, ch.token[p], ch.next[p])
          /\ ~ch.alive[p] /\ p \notin Rights(E) => KeyOf(b, p) = no_position
    /\ \A e \in E : /\ KeyOf(b, e.position) = <<l, r>>
                    /\ KeyOf(b, e.right) = EdgeKey(ch, E, l, r, ch.next[e.position])

\* The event e of E describes its occurrence in the chain ch.
EventFits(ch, E, l, merged, e) ==
    /\ ch.alive[e.position] /\ ch.token[e.position] = merged
    /\ ~ch.alive[e.right] /\ e.right[1] = e.position[1] /\ e.position[2] < e.right[2]
    /\ e.left = ch.previous[e.position]
    /\ e.left # no_position => e.left_token = ch.token[e.left]
    /\ e.after = IF ch.alive[ch.next[e.position]] THEN ch.next[e.position] ELSE no_position
    /\ e.after # no_position => e.after_token = OldToken(ch, E, l, e.after)

EventsApart(E) == \A e, f \in E : e.position = f.position \/ e.right = f.right => e = f

\* In the words of T the newborn pairs of b only have edges in front of T; these are
\* all in word w, and it is the last word of the pairs.
NewbornsBehind(b, T, w) ==
    \A s \in DOMAIN b.pairs :
        Newborn(b, s) =>
            \A q \in EdgesOf(b, s), x \in T :
                x[1] = q[1] => q[2] < x[2] /\ q[1] = w /\ b.pairs[s].last_word = w

-----------------------------------------------------------------------------
(* The slots that are alive.                                               *)

\* The slots of a chain over the positions P that are alive: next leads right in the
\* word, the links are inverse, and no slot alive lies between a slot and its previous.
ChainOK(ch, P) ==
    \A p \in P : ch.alive[p] =>
        /\ ch.next[p] \in P /\ ch.next[p][1] = p[1] /\ p[2] < ch.next[p][2]
        /\ ch.alive[ch.next[p]] => ch.previous[ch.next[p]] = p
        /\ ch.previous[p] # no_position =>
             /\ ch.previous[p] \in P /\ ch.alive[ch.previous[p]] /\ ch.next[ch.previous[p]] = p
             /\ ch.previous[p][1] = p[1] /\ ch.previous[p][2] < p[2]
        /\ \A q \in P : ch.alive[q] /\ q[1] = p[1] /\ q[2] < p[2] =>
             ch.previous[p] # no_position /\ q[2] <= ch.previous[p][2]

\* A slot with slots alive on its left follows the nearest of them.
LEMMA NearestAlive ==
    ASSUME splits \in Corpora, ChainTyped, ChainIntact,
           NEW p \in Position, alive[p], NEW q \in Position, alive[q], q[1] = p[1], q[2] < p[2]
    PROVE  previous[p] \in Position /\ Follows(previous[p], p)
<1>1. /\ no_position \notin Position
      /\ \A x \in Position : x = <<x[1], x[2]>> /\ x[2] \in Nat
  BY PositionsTyped
<1> DEFINE Left == {x \in Position : alive[x] /\ x[1] = p[1] /\ x[2] < p[2]}
           Gaps == {p[2] - x[2] : x \in Left}
<1>2. \A x \in Left : p[2] - x[2] \in Nat
  BY <1>1
<1>3. Gaps \in SUBSET Nat /\ Gaps # {}
  <2>1. q \in Left
    OBVIOUS
  <2> HIDE DEF Left
  <2>2. QED
    BY <1>2, <2>1
<1>4. \E d \in Gaps : \A e \in Gaps : d <= e
  <2> HIDE DEF Gaps
  <2>1. QED
    BY <1>3, Least
<1>5. PICK x \in Left : \A y \in Left : p[2] - x[2] <= p[2] - y[2]
  <2> HIDE DEF Left
  <2>1. QED
    BY <1>4
<1>6. x \in Position /\ alive[x] /\ x[1] = p[1] /\ x[2] < p[2]
  OBVIOUS
<1>7. ASSUME NEW y \in Position, y[1] = x[1], x[2] < y[2], y[2] < p[2], alive[y] PROVE FALSE
  <2>1. p[2] - x[2] <= p[2] - y[2]
    BY <1>5, <1>6, <1>7
  <2>2. QED
    BY <1>1, <1>6, <1>7, <2>1
<1>8. Follows(x, p)
  BY <1>6, <1>7 DEF Follows
<1>9. previous[p] = x
  BY <1>6, <1>8 DEF ChainIntact
<1>10. QED
  BY <1>6, <1>8, <1>9

LEMMA ChainFacts == IInv /\ ChainIntact => ChainOK(Chain, Position)
<1> SUFFICES ASSUME IInv, ChainIntact, NEW p \in Position, alive[p]
             PROVE  /\ next[p] \in Position /\ next[p][1] = p[1] /\ p[2] < next[p][2]
                    /\ alive[next[p]] => previous[next[p]] = p
                    /\ previous[p] # no_position =>
                         /\ previous[p] \in Position /\ alive[previous[p]] /\ next[previous[p]] = p
                         /\ previous[p][1] = p[1] /\ previous[p][2] < p[2]
                    /\ \A q \in Position : alive[q] /\ q[1] = p[1] /\ q[2] < p[2] =>
                         previous[p] # no_position /\ q[2] <= previous[p][2]
  BY DEF ChainOK, Chain
<1>1. splits \in Corpora /\ ChainTyped /\ ChainOrdered /\ ChainLinked
  BY InvFacts DEF IInv
<1>2. /\ no_position \notin Position
      /\ \A x \in Position : x = <<x[1], x[2]>> /\ x[2] \in Nat
  BY <1>1, PositionsTyped
<1>3. next[p] \in Optional(Position) /\ previous[p] \in Optional(Position)
  BY <1>1 DEF ChainTyped
<1>4. next[p] \in Position /\ next[p][1] = p[1] /\ next[p][2] > p[2]
  BY <1>1, <1>3 DEF ChainOrdered, Optional
<1>5. p[2] < next[p][2]
  BY <1>2, <1>4
<1>6. alive[next[p]] => previous[next[p]] = p
  BY <1>1 DEF ChainLinked
<1>7. previous[p] # no_position =>
         /\ previous[p] \in Position /\ alive[previous[p]] /\ next[previous[p]] = p
         /\ previous[p][1] = p[1] /\ previous[p][2] < p[2]
  BY <1>1, <1>3 DEF ChainLinked, ChainOrdered, Optional
<1>8. ASSUME NEW q \in Position, alive[q], q[1] = p[1], q[2] < p[2]
      PROVE  previous[p] # no_position /\ q[2] <= previous[p][2]
  <2>1. previous[p] \in Position /\ Follows(previous[p], p)
    BY <1>1, <1>8, NearestAlive
  <2>2. ~(previous[p][2] < q[2])
    BY <1>8, <2>1 DEF Follows
  <2>3. QED
    BY <1>2, <2>1, <2>2
<1>9. QED
  BY <1>4, <1>5, <1>6, <1>7, <1>8

ChainSound == ChainOK(Chain, Position)

LEMMA ChainFactsNext == IInv' /\ ChainIntact' => ChainOK(Chain', Position')
<1>1. IInv /\ ChainIntact => ChainSound
  BY ChainFacts DEF ChainSound
<1>2. IInv' /\ ChainIntact' => ChainSound'
  BY <1>1, PTL
<1>3. QED
  BY <1>2 DEF ChainSound

-----------------------------------------------------------------------------
(* A merge in the chain: the book describes the chain as it was, now with  *)
(* one more event to be replayed.                                          *)

\* The chain ch2 is ch after the merge of p with right.
SplicedTo(ch, ch2, P, p, right, after, merged) ==
    \A q \in P :
        /\ ch2.token[q] = IF q = p THEN merged ELSE ch.token[q]
        /\ ch2.alive[q] <=> q # right /\ ch.alive[q]
        /\ ch2.next[q] = IF q = p THEN after ELSE IF q = right THEN no_position ELSE ch.next[q]
        /\ ch2.previous[q] = IF q = right THEN no_position
                             ELSE IF q = after THEN p ELSE ch.previous[q]

\* p and right are an occurrence of <<l, r>>, and after is the slot behind it.
Occurs(ch, P, p, right, after, l, r) ==
    /\ p \in P /\ right \in P /\ after \in P
    /\ ch.alive[p] /\ ch.token[p] = l /\ ch.next[p] = right
    /\ ch.alive[right] /\ ch.token[right] = r /\ ch.next[right] = after

\* The event of that merge.
EventOf(ch, ev, p, right, after) ==
    /\ ev.position = p /\ ev.right = right /\ ev.left = ch.previous[p]
    /\ ev.left # no_position => ev.left_token = ch.token[ev.left]
    /\ ev.after = IF ch.alive[after] THEN after ELSE no_position
    /\ ev.after # no_position => ev.after_token = ch.token[ev.after]

\* The events of E are events of merges in the chain.
Fits(ch, E, P, l, merged) ==
    /\ EventsApart(E)
    /\ \A e \in E : /\ e.position \in P /\ e.right \in P
                    /\ EventFits(ch, E, l, merged, e)

\* The occurrence at p is behind those of E in its word.
Follow(E, p) == \A e \in E : e.position[1] = p[1] => e.position[2] < p[2]

\* What the merge at p finds in its neighbourhood.
LEMMA OccursFacts ==
    ASSUME NEW P, Slots(P), NEW ch, ChainOK(ch, P), NEW p, NEW right, NEW after, NEW l, NEW r,
           Occurs(ch, P, p, right, after, l, r)
    PROVE  /\ right # p /\ after # p /\ after # right
           /\ right[1] = p[1] /\ p[2] < right[2] /\ after[1] = p[1] /\ p[2] < after[2]
           /\ ch.previous[right] = p
           /\ ch.alive[after] => ch.previous[after] = right
           /\ p[2] \in Nat /\ right[2] \in Nat /\ after[2] \in Nat
<1>1. p \in P /\ right \in P /\ after \in P /\ \A x \in P : x[2] \in Nat
  BY DEF Occurs, Slots
<1>2. right[1] = p[1] /\ p[2] < right[2] /\ (ch.alive[right] => ch.previous[right] = p)
  BY <1>1 DEF Occurs, ChainOK
<1>3. after[1] = right[1] /\ right[2] < after[2] /\ (ch.alive[after] => ch.previous[after] = right)
  BY <1>1 DEF Occurs, ChainOK
<1>4. ch.alive[right]
  BY DEF Occurs
<1>5. QED
  BY <1>1, <1>2, <1>3, <1>4

\* No slot of the neighbourhood has been merged or taken out by the events of E.
LEMMA OccursApart ==
    ASSUME NEW P, Slots(P), NEW ch, ChainOK(ch, P), NEW p, NEW right, NEW after, NEW l, NEW r,
           Occurs(ch, P, p, right, after, l, r),
           NEW E, NEW merged, Fits(ch, E, P, l, merged), Follow(E, p)
    PROVE  /\ p \notin Mergeds(E) /\ right \notin Mergeds(E) /\ after \notin Mergeds(E)
           /\ p \notin Rights(E) /\ right \notin Rights(E)
<1>1. /\ right # p /\ after # p /\ after # right
      /\ right[1] = p[1] /\ p[2] < right[2] /\ after[1] = p[1] /\ p[2] < after[2]
      /\ p[2] \in Nat /\ right[2] \in Nat /\ after[2] \in Nat
  BY OccursFacts
<1>2. \A x \in Mergeds(E) : x[1] = p[1] => x[2] < p[2]
  BY DEF Mergeds, Follow
<1>3. \A x \in Rights(E) : ~ch.alive[x]
  BY DEF Rights, Fits, EventFits
<1>4. ch.alive[p] /\ ch.alive[right]
  BY DEF Occurs
<1>5. QED
  BY <1>1, <1>2, <1>3, <1>4

LEMMA ApplyDescribes ==
    ASSUME NEW P, Slots(P), NEW ch, ChainOK(ch, P), NEW p, NEW right, NEW after, NEW l, NEW r,
           Occurs(ch, P, p, right, after, l, r),
           NEW E, NEW merged, Fits(ch, E, P, l, merged), Follow(E, p),
           NEW ch2, SplicedTo(ch, ch2, P, p, right, after, merged),
           NEW ev, EventOf(ch, ev, p, right, after),
           NEW b, DOMAIN b.edge_group = P, Describes(b, ch, E, l, r)
    PROVE  Describes(b, ch2, E \cup {ev}, l, r)
<1> DEFINE E2 == E \cup {ev}
<1>1. /\ p \in P /\ right \in P /\ after \in P
      /\ ch.alive[p] /\ ch.token[p] = l /\ ch.next[p] = right
      /\ ch.alive[right] /\ ch.token[right] = r /\ ch.next[right] = after
  BY DEF Occurs
<1>2. /\ right # p /\ after # p /\ after # right /\ ch.previous[right] = p
  BY OccursFacts
<1>3. /\ p \notin Mergeds(E) /\ right \notin Mergeds(E) /\ after \notin Mergeds(E)
      /\ p \notin Rights(E) /\ right \notin Rights(E)
  BY OccursApart
<1>4. ev.position = p /\ ev.right = right
  BY DEF EventOf
<1>5. Mergeds(E2) = Mergeds(E) \cup {p} /\ Rights(E2) = Rights(E) \cup {right}
  BY <1>4 DEF Mergeds, Rights
<1>6. \A q \in P : ch.alive[q] => /\ ch.next[q] \in P
                                  /\ ch.alive[ch.next[q]] => ch.previous[ch.next[q]] = q
  BY DEF ChainOK
<1>7. \A e \in E : /\ e.position \in P /\ e.right \in P /\ ch.alive[e.position] /\ ~ch.alive[e.right]
                   /\ e.position \in Mergeds(E) /\ e.right \in Rights(E)
  BY DEF Fits, EventFits, Mergeds, Rights
\* What the book says of a slot's edge is what it said before.
<1>8. ASSUME NEW q \in P, ch.alive[q], q # p, q # right, NEW v
      PROVE  EdgeKey(ch2, E2, l, v, ch2.next[q]) = EdgeKey(ch, E, l, v, ch.next[q])
  <2> DEFINE n == ch.next[q]
  <2>1. n \in P /\ ch2.next[q] = n
    BY <1>6, <1>8 DEF SplicedTo
  <2>2. n # right
    BY <1>1, <1>2, <1>6, <1>8
  <2>3. ch2.alive[n] <=> ch.alive[n]
    BY <2>1, <2>2 DEF SplicedTo
  <2>4. n = p => OldToken(ch, E, l, n) = l /\ OldToken(ch2, E2, l, n) = l
    BY <1>1, <1>3, <1>5 DEF OldToken
  <2>5. n # p => OldToken(ch2, E2, l, n) = OldToken(ch, E, l, n)
    BY <1>5, <2>1 DEF OldToken, SplicedTo
  <2> HIDE DEF n
  <2>6. OldToken(ch2, E2, l, n) = OldToken(ch, E, l, n)
    BY <2>4, <2>5
  <2>7. EdgeKey(ch2, E2, l, v, n) = EdgeKey(ch, E, l, v, n)
    BY <2>3, <2>6 DEF EdgeKey
  <2>8. QED
    BY <2>1, <2>7 DEF n
<1> HIDE DEF E2
<1>9. ASSUME NEW q \in P
      PROVE  /\ ch2.alive[q] /\ q \notin Mergeds(E2)
                   => KeyOf(b, q) = EdgeKey(ch2, E2, l, ch2.token[q], ch2.next[q])
             /\ ~ch2.alive[q] /\ q \notin Rights(E2) => KeyOf(b, q) = no_position
  <2>1. ASSUME ch2.alive[q], q \notin Mergeds(E2)
        PROVE  KeyOf(b, q) = EdgeKey(ch2, E2, l, ch2.token[q], ch2.next[q])
    <3>1. ch.alive[q] /\ q # right /\ q # p /\ q \notin Mergeds(E) /\ ch2.token[q] = ch.token[q]
      BY <1>5, <2>1 DEF SplicedTo
    <3>2. KeyOf(b, q) = EdgeKey(ch, E, l, ch.token[q], ch.next[q])
      BY <3>1 DEF Describes
    <3>3. QED
      BY <1>8, <3>1, <3>2
  <2>2. ASSUME ~ch2.alive[q], q \notin Rights(E2) PROVE KeyOf(b, q) = no_position
    <3>1. ~ch.alive[q] /\ q \notin Rights(E)
      BY <1>5, <2>2 DEF SplicedTo
    <3>2. QED
      BY <3>1 DEF Describes
  <2>3. QED
    BY <2>1, <2>2
<1>10. ASSUME NEW e \in E
       PROVE  /\ KeyOf(b, e.position) = <<l, r>>
              /\ KeyOf(b, e.right) = EdgeKey(ch2, E2, l, r, ch2.next[e.position])
  <2>1. /\ KeyOf(b, e.position) = <<l, r>>
        /\ KeyOf(b, e.right) = EdgeKey(ch, E, l, r, ch.next[e.position])
    BY DEF Describes
  <2>2. QED
    BY <1>3, <1>7, <1>8, <2>1
<1>11. /\ KeyOf(b, ev.position) = <<l, r>>
       /\ KeyOf(b, ev.right) = EdgeKey(ch2, E2, l, r, ch2.next[ev.position])
  <2>1. KeyOf(b, p) = EdgeKey(ch, E, l, l, right) /\ KeyOf(b, right) = EdgeKey(ch, E, l, r, after)
    BY <1>1, <1>3 DEF Describes
  <2>2. EdgeKey(ch, E, l, l, right) = <<l, r>>
    BY <1>1, <1>3 DEF EdgeKey, OldToken
  <2>3. ch2.next[p] = after /\ (ch2.alive[after] <=> ch.alive[after])
        /\ ch2.token[after] = ch.token[after]
    BY <1>1, <1>2 DEF SplicedTo
  <2>4. OldToken(ch2, E2, l, after) = OldToken(ch, E, l, after)
    BY <1>2, <1>5, <2>3 DEF OldToken
  <2>5. EdgeKey(ch2, E2, l, r, after) = EdgeKey(ch, E, l, r, after)
    BY <2>3, <2>4 DEF EdgeKey
  <2>6. QED
    BY <1>4, <2>1, <2>2, <2>3, <2>5
<1>12. \A e \in E2 : e \in E \/ e = ev
  BY DEF E2
<1>13. QED
  BY <1>9, <1>10, <1>11, <1>12 DEF Describes, E2

LEMMA ApplyFits ==
    ASSUME NEW P, Slots(P), NEW ch, ChainOK(ch, P), NEW p, NEW right, NEW after, NEW l, NEW r,
           Occurs(ch, P, p, right, after, l, r),
           NEW E, NEW merged, Fits(ch, E, P, l, merged), Follow(E, p),
           NEW ch2, SplicedTo(ch, ch2, P, p, right, after, merged),
           NEW ev, EventOf(ch, ev, p, right, after)
    PROVE  Fits(ch2, E \cup {ev}, P, l, merged)
<1> DEFINE E2 == E \cup {ev}
<1>1. /\ p \in P /\ right \in P /\ after \in P
      /\ ch.alive[p] /\ ch.token[p] = l /\ ch.next[p] = right
      /\ ch.alive[right] /\ ch.token[right] = r /\ ch.next[right] = after
  BY DEF Occurs
<1>2. /\ right # p /\ after # p /\ after # right /\ ch.previous[right] = p
      /\ right[1] = p[1] /\ p[2] < right[2]
  BY OccursFacts
<1>3. /\ p \notin Mergeds(E) /\ right \notin Mergeds(E) /\ after \notin Mergeds(E)
      /\ p \notin Rights(E) /\ right \notin Rights(E)
  BY OccursApart
<1>4. ev.position = p /\ ev.right = right
  BY DEF EventOf
<1>5. Mergeds(E2) = Mergeds(E) \cup {p} /\ Rights(E2) = Rights(E) \cup {right}
  BY <1>4 DEF Mergeds, Rights
<1>6. \A q \in P : ch.alive[q] =>
         /\ ch.next[q] \in P
         /\ ch.alive[ch.next[q]] => ch.previous[ch.next[q]] = q
         /\ ch.previous[q] # no_position =>
              ch.previous[q] \in P /\ ch.alive[ch.previous[q]] /\ ch.next[ch.previous[q]] = q
  BY DEF ChainOK
<1>n. no_position \notin P
  BY DEF Slots
<1>o. \A q \in P : q # right => OldToken(ch2, E2, l, q) = OldToken(ch, E, l, q)
  BY <1>1, <1>3, <1>5 DEF OldToken, SplicedTo
<1>7. EventsApart(E2)
  <2>1. \A e, f \in E : e.position = f.position \/ e.right = f.right => e = f
    BY DEF Fits, EventsApart
  <2>2. \A e \in E : e.position # p /\ e.right # right
    BY <1>3 DEF Mergeds, Rights
  <2>3. QED
    BY <1>4, <2>1, <2>2 DEF EventsApart
<1>8. ASSUME NEW e \in E
      PROVE  /\ e.position \in P /\ e.right \in P /\ EventFits(ch2, E2, l, merged, e)
  <2> DEFINE x == e.position
             n == ch.next[x]
  <2>1. /\ x \in P /\ e.right \in P /\ ch.alive[x] /\ ch.token[x] = merged
        /\ ~ch.alive[e.right] /\ e.right[1] = x[1] /\ x[2] < e.right[2]
        /\ e.left = ch.previous[x]
        /\ e.left # no_position => e.left_token = ch.token[e.left]
        /\ e.after = IF ch.alive[n] THEN n ELSE no_position
        /\ e.after # no_position => e.after_token = OldToken(ch, E, l, e.after)
    BY DEF Fits, EventFits
  <2>2. x # p /\ x # right /\ x # after
    BY <1>3 DEF Mergeds
  <2>3. ch2.alive[x] /\ ch2.token[x] = merged /\ ~ch2.alive[e.right]
    BY <2>1, <2>2 DEF SplicedTo
  <2>4. ch2.previous[x] = ch.previous[x] /\ ch2.next[x] = n
    BY <2>1, <2>2 DEF SplicedTo
  <2>5. e.left # no_position => e.left \in P /\ e.left # p
    BY <1>1, <1>6, <2>1, <2>2
  <2>6. e.left # no_position => e.left_token = ch2.token[e.left]
    BY <2>1, <2>5 DEF SplicedTo
  <2>7. n \in P /\ n # right
    BY <1>1, <1>2, <1>6, <2>1, <2>2
  <2>8. ch2.alive[n] <=> ch.alive[n]
    BY <2>7 DEF SplicedTo
  <2>9. e.after # no_position => e.after_token = OldToken(ch2, E2, l, e.after)
    BY <1>o, <2>1, <2>7
  <2> HIDE DEF E2
  <2>10. e.after = IF ch2.alive[ch2.next[x]] THEN ch2.next[x] ELSE no_position
    BY <2>1, <2>4, <2>8
  <2>11. EventFits(ch2, E2, l, merged, e)
    BY <2>1, <2>3, <2>4, <2>6, <2>9, <2>10 DEF EventFits
  <2>12. QED
    BY <2>1, <2>11
<1>9. ev.position \in P /\ ev.right \in P /\ EventFits(ch2, E2, l, merged, ev)
  <2>1. ch2.alive[p] /\ ch2.token[p] = merged /\ ~ch2.alive[right]
    BY <1>1, <1>2 DEF SplicedTo
  <2>2. ch2.previous[p] = ch.previous[p] /\ ch2.next[p] = after
    BY <1>1, <1>2 DEF SplicedTo
  <2>3. ev.left = ch.previous[p] /\ (ev.left # no_position => ev.left_token = ch.token[ev.left])
    BY DEF EventOf
  <2>4. ev.left # no_position => ev.left \in P /\ ev.left # p
    BY <1>1, <1>2, <1>6, <2>3
  <2>5. ev.left # no_position => ev.left_token = ch2.token[ev.left]
    BY <2>3, <2>4 DEF SplicedTo
  <2>6. ch2.alive[after] <=> ch.alive[after]
    BY <1>1, <1>2 DEF SplicedTo
  <2>7. ev.after = IF ch2.alive[after] THEN after ELSE no_position
    BY <2>6 DEF EventOf
  <2>8. ev.after # no_position => ev.after_token = OldToken(ch2, E2, l, ev.after)
    <3>1. OldToken(ch, E, l, after) = ch.token[after]
      BY <1>3 DEF OldToken
    <3>2. ev.after # no_position => ev.after = after /\ ev.after_token = ch.token[after]
      BY DEF EventOf
    <3>3. QED
      BY <1>1, <1>2, <1>o, <3>1, <3>2
  <2> HIDE DEF E2
  <2>9. EventFits(ch2, E2, l, merged, ev)
    BY <1>2, <1>4, <2>1, <2>2, <2>3, <2>5, <2>7, <2>8 DEF EventFits
  <2>10. QED
    BY <1>1, <1>4, <2>9
<1>10. \A e \in E2 : e \in E \/ e = ev
  OBVIOUS
<1>11. QED
  BY <1>7, <1>8, <1>9, <1>10 DEF Fits

-----------------------------------------------------------------------------
(* A merge in the book: the edges that leave.                              *)

\* The book c registers what b does but for the edges at the slots X.
Gone(b, c, X) ==
    /\ DOMAIN c.pairs = DOMAIN b.pairs
    /\ \A k \in DOMAIN b.pairs : c.pairs[k].key = b.pairs[k].key
    /\ SameStamps(b, c) /\ c.aborted = b.aborted /\ DOMAIN c.edge_group = DOMAIN b.edge_group
    /\ \A k : EdgesOf(c, k) = EdgesOf(b, k) \ X
    /\ \A p \in DOMAIN b.edge_group : KeyOf(c, p) = IF p \in X THEN no_position ELSE KeyOf(b, p)
    /\ \A k \in DOMAIN b.pairs : \A q \in EdgesOf(c, k) :
          b.pairs[k].last_word = q[1] => c.pairs[k].last_word = q[1]

\* A slot starts no edge exactly if the book has no key for it.
LEMMA Unregistered ==
    ASSUME NEW P, IsFiniteSet(P), NEW b, BookOK(b, P)
    PROVE  /\ \A p \in P : KeyOf(b, p) = no_position <=> b.edge_group[p] = no_position
           /\ \A s \in DOMAIN b.pairs : \A p \in EdgesOf(b, s) :
                 p \in P /\ KeyOf(b, p) = b.pairs[s].key /\ KeyOf(b, p) # no_position
           /\ DOMAIN b.edge_group = P
<1>1. /\ DOMAIN b.edge_group = P
      /\ \A p \in P : b.edge_group[p] # no_position =>
            b.group_state[b.edge_group[p]] \in DOMAIN b.pairs
  BY GroupFacts
<1>2. \A s \in DOMAIN b.pairs : b.pairs[s] \in Pair(P)
  BY DEF BookOK, BookTypeOK
<1>3. \A s \in DOMAIN b.pairs : b.pairs[s].key \in Nat \X Nat
  BY <1>2 DEF Pair
<1>4. \A s \in DOMAIN b.pairs : b.pairs[s].key # no_position
  BY <1>3, NoPositionAssumption
<1>5. QED
  BY <1>1, <1>4 DEF KeyOf, EdgesOf

LEMMA GoneNot ==
    ASSUME NEW b, NEW X, \A k : EdgesOf(b, k) \cap X = {},
           \A p \in DOMAIN b.edge_group : p \in X => KeyOf(b, p) = no_position
    PROVE  Gone(b, b, X)
<1>1. \A k : EdgesOf(b, k) = EdgesOf(b, k) \ X
  OBVIOUS
<1>2. QED
  BY <1>1 DEF Gone, SameStamps

LEMMA GoneOne ==
    ASSUME NEW b, NEW c, NEW start, EdgeRemoved(b, c, start), EdgeTaken(b, c, start)
    PROVE  Gone(b, c, {start})
<1> DEFINE s == b.group_state[b.edge_group[start]]
<1>1. /\ EdgesOf(c, s) = EdgesOf(b, s) \ {start}
      /\ \A k : k # s => EdgesOf(c, k) = EdgesOf(b, k) /\ start \notin EdgesOf(b, k)
      /\ \A p \in DOMAIN b.edge_group : KeyOf(c, p) = IF p = start THEN no_position ELSE KeyOf(b, p)
      /\ \A k \in DOMAIN b.pairs : \A q \in EdgesOf(c, k) :
            b.pairs[k].last_word = q[1] => c.pairs[k].last_word = q[1]
  BY DEF EdgeTaken
<1>2. /\ DOMAIN c.pairs = DOMAIN b.pairs /\ \A k \in DOMAIN b.pairs : c.pairs[k].key = b.pairs[k].key
      /\ SameStamps(b, c) /\ c.aborted = b.aborted
      /\ c.edge_group = [b.edge_group EXCEPT ![start] = no_position]
  BY DEF EdgeRemoved, SameStamps
<1>3. DOMAIN c.edge_group = DOMAIN b.edge_group
  BY <1>2
<1> HIDE DEF s
<1>4. \A k : EdgesOf(c, k) = EdgesOf(b, k) \ {start}
  BY <1>1
<1>5. \A p \in DOMAIN b.edge_group : KeyOf(c, p) = IF p \in {start} THEN no_position ELSE KeyOf(b, p)
  BY <1>1
<1>6. QED
  BY <1>1, <1>2, <1>3, <1>4, <1>5 DEF Gone

LEMMA GoneTwice ==
    ASSUME NEW b, NEW c, NEW d, NEW X, NEW Y, Gone(b, c, X), Gone(c, d, Y)
    PROVE  Gone(b, d, X \cup Y)
<1>1. \A k : EdgesOf(d, k) = EdgesOf(b, k) \ (X \cup Y)
  BY DEF Gone
<1>2. \A p \in DOMAIN b.edge_group :
         KeyOf(d, p) = IF p \in X \cup Y THEN no_position ELSE KeyOf(b, p)
  BY DEF Gone
<1>3. ASSUME NEW k \in DOMAIN b.pairs, NEW q \in EdgesOf(d, k), b.pairs[k].last_word = q[1]
      PROVE  d.pairs[k].last_word = q[1]
  <2>1. q \in EdgesOf(c, k) /\ k \in DOMAIN c.pairs
    BY <1>3 DEF Gone
  <2>2. c.pairs[k].last_word = q[1]
    BY <1>3, <2>1 DEF Gone
  <2>3. QED
    BY <1>3, <2>1, <2>2 DEF Gone
<1>4. SameStamps(b, d) /\ d.aborted = b.aborted /\ DOMAIN d.edge_group = DOMAIN b.edge_group
      /\ DOMAIN d.pairs = DOMAIN b.pairs /\ \A k \in DOMAIN b.pairs : d.pairs[k].key = b.pairs[k].key
  BY DEF Gone, SameStamps
<1>5. QED
  BY <1>1, <1>2, <1>3, <1>4 DEF Gone

\* An edge that is registered is taken out without an abort.
LEMMA TakeGone ==
    ASSUME NEW P, Slots(P), NEW F \in [P -> Nat], NEW b, NEW S, Sound(b, P, F, S),
           NEW start \in P, KeyOf(b, start) # no_position
    PROVE  LET c == remove_edge(b, start, F[start])
           IN  Sound(c, P, F, S) /\ Gone(b, c, {start})
<1>1. b.edge_group[start] # no_position
  BY Unregistered DEF Sound, Slots
<1>2. LET c == remove_edge(b, start, F[start])
      IN  Sound(c, P, F, S) /\ EdgeRemoved(b, c, start) /\ EdgeTaken(b, c, start)
  BY <1>1, TakeEdge
<1>3. QED
  BY <1>2, GoneOne

\* Clearing the group of a slot that starts no edge changes nothing.
LEMMA ClearedAlready ==
    ASSUME NEW P, NEW b, BookTypeOK(b, P), NEW p \in P, b.edge_group[p] = no_position
    PROVE  [b EXCEPT !.edge_group[p] = no_position] = b
<1> DEFINE g == [b.edge_group EXCEPT ![p] = no_position]
<1>1. g = b.edge_group
  <2>1. b.edge_group \in [P -> Nat \cup {no_position}]
    BY DEF BookTypeOK
  <2> DEFINE e == b.edge_group
  <2> HIDE DEF e
  <2>2. e \in [P -> Nat \cup {no_position}] /\ e[p] = no_position
    BY <2>1 DEF e
  <2>3. [e EXCEPT ![p] = no_position] = e
    BY <2>2
  <2>4. QED
    BY <2>3 DEF e
<1>2. [b EXCEPT !.edge_group[p] = no_position] = [b EXCEPT !.edge_group = g]
  OBVIOUS
<1> HIDE DEF g
<1>3. [b EXCEPT !.edge_group = g] = b
  BY <1>1 DEF BookTypeOK
<1>4. QED
  BY <1>2, <1>3

\* The slots whose edges a merge takes out.
Around(ev) == {ev.position, ev.right} \cup ({ev.left} \ {no_position})

\* Every edge that RemoveEdges takes out is registered.
Removable(b, ev, P) ==
    /\ ev.position \in P /\ ev.right \in P /\ ev.left \in P \cup {no_position}
    /\ ev.right # ev.position /\ ev.left # ev.position /\ ev.left # ev.right
    /\ ev.right[1] = ev.position[1]
    /\ ev.left # no_position => ev.left[1] = ev.position[1] /\ KeyOf(b, ev.left) # no_position
    /\ KeyOf(b, ev.position) # no_position
    /\ ev.after = no_position <=> KeyOf(b, ev.right) = no_position

LEMMA FrequenciesTyped ==
    ASSUME splits \in Corpora
    PROVE  /\ Slots(Position) /\ Frequencies \in [Position -> Nat]
           /\ \A p \in Position : Frequencies[p] = Frequency(p)
           /\ \A p, q \in Position : p[1] = q[1] => Frequencies[p] = Frequency(q)
<1>1. Slots(Position)
  BY PositionsFinite, PositionsTyped DEF Slots
<1>2. \A p \in Position : Frequency(p) \in Nat
  BY PositionsTyped
<1>3. Frequencies \in [Position -> Nat] /\ \A p \in Position : Frequencies[p] = Frequency(p)
  BY <1>2 DEF Frequencies
<1>4. \A p, q \in Position : p[1] = q[1] => Frequency(p) = Frequency(q)
  BY DEF Frequency
<1>5. QED
  BY <1>1, <1>3, <1>4

LEMMA RemovesExact ==
    ASSUME splits \in Corpora, NEW b, NEW S, Sound(b, Position, Frequencies, S),
           NEW ev, Removable(b, ev, Position)
    PROVE  LET c == RemoveEdges(b, ev)
           IN  Sound(c, Position, Frequencies, S) /\ Gone(b, c, Around(ev))
<1> DEFINE f  == Frequency(ev.position)
           a1 == remove_edge(b, ev.left, f)
           b1 == IF ev.left = no_position THEN b ELSE a1
           b2 == remove_edge(b1, ev.position, f)
           a3 == remove_edge(b2, ev.right, f)
           X1 == {ev.left} \ {no_position}
           X2 == X1 \cup {ev.position}
           c  == RemoveEdges(b, ev)
<1>f. /\ Slots(Position) /\ Frequencies \in [Position -> Nat]
      /\ ev.position \in Position /\ f = Frequencies[ev.position]
      /\ ev.right \in Position /\ f = Frequencies[ev.right]
      /\ ev.left # no_position => ev.left \in Position /\ f = Frequencies[ev.left]
  BY FrequenciesTyped DEF Removable
<1>c. c = IF ev.after = no_position THEN [b2 EXCEPT !.edge_group[ev.right] = no_position] ELSE a3
  BY DEF RemoveEdges
<1>d. DOMAIN b.edge_group = Position
  BY <1>f, Unregistered DEF Sound, Slots
<1> HIDE DEF f, c
<1>1. Sound(b1, Position, Frequencies, S) /\ Gone(b, b1, X1)
  <2>1. CASE ev.left = no_position
    <3>1. b1 = b /\ X1 = {}
      BY <2>1
    <3> HIDE DEF b1, X1
    <3>2. Gone(b, b, {})
      BY GoneNot
    <3>3. QED
      BY <3>1, <3>2
  <2>2. CASE ev.left # no_position
    <3> DEFINE start == ev.left
    <3>1. start \in Position /\ KeyOf(b, start) # no_position /\ f = Frequencies[start]
      BY <1>f, <2>2 DEF Removable
    <3>2. b1 = remove_edge(b, start, f) /\ X1 = {start}
      BY <2>2
    <3> HIDE DEF b1, X1, start
    <3>3. LET d == remove_edge(b, start, Frequencies[start])
          IN  Sound(d, Position, Frequencies, S) /\ Gone(b, d, {start})
      BY <1>f, <3>1, TakeGone
    <3>4. QED
      BY <3>1, <3>2, <3>3
  <2>3. QED
    BY <2>1, <2>2
<1> HIDE DEF b1
<1>2. Sound(b2, Position, Frequencies, S) /\ Gone(b, b2, X2)
  <2> DEFINE start == ev.position
  <2>1. start \in Position /\ start \notin X1 /\ f = Frequencies[start] /\ KeyOf(b, start) # no_position
    BY <1>f DEF Removable
  <2>2. KeyOf(b1, start) # no_position
    BY <1>1, <1>d, <2>1 DEF Gone
  <2>3. b2 = remove_edge(b1, start, f) /\ X2 = X1 \cup {start}
    OBVIOUS
  <2> HIDE DEF b2, X2, X1, start
  <2>4. LET d == remove_edge(b1, start, Frequencies[start])
        IN  Sound(d, Position, Frequencies, S) /\ Gone(b1, d, {start})
    BY <1>1, <1>f, <2>1, <2>2, TakeGone
  <2>5. QED
    BY <1>1, <2>1, <2>3, <2>4, GoneTwice
<1> HIDE DEF b2
<1>3. KeyOf(b2, ev.right) = KeyOf(b, ev.right)
  <2>1. ev.right \notin X2
    BY DEF Removable
  <2> HIDE DEF X2
  <2>2. QED
    BY <1>2, <1>d, <1>f, <2>1 DEF Gone
<1>4. Around(ev) = X2 \cup {ev.right}
  BY DEF Around
<1> HIDE DEF X2
<1>5. CASE ev.after = no_position
  <2>1. KeyOf(b2, ev.right) = no_position /\ BookOK(b2, Position)
    BY <1>2, <1>3, <1>5 DEF Removable, Sound
  <2>2. b2.edge_group[ev.right] = no_position
    BY <1>f, <2>1, Unregistered DEF Slots
  <2>3. c = b2
    BY <1>c, <1>f, <1>5, <2>1, <2>2, ClearedAlready DEF BookOK
  <2>4. \A k : EdgesOf(b2, k) \cap {ev.right} = {}
    BY <2>2 DEF EdgesOf
  <2>5. Gone(b2, b2, {ev.right})
    BY <2>1, <2>4, GoneNot
  <2>6. QED
    BY <1>2, <1>4, <2>3, <2>5, GoneTwice DEF c
<1>6. CASE ev.after # no_position
  <2> DEFINE start == ev.right
  <2>1. start \in Position /\ f = Frequencies[start] /\ KeyOf(b2, start) # no_position
    BY <1>f, <1>3, <1>6 DEF Removable
  <2>2. c = remove_edge(b2, start, f) /\ Around(ev) = X2 \cup {start}
    BY <1>c, <1>4, <1>6
  <2> HIDE DEF start
  <2>3. LET d == remove_edge(b2, start, Frequencies[start])
        IN  Sound(d, Position, Frequencies, S) /\ Gone(b2, d, {start})
    BY <1>2, <1>f, <2>1, TakeGone
  <2>4. Sound(c, Position, Frequencies, S) /\ Gone(b, c, Around(ev))
    BY <1>2, <2>1, <2>2, <2>3, GoneTwice
  <2>5. QED
    BY <2>4 DEF c
<1>7. QED
  BY <1>5, <1>6

-----------------------------------------------------------------------------
(* A merge in the book: the edges that are added.                          *)

\* The edge at start is in the newborn pair s of c, at the end of its list.
JoinedTo(b, c, start, key, s) ==
    /\ s \in DOMAIN c.pairs /\ Newborn(c, s) /\ c.pairs[s].key = key
    /\ EdgesOf(c, s) = EdgesOf(b, s) \cup {start} /\ c.pairs[s].last_word = start[1]
    /\ \A k : k # s => EdgesOf(c, k) = EdgesOf(b, k)
    /\ \A k \in DOMAIN b.pairs \ {s} : c.pairs[k].last_word = b.pairs[k].last_word

\* The book c registers what b does, and the edge at start in a newborn pair of that key.
Joined(b, c, start, key) ==
    /\ \E s : JoinedTo(b, c, start, key, s)
    /\ \A p \in DOMAIN b.edge_group : KeyOf(c, p) = IF p = start THEN key ELSE KeyOf(b, p)
    /\ DOMAIN c.edge_group = DOMAIN b.edge_group /\ c.aborted = b.aborted
    /\ \A k : k \notin DOMAIN b.pairs => EdgesOf(b, k) = {}
    /\ \A k \in DOMAIN c.pairs \ DOMAIN b.pairs : Newborn(c, k)

\* The lists of all newborn pairs are at hand.
NewbornsListed(b, S) == \A s \in DOMAIN b.pairs : Newborn(b, s) => s \in S

\* The pairs of S, and the new ones.
WithNew(S, b, c) == S \cup (DOMAIN c.pairs \ DOMAIN b.pairs)

LEMMA GotNew ==
    ASSUME NEW P, NEW b, BookOK(b, P), NEW key, NEW g, GotPair(b, g, key)
    PROVE  \A k \in DOMAIN g.book.pairs : k \in DOMAIN b.pairs \/ k = g.state
<1>1. CASE g.book = b
  BY <1>1
<1>2. CASE Created(b, g.book, key) /\ g.state = Len(b.pairs) + 1
  <2>1. DOMAIN g.book.pairs = DOMAIN b.pairs \cup {Len(b.pairs) + 1}
    BY <1>2, CreatedPairs
  <2>2. QED
    BY <1>2, <2>1
<1>3. QED
  BY <1>1, <1>2 DEF GotPair

\* The pair that a get_ operator returns is at hand, and start goes behind its edges.
LEMMA GotReady ==
    ASSUME NEW P, Slots(P), NEW F \in [P -> Nat], NEW b, NEW S, Sound(b, P, F, S),
           NewbornsListed(b, S), NEW key, NEW g, GotPair(b, g, key), BookOK(g.book, P),
           NEW merged, GetsNewborn(b, g, merged),
           NEW start, NewbornsBehind(b, {start}, start[1])
    PROVE  /\ Sound(g.book, P, F, S \cup {g.state}) /\ Got(b, g, key)
           /\ Appendable(g.book, g.state, start)
<1>1. g.state \in DOMAIN b.pairs => Newborn(b, g.state)
  BY DEF GetsNewborn, Grows
<1>2. g.state \in DOMAIN b.pairs => g.state \in S
  BY <1>1 DEF NewbornsListed
<1>3. Sound(g.book, P, F, S \cup {g.state}) /\ Got(b, g, key)
  BY <1>2, GotSound
<1>4. Appendable(g.book, g.state, start)
  <2>1. Alike(b, g.book)
    BY <1>3 DEF Got
  <2>2. CASE g.state \notin DOMAIN b.pairs
    <3>1. EdgesOf(g.book, g.state) = {}
      BY <2>1, <2>2 DEF Alike
    <3>2. QED
      BY <3>1 DEF Appendable
  <2>3. CASE g.state \in DOMAIN b.pairs
    <3>1. g.book.pairs[g.state] = b.pairs[g.state] /\ EdgesOf(g.book, g.state) = EdgesOf(b, g.state)
      BY <2>1, <2>3 DEF Alike
    <3>2. QED
      BY <1>1, <2>3, <3>1 DEF NewbornsBehind, Appendable
  <2>4. QED
    BY <2>2, <2>3
<1>5. QED
  BY <1>3, <1>4

LEMMA AddStep ==
    ASSUME splits \in Corpora, NEW b, NEW S, Sound(b, Position, Frequencies, S), NewbornsListed(b, S),
           NEW V \in SUBSET Nat, NEW g, Gets(b, g, Position, V),
           NEW key, GotPair(b, g, key), NEW merged, GetsNewborn(b, g, merged),
           KeysSound(g.book, merged), NEW start \in Position, KeyOf(b, start) = no_position,
           NewbornsBehind(b, {start}, start[1])
    PROVE  LET c == add_edge(g.book, start, g.state, start[1], Frequencies[start])
           IN  /\ Sound(c, Position, Frequencies, WithNew(S, b, c))
               /\ Joined(b, c, start, key)
               /\ KeysSound(c, merged) /\ Ages(b, c, V, merged)
<1> DEFINE a == g.book
           s == g.state
           F == Frequencies
           c == add_edge(a, start, s, start[1], F[start])
<1>f. Slots(Position) /\ F \in [Position -> Nat] /\ start[1] \in Nat /\ F[start] \in Nat
  BY FrequenciesTyped, PositionsTyped
<1>1. BookOK(b, Position) /\ BookOK(a, Position) /\ s \in DOMAIN a.pairs /\ a.edge_group = b.edge_group
  BY DEF Sound, Gets, Extends
<1>2. b.edge_group[start] = no_position
  BY <1>f, <1>1, Unregistered DEF Slots
<1>3. /\ Sound(a, Position, F, S \cup {s}) /\ Got(b, g, key) /\ Appendable(a, s, start)
  <2> HIDE DEF F
  <2>1. QED
    BY <1>f, <1>1, GotReady DEF F
<1>4. Ages(b, c, V, merged)
  <2> HIDE DEF F
  <2>1. QED
    BY <1>f, <1>1, <1>2, AddAges
<1> HIDE DEF F, a, s
<1>5. /\ Sound(c, Position, F, S \cup {s}) /\ EdgePut(a, c, start, s)
      /\ SameStamps(a, c) /\ c.aborted = a.aborted
  <2>1. a.edge_group[start] = no_position
    BY <1>1, <1>2
  <2> DEFINE T == S \cup {s}
  <2>2. s \in T
    OBVIOUS
  <2> HIDE DEF T
  <2>3. Sound(a, Position, F, T)
    BY <1>3 DEF T
  <2>4. LET d == add_edge(a, start, s, start[1], F[start])
        IN  /\ Sound(d, Position, F, T) /\ EdgePut(a, d, start, s)
            /\ SameStamps(a, d) /\ d.aborted = a.aborted
    BY <1>f, <1>1, <1>3, <2>1, <2>2, <2>3, PutEdge
  <2>5. QED
    BY <2>4 DEF T
<1> HIDE DEF c
<1>6. /\ Alike(b, a) /\ a.pairs[s].key = key
  BY <1>3 DEF Got, a, s
<1>7. DOMAIN c.pairs = DOMAIN a.pairs /\ \A k \in DOMAIN a.pairs : c.pairs[k].key = a.pairs[k].key
  BY <1>5 DEF EdgePut
<1>8. \A k \in DOMAIN c.pairs : k \in DOMAIN b.pairs \/ k = s
  <2>1. \A k \in DOMAIN a.pairs : k \in DOMAIN b.pairs \/ k = s
    BY <1>1, GotNew DEF a, s
  <2>2. QED
    BY <1>7, <2>1
<1>9. Newborn(c, s)
  <2>1. Newborn(a, s)
    BY DEF GetsNewborn, a, s
  <2>2. QED
    BY <1>5, <2>1 DEF Newborn, SameStamps
<1>10. Sound(c, Position, F, WithNew(S, b, c))
  <2> DEFINE T == WithNew(S, b, c)
  <2>1. \A k \in T : k \in S \cup {s}
    BY <1>8 DEF WithNew
  <2> HIDE DEF T
  <2>2. BookOK(c, Position)
    BY <1>5 DEF Sound
  <2>3. QED
    BY <1>5, <2>1, <2>2, SoundSame DEF T
<1>11. KeysSound(c, merged)
  <2>1. KeysSound(a, merged)
    BY DEF a
  <2>2. QED
    BY <1>5, <1>7, <2>1, KeysKept
<1>12. \A k : k \notin DOMAIN b.pairs => EdgesOf(b, k) = {}
  BY <1>6 DEF Alike
<1>13. JoinedTo(b, c, start, key, s)
  <2>1. s \in DOMAIN c.pairs /\ c.pairs[s].key = key
    BY <1>1, <1>6, <1>7
  <2>2. \A k : EdgesOf(a, k) = EdgesOf(b, k)
    BY <1>6 DEF Alike
  <2>3. EdgesOf(c, s) = EdgesOf(b, s) \cup {start} /\ \A k : k # s => EdgesOf(c, k) = EdgesOf(b, k)
    BY <1>5, <2>2 DEF EdgePut
  <2>4. c.pairs[s].last_word = start[1]
    BY <1>5 DEF EdgePut
  <2>5. \A k \in DOMAIN b.pairs \ {s} : c.pairs[k].last_word = b.pairs[k].last_word
    BY <1>5, <1>6 DEF EdgePut, Alike
  <2>6. QED
    BY <1>9, <2>1, <2>3, <2>4, <2>5 DEF JoinedTo
<1>14. \A p \in DOMAIN b.edge_group : KeyOf(c, p) = IF p = start THEN key ELSE KeyOf(b, p)
  BY <1>5, <1>6 DEF EdgePut, Alike
<1>15. DOMAIN c.edge_group = DOMAIN b.edge_group
  BY <1>1, <1>f, <1>5, Unregistered DEF Sound, Slots
<1>16. c.aborted = b.aborted
  BY <1>5, <1>6 DEF Alike
<1>17. Joined(b, c, start, key)
  BY <1>8, <1>9, <1>12, <1>13, <1>14, <1>15, <1>16 DEF Joined
<1>18. QED
  BY <1>4, <1>10, <1>11, <1>17 DEF c, a, s, F

-----------------------------------------------------------------------------
(* A merge in the book, all in all.                                        *)

\* From b to c a part of a merge has been worked off: the book is as sound as it was,
\* and only newborn pairs have new edges.
Stepped(b, c, S, V, merged) ==
    /\ Sound(c, Position, Frequencies, WithNew(S, b, c)) /\ KeysSound(c, merged)
    /\ Ages(b, c, V, merged) /\ c.aborted = b.aborted
    /\ \A k \in DOMAIN b.pairs : ~Newborn(b, k) => EdgesOf(c, k) \subseteq EdgesOf(b, k)
    /\ \A k \in DOMAIN c.pairs \ DOMAIN b.pairs : Newborn(c, k)

LEMMA SteppedNot ==
    ASSUME NEW b, NEW S, Sound(b, Position, Frequencies, S), NEW V, KeysIn(b, V), NEW merged,
           StampsSound(b, merged), KeysSound(b, merged)
    PROVE  Stepped(b, b, S, V, merged)
<1>1. WithNew(S, b, b) = S
  BY DEF WithNew
<1>2. Grows(b, b)
  BY GrowsNot DEF Sound, BookOK
<1>3. BookOK(b, Position)
  BY DEF Sound
<1>4. Ages(b, b, V, merged)
  BY <1>2, <1>3 DEF Ages, Kept
<1>5. QED
  BY <1>1, <1>4 DEF Stepped

LEMMA SteppedTwice ==
    ASSUME NEW b, NEW c, NEW d, NEW S, NEW V, NEW merged, BookOK(b, Position),
           Stepped(b, c, S, V, merged), Stepped(c, d, WithNew(S, b, c), V, merged)
    PROVE  Stepped(b, d, S, V, merged)
<1>1. Ages(b, c, V, merged) /\ Ages(c, d, V, merged)
  BY DEF Stepped
<1>2. Ages(b, d, V, merged)
  BY <1>1, AgesTwice
<1>3. /\ DOMAIN b.pairs \subseteq DOMAIN c.pairs /\ DOMAIN c.pairs \subseteq DOMAIN d.pairs
      /\ \A k \in DOMAIN b.pairs : Newborn(c, k) => Newborn(b, k)
  BY <1>1 DEF Ages, Grows
<1>4. WithNew(WithNew(S, b, c), c, d) = WithNew(S, b, d)
  BY <1>3 DEF WithNew
<1>5. \A k \in DOMAIN b.pairs : ~Newborn(b, k) => EdgesOf(d, k) \subseteq EdgesOf(b, k)
  BY <1>3 DEF Stepped
<1>6. \A k \in DOMAIN d.pairs \ DOMAIN b.pairs : Newborn(d, k)
  BY <1>1, <1>3 DEF Stepped, Ages, Grows
<1>7. QED
  BY <1>2, <1>4, <1>5, <1>6 DEF Stepped

LEMMA NewbornsStayListed ==
    ASSUME NEW b, NEW c, NEW S, NEW V, NEW merged, NewbornsListed(b, S), Ages(b, c, V, merged)
    PROVE  NewbornsListed(c, WithNew(S, b, c))
<1>1. QED
  BY DEF NewbornsListed, WithNew, Ages, Grows

LEMMA GoneBehind ==
    ASSUME NEW b, NEW c, NEW X, Gone(b, c, X), NEW T, NEW w, NewbornsBehind(b, T, w)
    PROVE  NewbornsBehind(c, T, w)
<1> SUFFICES ASSUME NEW s \in DOMAIN c.pairs, Newborn(c, s), NEW q \in EdgesOf(c, s), NEW x \in T,
                    x[1] = q[1]
             PROVE  q[2] < x[2] /\ q[1] = w /\ c.pairs[s].last_word = w
  BY DEF NewbornsBehind
<1>1. s \in DOMAIN b.pairs /\ Newborn(b, s) /\ q \in EdgesOf(b, s)
  BY DEF Gone, SameStamps, Newborn
<1>2. q[2] < x[2] /\ q[1] = w /\ b.pairs[s].last_word = w
  BY <1>1 DEF NewbornsBehind
<1>3. QED
  BY <1>1, <1>2 DEF Gone

LEMMA JoinedBehind ==
    ASSUME NEW b, NEW c, NEW start, NEW key, Joined(b, c, start, key), Grows(b, c),
           NEW T, NEW w, NewbornsBehind(b, T, w), start[1] = w,
           \A x \in T : x[1] = w => start[2] < x[2]
    PROVE  NewbornsBehind(c, T, w)
<1> SUFFICES ASSUME NEW s \in DOMAIN c.pairs, Newborn(c, s), NEW q \in EdgesOf(c, s), NEW x \in T,
                    x[1] = q[1]
             PROVE  q[2] < x[2] /\ q[1] = w /\ c.pairs[s].last_word = w
  BY DEF NewbornsBehind
<1>1. PICK k : JoinedTo(b, c, start, key, k)
  BY DEF Joined
<1>2. q \in EdgesOf(b, s) => s \in DOMAIN b.pairs /\ Newborn(b, s)
  BY DEF Joined, Grows
<1>3. q \in EdgesOf(b, s) => q[2] < x[2] /\ q[1] = w /\ b.pairs[s].last_word = w
  BY <1>2 DEF NewbornsBehind
<1>4. CASE s = k
  <2>1. c.pairs[s].last_word = w /\ (q \in EdgesOf(b, s) \/ q = start)
    BY <1>1, <1>4 DEF JoinedTo
  <2>2. QED
    BY <1>3, <2>1
<1>5. CASE s # k
  <2>1. q \in EdgesOf(b, s)
    BY <1>1, <1>5 DEF JoinedTo
  <2>2. c.pairs[s].last_word = b.pairs[s].last_word
    BY <1>1, <1>2, <1>5, <2>1 DEF JoinedTo
  <2>3. QED
    BY <1>3, <2>1, <2>2
<1>6. QED
  BY <1>4, <1>5

LEMMA BehindFewer ==
    ASSUME NEW b, NEW T, NEW w, NewbornsBehind(b, T, w), NEW U \in SUBSET T
    PROVE  NewbornsBehind(b, U, w)
<1>1. QED
  BY DEF NewbornsBehind

\* One edge is added.
LEMMA AddStepped ==
    ASSUME splits \in Corpora, NEW b, NEW S, Sound(b, Position, Frequencies, S), NewbornsListed(b, S),
           NEW V \in SUBSET Nat, NEW g, Gets(b, g, Position, V),
           NEW key, GotPair(b, g, key), NEW merged, GetsNewborn(b, g, merged),
           KeysSound(g.book, merged), NEW start \in Position, KeyOf(b, start) = no_position,
           NewbornsBehind(b, {start}, start[1]),
           NEW f, f = Frequencies[start], NEW w, w = start[1]
    PROVE  LET c == add_edge(g.book, start, g.state, w, f)
           IN  Stepped(b, c, S, V, merged) /\ Joined(b, c, start, key)
<1> DEFINE c == add_edge(g.book, start, g.state, start[1], Frequencies[start])
<1>1. /\ Sound(c, Position, Frequencies, WithNew(S, b, c))
      /\ Joined(b, c, start, key)
      /\ KeysSound(c, merged) /\ Ages(b, c, V, merged)
  BY AddStep
<1> HIDE DEF c
<1>2. \A k \in DOMAIN b.pairs : ~Newborn(b, k) => EdgesOf(c, k) \subseteq EdgesOf(b, k)
  <2>1. PICK s : JoinedTo(b, c, start, key, s)
    BY <1>1 DEF Joined
  <2>2. \A k \in DOMAIN b.pairs : ~Newborn(b, k) => k # s
    BY <1>1, <2>1 DEF JoinedTo, Ages, Grows
  <2>3. QED
    BY <2>1, <2>2 DEF JoinedTo
<1>3. /\ c.aborted = b.aborted
      /\ \A k \in DOMAIN c.pairs \ DOMAIN b.pairs : Newborn(c, k)
  BY <1>1 DEF Joined
<1>4. Stepped(b, c, S, V, merged)
  BY <1>1, <1>2, <1>3 DEF Stepped
<1>5. QED
  BY <1>1, <1>4 DEF c

\* Where the new edges of a merge come: behind all edges of newborn pairs in the word,
\* the left one too.
Places(b, ev, T, w) ==
    /\ ev.position[1] = w /\ ev.position[2] \in Nat
    /\ \A x \in T : x[2] \in Nat /\ (x[1] = w => ev.position[2] < x[2])
    /\ NewbornsBehind(b, T, w) /\ NewbornsBehind(b, {ev.position}, w)
    /\ ev.left # no_position => /\ ev.left[1] = w /\ ev.left[2] < ev.position[2]
                                /\ ev.left[2] \in Nat /\ NewbornsBehind(b, {ev.left}, w)

\* The edges of the merged token, in the book d that was b.
KeysAdded(b, d, ev, merged) ==
    /\ DOMAIN d.edge_group = DOMAIN b.edge_group
    /\ \A p \in DOMAIN b.edge_group :
          KeyOf(d, p) = IF p = ev.left THEN <<ev.left_token, merged>>
                        ELSE IF p = ev.position /\ ev.after # no_position
                             THEN <<merged, ev.after_token>> ELSE KeyOf(b, p)

LEMMA AddsExact ==
    ASSUME splits \in Corpora, NEW b, NEW S, Sound(b, Position, Frequencies, S), NewbornsListed(b, S),
           NEW V \in SUBSET Nat, KeysIn(b, V), NEW ev, Workable(b, ev, V),
           NEW merged \in V, StampsSound(b, merged), KeysSound(b, merged),
           KeyOf(b, ev.position) = no_position,
           ev.left # no_position => KeyOf(b, ev.left) = no_position,
           NEW T, NEW w, Places(b, ev, T, w)
    PROVE  LET d == AddEdges(b, ev, merged)
           IN  /\ Stepped(b, d, S, V, merged) /\ KeysAdded(b, d, ev, merged)
               /\ NewbornsBehind(d, T, w)
<1> DEFINE f  == Frequency(ev.position)
           l  == get_left_pair_state(b, ev.left_token, merged)
           a1 == add_edge(l.book, ev.left, l.state, ev.position[1], f)
           b1 == IF ev.left = no_position THEN b ELSE a1
           r  == get_right_pair_state(b1, merged, ev.after_token)
           a2 == add_edge(r.book, ev.position, r.state, ev.position[1], f)
           d  == AddEdges(b, ev, merged)
<1>1. /\ ev.position \in Position /\ merged \in Nat /\ f = Frequencies[ev.position]
      /\ ev.position[1] = w /\ no_position \notin Position
  BY FrequenciesTyped DEF Workable, Places, Slots
<1>2. d = IF ev.after = no_position THEN b1 ELSE a2
  BY DEF AddEdges
<1>3. BookOK(b, Position) /\ DOMAIN b.edge_group = Position
  BY FrequenciesTyped, Unregistered DEF Sound, Slots
<1> HIDE DEF f, d
\* The edge from the left neighbour.
<1>4. /\ Stepped(b, b1, S, V, merged) /\ DOMAIN b1.edge_group = DOMAIN b.edge_group
      /\ \A p \in Position : KeyOf(b1, p) = IF p = ev.left THEN <<ev.left_token, merged>>
                                            ELSE KeyOf(b, p)
      /\ NewbornsBehind(b1, T, w) /\ NewbornsBehind(b1, {ev.position}, w)
  <2>1. CASE ev.left = no_position
    <3>1. b1 = b
      BY <2>1
    <3> HIDE DEF b1
    <3>2. Stepped(b, b, S, V, merged)
      BY SteppedNot
    <3>3. QED
      BY <1>1, <2>1, <3>1, <3>2 DEF Places
  <2>2. CASE ev.left # no_position
    <3> DEFINE start == ev.left
               key   == <<ev.left_token, merged>>
    <3>1. /\ start \in Position /\ ev.left_token \in V /\ ev.left_token \in Nat
          /\ KeyOf(b, start) = no_position
          /\ w = start[1] /\ start[2] < ev.position[2]
          /\ start[2] \in Nat /\ NewbornsBehind(b, {start}, w)
      BY <2>2 DEF Workable, Optional, Places
    <3>2. f = Frequencies[start]
      BY <1>1, <3>1, FrequenciesTyped DEF f
    <3>3. /\ Gets(b, l, Position, V) /\ GetsNewborn(b, l, merged)
          /\ GotPair(b, l, key) /\ KeysSound(l.book, merged)
      BY <1>1, <1>3, <3>1, GetLeft, LeftNewborn, GotLeft
    <3>4. b1 = add_edge(l.book, start, l.state, w, f)
      BY <1>1, <2>2
    <3> HIDE DEF l, start, key, b1
    <3>5. LET c == add_edge(l.book, start, l.state, w, f)
          IN  Stepped(b, c, S, V, merged) /\ Joined(b, c, start, key)
      BY <3>1, <3>2, <3>3, AddStepped
    <3>6. Stepped(b, b1, S, V, merged) /\ Joined(b, b1, start, key)
      BY <3>4, <3>5
    <3>7. Grows(b, b1)
      BY <3>6 DEF Stepped, Ages
    <3>8. NewbornsBehind(b1, T, w)
      <4>1. \A x \in T : x[1] = w => start[2] < x[2]
        BY <3>1 DEF Places
      <4>2. NewbornsBehind(b, T, w)
        BY DEF Places
      <4>3. QED
        BY <3>1, <3>6, <3>7, <4>1, <4>2, JoinedBehind
    <3>9. NewbornsBehind(b1, {ev.position}, w)
      <4>1. \A x \in {ev.position} : x[1] = w => start[2] < x[2]
        BY <3>1
      <4>2. NewbornsBehind(b, {ev.position}, w)
        BY DEF Places
      <4>3. QED
        BY <3>1, <3>6, <3>7, <4>1, <4>2, JoinedBehind
    <3>10. /\ DOMAIN b1.edge_group = DOMAIN b.edge_group
           /\ \A p \in Position : KeyOf(b1, p) = IF p = start THEN key ELSE KeyOf(b, p)
      BY <1>3, <3>6 DEF Joined
    <3>11. QED
      BY <3>6, <3>8, <3>9, <3>10 DEF start, key
  <2>3. QED
    BY <2>1, <2>2
<1> HIDE DEF b1
<1>5. CASE ev.after = no_position
  BY <1>2, <1>3, <1>4, <1>5 DEF d, KeysAdded
\* The edge to the right neighbour.
<1>6. CASE ev.after # no_position
  <2> DEFINE start == ev.position
             key   == <<merged, ev.after_token>>
             S1    == WithNew(S, b, b1)
  <2>1. /\ Sound(b1, Position, Frequencies, S1) /\ KeysSound(b1, merged) /\ Ages(b, b1, V, merged)
    BY <1>4 DEF Stepped
  <2>2. /\ BookOK(b1, Position) /\ KeysIn(b1, V) /\ StampsSound(b1, merged)
        /\ NewbornsListed(b1, S1) /\ ev.after_token \in V /\ ev.after_token \in Nat
    BY <1>6, <2>1, NewbornsStayListed DEF Ages, Kept, Workable
  <2>3. /\ Gets(b1, r, Position, V) /\ GetsNewborn(b1, r, merged)
        /\ GotPair(b1, r, key) /\ KeysSound(r.book, merged)
    BY <1>1, <2>1, <2>2, GetRight, RightNewborn, GotRight
  <2>4. start \in Position /\ KeyOf(b1, start) = no_position /\ f = Frequencies[start]
        /\ w = start[1] /\ NewbornsBehind(b1, {start}, w)
    BY <1>1, <1>4 DEF Workable
  <2>5. d = add_edge(r.book, start, r.state, w, f)
    BY <1>1, <1>2, <1>6
  <2> HIDE DEF r, start, key, S1
  <2>6. LET c == add_edge(r.book, start, r.state, w, f)
        IN  Stepped(b1, c, S1, V, merged) /\ Joined(b1, c, start, key)
    BY <2>1, <2>2, <2>3, <2>4, AddStepped
  <2>7. Stepped(b1, d, S1, V, merged) /\ Joined(b1, d, start, key)
    BY <2>5, <2>6
  <2>8. Grows(b1, d)
    BY <2>7 DEF Stepped, Ages
  <2>9. NewbornsBehind(d, T, w)
    <3>1. \A x \in T : x[1] = w => start[2] < x[2]
      BY DEF Places, start
    <3>2. QED
      BY <1>4, <2>4, <2>7, <2>8, <3>1, JoinedBehind
  <2>10. Stepped(b, d, S, V, merged)
    BY <1>3, <1>4, <2>7, SteppedTwice DEF S1
  <2>11. KeysAdded(b, d, ev, merged)
    <3>1. /\ DOMAIN d.edge_group = DOMAIN b1.edge_group
          /\ \A p \in Position : KeyOf(d, p) = IF p = start THEN key ELSE KeyOf(b1, p)
      BY <1>3, <1>4, <2>7 DEF Joined
    <3>2. ev.left # ev.position
      BY DEF Workable
    <3>3. QED
      BY <1>3, <1>4, <1>6, <3>1, <3>2 DEF KeysAdded, start, key
  <2>12. QED
    BY <2>9, <2>10, <2>11 DEF d
<1>7. QED
  BY <1>5, <1>6

-----------------------------------------------------------------------------
(* The replay of an event.                                                 *)

\* The event e is the leftmost of its word.
FirstOfWord(E, e) ==
    \A f \in E : f # e /\ f.position[1] = e.position[1] => e.position[2] < f.position[2]

\* What the event's neighbourhood is in the chain and in the book.
EventPlace(ch, P, b, E, l, r, e) ==
    LET p == e.position
    IN  /\ p \in P /\ e.right \in P /\ ch.alive[p] /\ ~ch.alive[e.right]
        /\ e.right # p /\ e.right[1] = p[1] /\ p[2] \in Nat
        /\ KeyOf(b, p) = <<l, r>>
        /\ e.left # no_position =>
             /\ e.left \in P /\ ch.alive[e.left] /\ ch.next[e.left] = p /\ e.left # p
             /\ e.left[1] = p[1] /\ e.left[2] < p[2] /\ e.left[2] \in Nat
             /\ e.left \notin Mergeds(E) /\ e.left_token = ch.token[e.left]
             /\ KeyOf(b, e.left) = <<e.left_token, l>>
        /\ \A q \in P : ch.alive[q] /\ q[1] = p[1] /\ q[2] < p[2] =>
             e.left # no_position /\ q[2] <= e.left[2]
        /\ \A q \in P : ch.alive[q] /\ ch.next[q] = p => q = e.left
        /\ e.after # no_position => /\ e.after = ch.next[p] /\ ch.alive[ch.next[p]]
                                    /\ e.after_token = OldToken(ch, E, l, e.after)
                                    /\ e.after # p
                                    /\ KeyOf(b, e.right) = <<r, e.after_token>>
        /\ e.after = no_position => ~ch.alive[ch.next[p]] /\ KeyOf(b, e.right) = no_position

LEMMA EventPlaced ==
    ASSUME NEW P, Slots(P), NEW ch, ChainOK(ch, P), NEW E, NEW l, NEW r, NEW merged,
           Fits(ch, E, P, l, merged), NEW e \in E, FirstOfWord(E, e),
           NEW b, DOMAIN b.edge_group = P, Describes(b, ch, E, l, r)
    PROVE  EventPlace(ch, P, b, E, l, r, e)
<1> DEFINE p == e.position
           n == ch.next[p]
<1>1. /\ p \in P /\ e.right \in P /\ ch.alive[p]
      /\ ~ch.alive[e.right] /\ e.right[1] = p[1]
      /\ e.left = ch.previous[p]
      /\ e.left # no_position => e.left_token = ch.token[e.left]
      /\ e.after = IF ch.alive[n] THEN n ELSE no_position
      /\ e.after # no_position => e.after_token = OldToken(ch, E, l, e.after)
  BY DEF Fits, EventFits
<1>2. /\ n \in P /\ p[2] < n[2]
      /\ ch.previous[p] # no_position =>
           /\ ch.previous[p] \in P /\ ch.alive[ch.previous[p]] /\ ch.next[ch.previous[p]] = p
           /\ ch.previous[p][1] = p[1] /\ ch.previous[p][2] < p[2]
      /\ \A q \in P : ch.alive[q] /\ q[1] = p[1] /\ q[2] < p[2] =>
           ch.previous[p] # no_position /\ q[2] <= ch.previous[p][2]
  BY <1>1 DEF ChainOK
<1>3. \A q \in P : ch.alive[q] /\ ch.next[q] = p => q = e.left
  BY <1>1 DEF ChainOK
<1>4. no_position \notin P /\ \A x \in P : x[2] \in Nat
  BY DEF Slots
<1>5. KeyOf(b, p) = <<l, r>> /\ KeyOf(b, e.right) = EdgeKey(ch, E, l, r, n)
  BY DEF Describes
<1>6. p \in Mergeds(E)
  BY DEF Mergeds
<1>7. e.left # no_position =>
        /\ e.left \notin Mergeds(E) /\ KeyOf(b, e.left) = <<e.left_token, l>>
  <2> SUFFICES ASSUME e.left # no_position
               PROVE  e.left \notin Mergeds(E) /\ KeyOf(b, e.left) = <<e.left_token, l>>
    OBVIOUS
  <2> DEFINE q == e.left
  <2>1. /\ q \in P /\ ch.alive[q] /\ ch.next[q] = p /\ q[1] = p[1] /\ q[2] < p[2]
        /\ q[2] \in Nat /\ p[2] \in Nat
    BY <1>1, <1>2, <1>4
  <2>2. \A f \in E : f.position # q
    BY <2>1 DEF FirstOfWord
  <2>3. q \notin Mergeds(E)
    BY <2>2 DEF Mergeds
  <2>4. KeyOf(b, q) = EdgeKey(ch, E, l, ch.token[q], p)
    BY <2>1, <2>3 DEF Describes
  <2>5. EdgeKey(ch, E, l, ch.token[q], p) = <<ch.token[q], l>>
    BY <1>1, <1>6 DEF EdgeKey, OldToken
  <2>6. QED
    BY <1>1, <2>3, <2>4, <2>5
<1>8. e.after # no_position => e.after = n /\ ch.alive[n] /\ EdgeKey(ch, E, l, r, n) = <<r, e.after_token>>
  BY <1>1 DEF EdgeKey
<1>9. e.after = no_position => ~ch.alive[n] /\ EdgeKey(ch, E, l, r, n) = no_position
  BY <1>1, <1>2, <1>4 DEF EdgeKey
<1>10. e.right # p /\ p[2] \in Nat /\ n # p
  BY <1>1, <1>2, <1>4
<1>11. e.left # no_position =>
        /\ e.left \in P /\ ch.alive[e.left] /\ ch.next[e.left] = p /\ e.left # p
        /\ e.left[1] = p[1] /\ e.left[2] < p[2] /\ e.left[2] \in Nat
        /\ e.left_token = ch.token[e.left]
  BY <1>1, <1>2, <1>4
<1>12. \A q \in P : ch.alive[q] /\ q[1] = p[1] /\ q[2] < p[2] =>
             e.left # no_position /\ q[2] <= e.left[2]
  BY <1>1, <1>2
<1>13. QED
  BY <1>1, <1>3, <1>5, <1>7, <1>8, <1>9, <1>10, <1>11, <1>12 DEF EventPlace

\* The book after the replay describes the chain with one event less.
LEMMA ReplayDescribes ==
    ASSUME NEW P, Slots(P), NEW ch, ChainOK(ch, P), NEW E, NEW l, NEW r, NEW merged,
           Fits(ch, E, P, l, merged), NEW e \in E,
           NEW b, DOMAIN b.edge_group = P, Describes(b, ch, E, l, r),
           EventPlace(ch, P, b, E, l, r, e),
           NEW c, Gone(b, c, Around(e)), NEW d, KeysAdded(c, d, e, merged)
    PROVE  Describes(d, ch, E \ {e}, l, r)
<1> DEFINE p == e.position
           E2 == E \ {e}
<1>1. /\ p \in P /\ e.right \in P /\ ch.alive[p] /\ ~ch.alive[e.right] /\ e.right # p
      /\ e.left # no_position =>
           /\ e.left \in P /\ ch.alive[e.left] /\ ch.next[e.left] = p /\ e.left # p
           /\ e.left \notin Mergeds(E) /\ e.left_token = ch.token[e.left]
      /\ \A q \in P : ch.alive[q] /\ ch.next[q] = p => q = e.left
      /\ e.after # no_position => /\ e.after = ch.next[p] /\ ch.alive[ch.next[p]]
                                  /\ e.after_token = OldToken(ch, E, l, e.after)
                                  /\ e.after # p
      /\ e.after = no_position => ~ch.alive[ch.next[p]]
      /\ no_position \notin P
  BY DEF EventPlace, Slots
<1>2. \A q \in P : KeyOf(d, q) = IF q = e.left THEN <<e.left_token, merged>>
                                 ELSE IF q = p /\ e.after # no_position
                                 THEN <<merged, e.after_token>>
                                 ELSE IF q \in Around(e) THEN no_position ELSE KeyOf(b, q)
  BY DEF Gone, KeysAdded
<1>3. DOMAIN d.edge_group = P
  BY DEF Gone, KeysAdded
<1>4. \A f \in E2 : f.position # p /\ f.right # e.right
  BY DEF Fits, EventsApart
<1>5. Mergeds(E2) = Mergeds(E) \ {p} /\ Rights(E2) = Rights(E) \ {e.right} /\ p \in Mergeds(E)
  BY <1>4 DEF Mergeds, Rights
<1>6. ch.token[p] = merged
  BY DEF Fits, EventFits
<1>7. \A q : q # p => OldToken(ch, E2, l, q) = OldToken(ch, E, l, q)
  BY <1>5 DEF OldToken
<1>8. OldToken(ch, E2, l, p) = merged
  BY <1>5, <1>6 DEF OldToken
<1> HIDE DEF E2
<1>9. \A q, v : q # p => EdgeKey(ch, E2, l, v, q) = EdgeKey(ch, E, l, v, q)
  BY <1>7 DEF EdgeKey
<1>10. \A q \in P : q \in Around(e) <=> q = p \/ q = e.right \/ (q = e.left /\ e.left # no_position)
  BY DEF Around
<1>11. ASSUME NEW q \in P, ch.alive[q], q \notin Mergeds(E2)
       PROVE  KeyOf(d, q) = EdgeKey(ch, E2, l, ch.token[q], ch.next[q])
  <2>1. CASE q = p
    <3>1. CASE e.after # no_position
      <4>1. KeyOf(d, p) = <<merged, e.after_token>>
        BY <1>1, <1>2, <3>1
      <4>2. EdgeKey(ch, E2, l, merged, ch.next[p]) = <<merged, e.after_token>>
        BY <1>1, <1>7, <3>1 DEF EdgeKey
      <4>3. QED
        BY <1>6, <2>1, <4>1, <4>2
    <3>2. CASE e.after = no_position
      <4>1. KeyOf(d, p) = no_position
        BY <1>1, <1>2, <1>10, <3>2
      <4>2. EdgeKey(ch, E2, l, merged, ch.next[p]) = no_position
        BY <1>1, <3>2 DEF EdgeKey
      <4>3. QED
        BY <1>6, <2>1, <4>1, <4>2
    <3>3. QED
      BY <3>1, <3>2
  <2>2. CASE q = e.left /\ e.left # no_position
    <3>1. KeyOf(d, q) = <<e.left_token, merged>>
      BY <1>2, <2>2
    <3>2. EdgeKey(ch, E2, l, ch.token[q], p) = <<ch.token[q], merged>>
      BY <1>1, <1>8 DEF EdgeKey
    <3>3. QED
      BY <1>1, <2>2, <3>1, <3>2
  <2>3. CASE q # p /\ q # e.left
    <3>1. KeyOf(d, q) = KeyOf(b, q)
      BY <1>1, <1>2, <1>10, <1>11, <2>3
    <3>2. KeyOf(b, q) = EdgeKey(ch, E, l, ch.token[q], ch.next[q])
      BY <1>5, <1>11, <2>3 DEF Describes
    <3>3. ch.next[q] # p
      BY <1>1, <1>11, <2>3
    <3>4. QED
      BY <1>9, <3>1, <3>2, <3>3
  <2>4. q # no_position
    BY <1>1
  <2>5. QED
    BY <2>1, <2>2, <2>3, <2>4
<1>12. ASSUME NEW q \in P, ~ch.alive[q], q \notin Rights(E2) PROVE KeyOf(d, q) = no_position
  <2>1. q # p /\ q # e.left /\ q # no_position
    BY <1>1, <1>12
  <2>2. QED
    BY <1>2, <1>5, <1>10, <1>12, <2>1 DEF Describes
<1>13. ASSUME NEW f \in E2
       PROVE  /\ KeyOf(d, f.position) = <<l, r>>
              /\ KeyOf(d, f.right) = EdgeKey(ch, E2, l, r, ch.next[f.position])
  <2>1. f \in E /\ f.position # p /\ f.right # e.right
    BY <1>4 DEF E2
  <2>2. /\ f.position \in P /\ f.right \in P /\ ch.alive[f.position] /\ ~ch.alive[f.right]
        /\ f.position \in Mergeds(E)
    BY <2>1 DEF Fits, EventFits, Mergeds
  <2>a. p # no_position /\ f.position # no_position /\ f.right # no_position
    BY <1>1, <2>2
  <2>3. f.position # e.left /\ f.right # p /\ f.right # e.left /\ f.position # e.right
    BY <1>1, <2>2, <2>a
  <2>4. KeyOf(d, f.position) = KeyOf(b, f.position) /\ KeyOf(d, f.right) = KeyOf(b, f.right)
    BY <1>2, <1>10, <2>1, <2>2, <2>3
  <2>5. /\ KeyOf(b, f.position) = <<l, r>>
        /\ KeyOf(b, f.right) = EdgeKey(ch, E, l, r, ch.next[f.position])
    BY <2>1 DEF Describes
  <2>6. ch.next[f.position] # p
    BY <1>1, <2>2, <2>3, <2>a
  <2>7. QED
    BY <1>9, <2>4, <2>5, <2>6
<1>14. QED
  BY <1>3, <1>11, <1>12, <1>13 DEF Describes, E2

\* The edges that the replay takes out are registered.
LEMMA EventRemovable ==
    ASSUME NEW P, Slots(P), NEW ch, NEW E, NEW l \in Nat, NEW r \in Nat, NEW e,
           NEW b, NEW V \in SUBSET Nat, Workable(b, e, V), EventPlace(ch, P, b, E, l, r, e)
    PROVE  Removable(b, e, P)
<1> DEFINE p == e.position
<1>1. /\ p \in P /\ e.right \in P /\ ch.alive[p] /\ ~ch.alive[e.right] /\ e.right # p
      /\ e.right[1] = p[1] /\ KeyOf(b, p) = <<l, r>>
      /\ e.left # no_position =>
           /\ e.left \in P /\ ch.alive[e.left] /\ e.left # p /\ e.left[1] = p[1]
           /\ KeyOf(b, e.left) = <<e.left_token, l>>
      /\ e.after # no_position => KeyOf(b, e.right) = <<r, e.after_token>>
      /\ e.after = no_position => KeyOf(b, e.right) = no_position
  BY DEF EventPlace
<1>2. /\ e.left # no_position => e.left_token \in Nat
      /\ e.after # no_position => e.after_token \in Nat
  BY DEF Workable
<1>3. \A x, y \in Nat : <<x, y>> # no_position
  BY NoPositionAssumption
<1>4. no_position \notin P
  BY DEF Slots
<1>5. QED
  BY <1>1, <1>2, <1>3, <1>4 DEF Removable

\* No newborn pair has an edge between the left neighbour and the event.
LEMMA LeftBehind ==
    ASSUME NEW P, Slots(P), NEW ch, NEW E, NEW l, NEW r, NEW merged,
           Fits(ch, E, P, l, merged), NEW e \in E, FirstOfWord(E, e),
           NEW b, BookOK(b, P), Describes(b, ch, E, l, r), EventPlace(ch, P, b, E, l, r, e),
           NewbornsBehind(b, {e.position}, e.position[1]), e.left # no_position,
           NEW c, Gone(b, c, Around(e))
    PROVE  NewbornsBehind(c, {e.left}, e.position[1])
<1> DEFINE p == e.position
           w == e.position[1]
<1>1. /\ p \in P /\ e.left \in P /\ e.left[1] = p[1] /\ e.left[2] \in Nat /\ p[2] \in Nat
      /\ \A q \in P : ch.alive[q] /\ q[1] = p[1] /\ q[2] < p[2] => q[2] <= e.left[2]
  BY DEF EventPlace
<1>2. \A x \in P : x = <<x[1], x[2]>> /\ x[2] \in Nat
  BY DEF Slots
<1> SUFFICES ASSUME NEW s \in DOMAIN c.pairs, Newborn(c, s), NEW q \in EdgesOf(c, s), q[1] = w
             PROVE  q[2] < e.left[2] /\ c.pairs[s].last_word = w
  BY <1>1 DEF NewbornsBehind
<1>3. /\ s \in DOMAIN b.pairs /\ Newborn(b, s) /\ q \in EdgesOf(b, s) /\ q \notin Around(e)
      /\ b.pairs[s].last_word = w => c.pairs[s].last_word = w
  BY DEF Gone, SameStamps, Newborn
<1>4. q[2] < p[2] /\ b.pairs[s].last_word = w
  BY <1>3 DEF NewbornsBehind
<1>5. q \in P /\ KeyOf(b, q) # no_position /\ DOMAIN b.edge_group = P
  BY <1>3, Unregistered DEF Slots
<1>6. ch.alive[q]
  <2> SUFFICES ASSUME ~ch.alive[q] PROVE FALSE
    OBVIOUS
  <2>1. q \in Rights(E)
    BY <1>5 DEF Describes
  <2>2. PICK f \in E : f.right = q
    BY <2>1 DEF Rights
  <2>3. f.position \in P /\ f.right[1] = f.position[1] /\ f.position[2] < f.right[2]
    BY DEF Fits, EventFits
  <2>4. f.position[1] = w /\ f.position[2] < p[2] /\ f.position[2] \in Nat
    BY <1>1, <1>2, <1>4, <1>5, <2>2, <2>3
  <2>5. f # e => p[2] < f.position[2]
    BY <2>4 DEF FirstOfWord
  <2>6. QED
    BY <1>1, <2>4, <2>5
<1>7. q[2] <= e.left[2] /\ q # e.left
  BY <1>1, <1>3, <1>4, <1>5, <1>6 DEF Around
<1>8. q[2] # e.left[2]
  BY <1>1, <1>2, <1>5, <1>7
<1>9. QED
  BY <1>1, <1>2, <1>3, <1>4, <1>5, <1>7, <1>8

\* The positions of T that are in the event's word are the event's and later ones.
TodoFrom(T, P, e) ==
    /\ T \subseteq P /\ e.position \in T
    /\ \A x \in T : x[1] = e.position[1] /\ x # e.position => e.position[2] < x[2]

\* The book d is b after the replay of e.
Replayed(b, d, S, V, ch, E, l, r, merged, e, T) ==
    /\ Stepped(b, d, S, V, merged)
    /\ Describes(d, ch, E \ {e}, l, r)
    /\ NewbornsBehind(d, T \ {e.position}, e.position[1])

LEMMA ReplayMerge ==
    ASSUME splits \in Corpora, NEW ch, ChainOK(ch, Position), NEW l \in Nat, NEW r \in Nat, NEW E,
           NEW V \in SUBSET Nat, NEW merged \in V, Fits(ch, E, Position, l, merged),
           NEW e \in E, FirstOfWord(E, e),
           NEW b, NEW S, Sound(b, Position, Frequencies, S), NewbornsListed(b, S),
           KeysIn(b, V), Workable(b, e, V), StampsSound(b, merged), KeysSound(b, merged),
           Describes(b, ch, E, l, r),
           NEW T, TodoFrom(T, Position, e), NewbornsBehind(b, T, e.position[1])
    PROVE  LET c == RemoveEdges(b, e)
           IN  /\ c.aborted = b.aborted
               /\ Replayed(b, AddEdges(c, e, merged), S, V, ch, E, l, r, merged, e, T)
<1> DEFINE w == e.position[1]
           U == T \ {e.position}
           c == RemoveEdges(b, e)
           d == AddEdges(c, e, merged)
<1>1. Slots(Position) /\ BookOK(b, Position) /\ DOMAIN b.edge_group = Position
  BY FrequenciesTyped, Unregistered DEF Sound, Slots
<1>2. EventPlace(ch, Position, b, E, l, r, e)
  BY <1>1, EventPlaced
<1>3. Removable(b, e, Position)
  BY <1>1, <1>2, EventRemovable
<1>4. Sound(c, Position, Frequencies, S) /\ Gone(b, c, Around(e))
  BY <1>3, RemovesExact
<1>5. Ages(b, c, V, merged)
  BY <1>1, RemoveEdgesAges
<1> HIDE DEF c, d
<1>6. KeysSound(c, merged)
  <2>1. /\ SameStamps(b, c) /\ DOMAIN c.pairs = DOMAIN b.pairs
        /\ \A k \in DOMAIN b.pairs : c.pairs[k].key = b.pairs[k].key
    BY <1>4 DEF Gone
  <2>2. QED
    BY <2>1, KeysKept
<1>7. Stepped(b, c, S, V, merged)
  <2>1. WithNew(S, b, c) = S
    BY <1>4 DEF WithNew, Gone
  <2>2. QED
    BY <1>4, <1>5, <1>6, <2>1 DEF Stepped, Gone
<1>8. /\ KeysIn(c, V) /\ StampsSound(c, merged) /\ NewbornsListed(c, S)
  <2>1. WithNew(S, b, c) = S
    BY <1>4 DEF WithNew, Gone
  <2>2. QED
    BY <1>5, <2>1, NewbornsStayListed DEF Ages, Kept
<1>9. /\ KeyOf(c, e.position) = no_position
      /\ e.left # no_position => KeyOf(c, e.left) = no_position
      /\ e.after = no_position => KeyOf(c, e.right) = no_position
      /\ e.position \in Position /\ e.right \in Position
  BY <1>1, <1>3, <1>4 DEF Gone, Around, Removable
<1>10. Workable(c, e, V)
  <2>1. e.after = no_position => c.edge_group[e.right] = no_position
    BY <1>1, <1>4, <1>9, Unregistered DEF Sound, Slots
  <2>2. QED
    BY <2>1 DEF Workable
<1>11. Places(c, e, U, w)
  <2>1. e.position[2] \in Nat /\ \A x \in U : x[2] \in Nat /\ (x[1] = w => e.position[2] < x[2])
    BY <1>1, <1>9 DEF TodoFrom, Slots
  <2>2. NewbornsBehind(c, T, w)
    BY <1>4, GoneBehind
  <2>3. NewbornsBehind(c, U, w)
    BY <2>2, BehindFewer
  <2>4. {e.position} \in SUBSET T
    BY DEF TodoFrom
  <2>5. NewbornsBehind(c, {e.position}, w) /\ NewbornsBehind(b, {e.position}, w)
    BY <2>2, <2>4, BehindFewer
  <2>6. e.left # no_position => NewbornsBehind(c, {e.left}, w)
    BY <1>1, <1>2, <1>4, <2>5, LeftBehind
  <2>7. e.left # no_position => /\ e.left[1] = w /\ e.left[2] < e.position[2]
                                /\ e.left[2] \in Nat
    BY <1>2 DEF EventPlace
  <2> HIDE DEF U
  <2>8. QED
    BY <2>1, <2>3, <2>5, <2>6, <2>7 DEF Places
<1>12. /\ Stepped(c, d, S, V, merged) /\ KeysAdded(c, d, e, merged)
       /\ NewbornsBehind(d, U, w)
  <2> HIDE DEF U, w
  <2>1. LET x == AddEdges(c, e, merged)
        IN  /\ Stepped(c, x, S, V, merged) /\ KeysAdded(c, x, e, merged)
            /\ NewbornsBehind(x, U, w)
    BY <1>4, <1>6, <1>8, <1>9, <1>10, <1>11, AddsExact
  <2>2. QED
    BY <2>1 DEF d
<1>13. Stepped(b, d, S, V, merged)
  <2>1. WithNew(S, b, c) = S
    BY <1>4 DEF WithNew, Gone
  <2>2. QED
    BY <1>1, <1>7, <1>12, <2>1, SteppedTwice
<1>14. Describes(d, ch, E \ {e}, l, r)
  BY <1>1, <1>2, <1>4, <1>12, ReplayDescribes
<1>15. Replayed(b, d, S, V, ch, E, l, r, merged, e, T)
  BY <1>12, <1>13, <1>14 DEF Replayed
<1>16. c.aborted = b.aborted
  BY <1>4 DEF Gone
<1>17. QED
  BY <1>15, <1>16 DEF c, d

-----------------------------------------------------------------------------
(* The book is exact: what EInv says of it in the middle of a round, and the *)
(* steps that keep it up to the end of the parallel region.                *)

Queued(s) == \E e \in queue : e.state = s

\* The pairs whose list is at hand: the chosen pair's has been handed over.
Listed ==
    {s \in DOMAIN book.pairs :
        s # best /\ (phase = "build" \/ Team = Threads \/ Queued(s) \/ Newborn(book, s))}

\* Positions word by word, and those of a word from left to right.
InOrder(q) ==
    \A i, j \in DOMAIN q :
        i < j /\ q[i][1] = q[j][1] => /\ q[i][2] < q[j][2]
                                      /\ \A k \in i..j : q[k][1] = q[i][1]

-----------------------------------------------------------------------------
(* The invariant.                                                          *)

NeverAborted == phase # "aborted" /\ ~book.aborted

BookExact == Sound(book, Position, Frequencies, Listed)

KeysKnown == KeysUnique(book) /\ (InRound => KeyStamps(book, merged_token))

\* build_state has registered the edges in front of its cursor.
Past(p) == p[1] < cursor[1] \/ (p[1] = cursor[1] /\ p[2] < cursor[2])

BuildExact ==
    phase = "build" =>
        /\ best = no_position /\ cursor[1] > 0
        /\ \A p \in Position :
              /\ alive[p] <=> ~IsEnd(p)
              /\ KeyOf(book, p) = IF alive[p] /\ alive[next[p]] /\ Past(p)
                                  THEN <<token[p], token[next[p]]>> ELSE no_position
        /\ \A s \in DOMAIN book.pairs : \A q \in EdgesOf(book, s) :
              q[1] = cursor[1] => book.pairs[s].last_word = q[1]

BookDescribes ==
    phase # "build" => Describes(book, Chain, PendingEvents, left_token, right_token)

EventsFit ==
    phase \in {"surgery", "replay"} =>
        /\ EventsApart(PendingEvents)
        /\ \A e \in PendingEvents :
              /\ EventFits(Chain, PendingEvents, left_token, merged_token, e)
              /\ e.after # no_position => e.after_token # merged_token

EventsInOrder ==
    \A t \in Threads : InOrder([i \in DOMAIN events[t] |-> events[t][i].position])

PositionsInOrder == InOrder(positions)

\* Where thread t is in the words of the list: its events are of words it has begun,
\* those of its current word the last ones, and all further left than what is to come.
ThreadRegion(t) ==
    /\ word[t] \notin bucket[t]
    /\ \A i \in DOMAIN events[t] :
          LET p == events[t][i].position
          IN  /\ p[1] \notin bucket[t]
              /\ p[1] = word[t] =>
                   /\ \A k \in Remaining(t) : p[2] < positions[k][2]
                   /\ held[t] # no_position => p[2] < held[t].position[2]
                   /\ \A j \in DOMAIN events[t] : i < j => events[t][j].position[1] = word[t]
    /\ held[t] # no_position =>
          /\ held[t].position[1] = word[t]
          /\ \A k \in Remaining(t) : held[t].position[2] < positions[k][2]

Region ==
    phase = "surgery" =>
        /\ \A t \in Threads : ThreadRegion(t)
        /\ \A p \in Position : alive[p] /\ token[p] = merged_token => p \in Mergeds(PendingEvents)

\* Outside the parallel region nothing is left of it.
Idle ==
    /\ phase \in {"build", "pop", "replay", "done"} => positions = << >>
    /\ phase # "surgery" => \A t \in Threads : word[t] = 0 /\ index[t] = 0
    /\ phase \in {"pop", "walk", "surgery", "done"} => book.born = << >>
    /\ phase \in {"build", "pop", "done"} => best = no_position

\* A walk along the list of the members of E, at c: it has come by the members q.
WalkAt(E, rank, c, q) ==
    /\ c # no_position => c \in E
    /\ \A i \in DOMAIN q :
          /\ q[i] \in E
          /\ c # no_position => rank[q[i]] < rank[c]
          /\ \A j \in DOMAIN q : i < j => rank[q[i]] < rank[q[j]]
    /\ \A p \in E : \/ c # no_position /\ rank[c] <= rank[p]
                    \/ \E i \in DOMAIN q : q[i] = p

WalkSound(rank) == WalkAt(EdgesOf(book, best), rank, cursor, positions)

WalkExact ==
    phase = "walk" =>
        \E rank \in [Position -> Nat] : ListsSound(book, Listed, rank) /\ WalkSound(rank)

\* What is left of the list: its positions, or the events to be replayed.
Todo ==
    IF phase = "sequential" THEN {positions[i] : i \in DOMAIN positions} ELSE Mergeds(PendingEvents)

\* The word that is being worked on.
CurrentWord(w) ==
    IF phase = "sequential" THEN positions # << >> /\ positions[1][1] = w
    ELSE \E t \in Threads : /\ events[t] # << >> /\ events[t][1].position[1] = w
                            /\ \A u \in Threads : u < t => events[u] = << >>

NewbornsInOrder ==
    phase \in {"sequential", "replay"} =>
        \A w \in DOMAIN splits : CurrentWord(w) => NewbornsBehind(book, Todo, w)

Unmerged(p) == pair_is_at(p, left_token, right_token)

\* Every occurrence of the chosen pair is still going to be merged, or it has been.
AllCovered ==
    /\ phase = "sequential" =>
         \A p \in Position : Unmerged(p) => \E i \in DOMAIN positions : positions[i] = p
    /\ phase = "surgery" /\ Team = Threads =>
         \A p \in Position : Unmerged(p) =>
            \E t \in Threads :
               \/ held[t] # no_position /\ held[t].position = p
               \/ \E k \in DOMAIN positions : /\ positions[k] = p
                                              /\ p[1] \in bucket[t] \/ k \in Remaining(t)
    /\ phase = "replay" /\ Team = Threads => \A p \in Position : ~Unmerged(p)

\* Pairs that are neither queued nor newborn nor chosen cannot be chosen any more.
QueueComplete ==
    phase # "build" /\ Team = Threads =>
        \A s \in DOMAIN book.pairs :
            Eligible(s) /\ s # best /\ ~Newborn(book, s) => Queued(s)

\* The chosen pair is out of the queue, and it is not a newborn one.
BestApart == \A s \in DOMAIN book.pairs : Queued(s) \/ (phase # "build" /\ Newborn(book, s)) => s # best

EInv ==
    /\ NeverAborted /\ BookExact /\ KeysKnown /\ BuildExact /\ BookDescribes
    /\ EventsFit /\ EventsInOrder /\ PositionsInOrder /\ Region /\ Idle
    /\ WalkExact /\ NewbornsInOrder /\ AllCovered /\ QueueComplete /\ BestApart

-----------------------------------------------------------------------------
(* What steps leave alone.                                                 *)

LEMMA SameInput ==
    ASSUME splits' = splits
    PROVE  /\ Position' = Position /\ Frequencies' = Frequencies
           /\ \A p : Frequency(p)' = Frequency(p)
<1>1. Position' = Position /\ \A p : Frequency(p)' = Frequency(p)
  BY PositionsFixed
<1>2. Frequencies' = Frequencies
  BY <1>1 DEF Frequencies, Frequency
<1>3. QED
  BY <1>1, <1>2

LEMMA SamePending ==
    ASSUME events' = events
    PROVE  PendingEvents' = PendingEvents
BY DEF PendingEvents

LEMMA SameTokens ==
    ASSUME book'.pairs = book.pairs, best' = best, vocabulary' = vocabulary
    PROVE  left_token' = left_token /\ right_token' = right_token /\ merged_token' = merged_token
BY DEF left_token, right_token, merged_token

\* The lists of fewer pairs are at hand.
LEMMA ListedFewer ==
    ASSUME IInv, EInv, splits' = splits, book' = book, Listed' \subseteq Listed
    PROVE  BookExact'
<1>1. Sound(book, Position, Frequencies, Listed) /\ BookOK(book, Position)
  BY InvFacts DEF EInv, BookExact
<1>2. Sound(book, Position, Frequencies, Listed')
  <2> HIDE DEF Listed
  <2>1. \A s \in Listed' : s \in Listed
    OBVIOUS
  <2>2. QED
    BY <1>1, <2>1, SoundSame
<1>3. Position' = Position /\ Frequencies' = Frequencies
  BY SameInput
<1>4. QED
  BY <1>2, <1>3 DEF BookExact

\* Steps that change neither the chain nor the book nor the events, after build_state.
LEMMA SameBook ==
    ASSUME IInv, EInv, splits' = splits, UNCHANGED <<chain, vocabulary, book, best, events>>,
           phase # "build", phase' \notin {"build", "aborted"},
           phase' \in {"surgery", "replay"} => phase \in {"surgery", "replay"},
           InRound' => InRound, Listed' \subseteq Listed
    PROVE  /\ NeverAborted' /\ BookExact' /\ KeysKnown' /\ BuildExact' /\ BookDescribes'
           /\ EventsFit' /\ EventsInOrder'
<1>1. BookExact'
  BY ListedFewer
<1>2. NeverAborted'
  BY DEF EInv, NeverAborted
<1>3. Chain' = Chain /\ PendingEvents' = PendingEvents
  BY DEF Chain, chain, PendingEvents
<1>4. left_token' = left_token /\ right_token' = right_token /\ merged_token' = merged_token
  BY SameTokens
<1>5. KeysKnown'
  BY <1>4 DEF EInv, KeysKnown
<1>6. BuildExact'
  BY DEF BuildExact
<1>7. BookDescribes'
  BY <1>3, <1>4 DEF EInv, BookDescribes
<1>8. EventsFit'
  BY <1>3, <1>4 DEF EInv, EventsFit
<1>9. EventsInOrder'
  BY DEF EInv, EventsInOrder
<1>10. QED
  BY <1>1, <1>2, <1>5, <1>6, <1>7, <1>8, <1>9

-----------------------------------------------------------------------------
(* pop_best_state.                                                         *)

\* Steps that only take entries of pairs out of the queue that are not eligible.
LEMMA PopOnly ==
    ASSUME IInv, EInv, splits' = splits,
           UNCHANGED <<chain, vocabulary, book, best, positions, thread, events>>,
           phase = "pop", phase' \in {"pop", "done"},
           \A s : Queued(s)' => Queued(s),
           \A s \in DOMAIN book.pairs : Queued(s) /\ Eligible(s) => Queued(s)'
    PROVE  EInv'
<1>1. Listed' \subseteq Listed
  BY DEF Listed
<1>2. /\ NeverAborted' /\ BookExact' /\ KeysKnown' /\ BuildExact' /\ BookDescribes'
      /\ EventsFit' /\ EventsInOrder'
  BY <1>1, SameBook DEF InRound
<1>3. PositionsInOrder'
  BY DEF EInv, PositionsInOrder
<1>4. Region' /\ WalkExact' /\ NewbornsInOrder' /\ AllCovered'
  BY DEF Region, WalkExact, NewbornsInOrder, AllCovered
<1>5. Idle'
  BY DEF EInv, Idle, thread
<1>6. QueueComplete'
  BY DEF EInv, QueueComplete, Eligible
<1>7. BestApart'
  BY DEF EInv, BestApart
<1>8. QED
  BY <1>2, <1>3, <1>4, <1>5, <1>6, <1>7 DEF EInv

LEMMA PopIneligibleExact == IInv /\ EInv /\ PopIneligible => EInv'
<1> SUFFICES ASSUME IInv, EInv, PopIneligible PROVE EInv'
  OBVIOUS
<1>1. PICK e \in Top : ~Eligible(e.state) /\ queue' = queue \ {e}
  BY DEF PopIneligible
<1>2. \A s : Queued(s)' => Queued(s)
  BY <1>1 DEF Queued
<1>3. \A s : Queued(s) /\ Eligible(s) => Queued(s)'
  BY <1>1 DEF Queued
<1>4. QED
  BY <1>2, <1>3, PopOnly DEF PopIneligible

LEMMA PopOutdatedExact == IInv /\ EInv /\ PopOutdated => EInv'
<1> SUFFICES ASSUME IInv, EInv, PopOutdated PROVE EInv'
  OBVIOUS
<1>1. PICK e \in Top : queue' = (queue \ {e}) \cup {Entry(e.state)}
  BY DEF PopOutdated
<1>2. Entry(e.state).state = e.state /\ e \in queue
  BY <1>1 DEF Entry, Top
<1>3. \A s : Queued(s)' <=> Queued(s)
  BY <1>1, <1>2 DEF Queued
<1>4. QED
  BY <1>3, PopOnly DEF PopOutdated

LEMMA FinishExact == IInv /\ EInv /\ Finish => EInv'
<1> SUFFICES ASSUME IInv, EInv, Finish PROVE EInv'
  OBVIOUS
<1>1. \A s : Queued(s)' <=> Queued(s)
  BY DEF Queued, Finish
<1>2. QED
  BY <1>1, PopOnly DEF Finish
\* Without events to be replayed the pair of the round does not matter.
LEMMA DescribesIdle ==
    ASSUME NEW b, NEW ch, NEW l, NEW r, Describes(b, ch, {}, l, r),
           NEW c, DOMAIN c.edge_group = DOMAIN b.edge_group,
           \A p \in DOMAIN b.edge_group : KeyOf(c, p) = KeyOf(b, p), NEW l2, NEW r2
    PROVE  Describes(c, ch, {}, l2, r2)
<1>1. /\ Mergeds({}) = {} /\ Rights({}) = {}
      /\ \A v, q : EdgeKey(ch, {}, l, v, q) = EdgeKey(ch, {}, l2, v, q)
  BY DEF Mergeds, Rights, EdgeKey, OldToken
<1>2. QED
  BY <1>1 DEF Describes

LEMMA DroppedFields ==
    ASSUME NEW P, NEW b, BookOK(b, P), NEW s \in DOMAIN b.pairs, NEW c,
           c = [b EXCEPT !.pairs[s] = WithoutList(@)]
    PROVE  Dropped(b, c, s)
<1> DEFINE q  == WithoutList(b.pairs[s])
           pr == [b.pairs EXCEPT ![s] = q]
<1>1. BookTypeOK(b, P)
  BY DEF BookOK
<1>2. b.pairs \in Seq(Pair(P)) /\ b.pairs[s] \in Pair(P)
  BY <1>1, PairUpdate DEF BookTypeOK
<1>3. q.positions_head = no_position /\ q.positions_tail = no_position
  BY <1>2 DEF WithoutList, Pair
<1>4. c = [b EXCEPT !.pairs = pr]
  OBVIOUS
<1>5. pr[s] = q /\ \A k \in DOMAIN b.pairs \ {s} : pr[k] = b.pairs[k]
  <2> HIDE DEF q
  <2>1. QED
    BY <1>2
<1>6. SameButLists(b, c)
  BY EmptyList
<1> HIDE DEF pr, q
<1>7. c.pairs = pr /\ c.pos_next = b.pos_next /\ c.pos_prev = b.pos_prev
  BY <1>1, <1>4 DEF BookTypeOK
<1>8. QED
  BY <1>3, <1>5, <1>6, <1>7 DEF Dropped

\* The walk starts at the head of the list.
LEMMA WalkStarts ==
    ASSUME NEW P, no_position \notin P, NEW E \in SUBSET P, NEW rank, NEW pair,
           EndsAt(E, rank, pair), EndsEmpty(E, pair)
    PROVE  /\ pair.positions_head # no_position => pair.positions_head \in E
           /\ \A p \in E : /\ pair.positions_head # no_position
                           /\ rank[pair.positions_head] <= rank[p]
BY DEF EndsAt, EndsEmpty, FirstOf

LEMMA PopBestExact == IInv /\ RInv /\ EInv /\ PopBest => EInv'
<1> SUFFICES ASSUME IInv, RInv, EInv, PopBest PROVE EInv'
  OBVIOUS
<1>1. /\ splits' = splits
      /\ UNCHANGED <<chain, vocabulary, positions, thread, events>>
      /\ phase = "pop" /\ phase' = "walk"
  BY DEF PopBest
<1>2. PICK e \in Top : /\ queue' = queue \ {e}
                       /\ best' = e.state
                       /\ cursor' = book.pairs[e.state].positions_head
                       /\ book' = [book EXCEPT !.pairs[e.state] = WithoutList(@)]
  BY DEF PopBest
<1>s. PICK s : s = e.state
  OBVIOUS
<1>3. /\ splits \in Corpora /\ BookOK(book, Position) /\ Slots(Position) /\ no_position \notin Position
      /\ DOMAIN book.edge_group = Position
  <2>1. splits \in Corpora /\ BookOK(book, Position)
    BY InvFacts
  <2>2. Slots(Position)
    BY <2>1, FrequenciesTyped
  <2>3. QED
    BY <2>1, <2>2, GroupFacts DEF Slots
<1>4. s \in DOMAIN book.pairs /\ Queued(s)
  BY <1>s DEF Top, IInv, PairsKnown, Queued
<1>5. BookOK(book', Position) /\ SameButLists(book, book')
  BY <1>2, <1>s, <1>3, <1>4, EmptyList
<1>6. Dropped(book, book', s)
  BY <1>2, <1>s, <1>3, <1>4, DroppedFields
<1>7. /\ DOMAIN book'.pairs = DOMAIN book.pairs /\ book'.born = book.born
      /\ book'.aborted = book.aborted /\ book'.edge_group = book.edge_group
      /\ \A k \in DOMAIN book.pairs : /\ book'.pairs[k].key = book.pairs[k].key
                                      /\ book'.pairs[k].count = book.pairs[k].count
                                      /\ book'.pairs[k].word_count = book.pairs[k].word_count
  BY <1>5 DEF SameButLists, SamePair
<1>8. best = no_position /\ book.born = << >> /\ PendingEvents = {} /\ PendingEvents' = {}
  <2>1. best = no_position /\ book.born = << >>
    BY <1>1 DEF EInv, Idle
  <2>2. PendingEvents = {}
    BY <1>1 DEF IInv, ThreadsIdle, PendingEvents
  <2>3. QED
    BY <1>1, <2>1, <2>2, SamePending
<1>9. \A k \in DOMAIN book.pairs : k # no_position
  <2>1. DOMAIN book.pairs = 1..Len(book.pairs)
    BY <1>3, CountsTyped DEF BookOK
  <2>2. \A k \in DOMAIN book.pairs : k \in Nat
    BY <2>1
  <2>3. QED
    BY <2>2, NoPositionAssumption
<1>10. s \in Listed /\ Listed' \in SUBSET (Listed \ {s})
  <2>1. s \in Listed
    BY <1>4, <1>8, <1>9 DEF Listed
  <2>2. \A k : Queued(k)' => Queued(k)
    BY <1>2 DEF Queued
  <2>3. \A k : Newborn(book', k) <=> Newborn(book, k)
    BY <1>7 DEF Newborn
  <2>4. \A k \in Listed' : k \in Listed /\ k # s
    BY <1>1, <1>2, <1>s, <1>7, <1>8, <1>9, <2>2, <2>3 DEF Listed
  <2>5. QED
    BY <2>1, <2>4
<1>11. PICK rank \in [Position -> Nat] : ListsSound(book, Listed, rank)
  BY DEF EInv, BookExact, Sound, Ordered
<1>12. /\ Exact(book', Frequencies) /\ ListsSound(book', Listed', rank)
       /\ \A k : EdgesOf(book', k) = EdgesOf(book, k)
       /\ \A p \in Position : KeyOf(book', p) = KeyOf(book, p)
  <2>1. Exact(book, Frequencies)
    BY DEF EInv, BookExact, Sound
  <2>2. PICK T : T = Listed'
    OBVIOUS
  <2>3. PICK S : S = Listed
    OBVIOUS
  <2>4. T \in SUBSET (S \ {s})
    BY <1>10, <2>2, <2>3
  <2>5. ListsSound(book, S, rank)
    BY <1>11, <2>3
  <2>6. /\ Exact(book', Frequencies) /\ ListsSound(book', T, rank)
        /\ \A k : EdgesOf(book', k) = EdgesOf(book, k)
        /\ \A p \in Position : KeyOf(book', p) = KeyOf(book, p)
    BY ONLY <1>3, <1>4, <1>5, <1>6, <2>1, <2>4, <2>5, ListDropped
  <2>7. QED
    BY <2>2, <2>6
<1>13. Position' = Position /\ Frequencies' = Frequencies
  BY <1>1, SameInput
<1>14. NeverAborted'
  BY <1>1, <1>7 DEF EInv, NeverAborted
<1>15. BookExact'
  <2>1. Ordered(book', Position, Listed')
    BY <1>12 DEF Ordered
  <2>2. Sound(book', Position, Frequencies, Listed')
    BY <1>5, <1>12, <2>1 DEF Sound
  <2>3. QED
    BY <1>13, <2>2 DEF BookExact
<1>16. KeysKnown'
  BY <1>1, <1>7 DEF EInv, KeysKnown, KeysUnique, InRound
<1>17. BuildExact' /\ EventsFit' /\ Region' /\ NewbornsInOrder' /\ AllCovered'
  BY <1>1 DEF BuildExact, EventsFit, Region, NewbornsInOrder, AllCovered
<1>18. BookDescribes'
  <2>1. Describes(book, Chain, {}, left_token, right_token)
    BY <1>1, <1>8 DEF EInv, BookDescribes
  <2>2. DOMAIN book'.edge_group = Position
    BY <1>3, <1>7
  <2>3. Describes(book', Chain, {}, left_token', right_token')
    BY <1>3, <1>12, <2>1, <2>2, DescribesIdle
  <2>4. Chain' = Chain
    BY <1>1 DEF Chain, chain
  <2>5. QED
    BY <1>8, <2>3, <2>4 DEF BookDescribes
<1>19. EventsInOrder' /\ PositionsInOrder'
  BY <1>1 DEF EInv, EventsInOrder, PositionsInOrder
<1>20. Idle'
  BY <1>1, <1>7, <1>8 DEF EInv, Idle, thread
<1>21. WalkExact'
  <2> DEFINE E == EdgesOf(book, s)
             pair == book.pairs[s]
  <2>1. EndsAt(E, rank, pair) /\ EndsEmpty(E, pair)
    BY <1>4, <1>10, <1>11 DEF ListsSound
  <2>2. E \in SUBSET Position
    BY <1>3, GroupFacts DEF Slots
  <2>3. cursor' = pair.positions_head
    BY <1>2, <1>s
  <2> HIDE DEF E, pair
  <2>4. /\ cursor' # no_position => cursor' \in E
        /\ \A p \in E : cursor' # no_position /\ rank[cursor'] <= rank[p]
    BY <1>3, <2>1, <2>2, <2>3, WalkStarts
  <2>5. positions' = << >>
    BY <1>1 DEF EInv, Idle
  <2>6. EdgesOf(book', best') = E
    BY <1>2, <1>s, <1>12 DEF E
  <2>7. WalkSound(rank)'
    BY <2>4, <2>5, <2>6 DEF WalkSound, WalkAt
  <2>8. QED
    BY <1>12, <1>13, <2>7 DEF WalkExact
<1>22. QueueComplete'
  <2> SUFFICES ASSUME Team = Threads, NEW k \in DOMAIN book.pairs,
                      Eligible(k)', k # s, ~Newborn(book', k)
               PROVE  Queued(k)'
    BY <1>2, <1>s, <1>7 DEF QueueComplete
  <2>1. Eligible(k)
    BY <1>7 DEF Eligible
  <2>2. ~Newborn(book, k)
    BY <1>7 DEF Newborn
  <2>3. Queued(k)
    BY <1>1, <1>8, <1>9, <2>1, <2>2 DEF EInv, QueueComplete
  <2>4. QED
    BY <1>2, <1>s, <2>3 DEF Queued
<1>23. BestApart'
  <2> SUFFICES ASSUME NEW k \in DOMAIN book.pairs, Queued(k)' \/ Newborn(book', k) PROVE k # s
    BY <1>2, <1>s, <1>7 DEF BestApart
  <2>1. ~Newborn(book', k)
    BY <1>7, <1>8 DEF Newborn
  <2>2. PICK f \in queue : f # e /\ f.state = k
    BY <1>2, <2>1 DEF Queued
  <2>3. e \in queue
    BY DEF Top
  <2>4. QED
    BY <1>s, <2>2, <2>3 DEF RInv, EntriesNeverLow
<1>24. QED
  BY <1>14, <1>15, <1>16, <1>17, <1>18, <1>19, <1>20, <1>21, <1>22, <1>23 DEF EInv
-----------------------------------------------------------------------------
(* The walk along the list.                                                *)

LEMMA AppendFacts ==
    ASSUME NEW S, NEW q \in Seq(S), NEW c \in S, NEW d, d = Append(q, c)
    PROVE  /\ d \in Seq(S) /\ Len(q) \in Nat /\ Len(d) = Len(q) + 1
           /\ DOMAIN q = 1..Len(q) /\ DOMAIN d = 1..(Len(q) + 1)
           /\ \A i \in DOMAIN q : d[i] = q[i]
           /\ d[Len(q) + 1] = c
OBVIOUS

LEMMA WalkNext ==
    ASSUME NEW P, no_position \notin P, NEW E \in SUBSET P, NEW rank \in [P -> Nat],
           NEW nx, NEW pv, Linked(E, rank, nx, pv), NEW q \in Seq(P), NEW c \in E,
           WalkAt(E, rank, c, q), NEW d, d = Append(q, c)
    PROVE  WalkAt(E, rank, nx[c], d)
<1>1. /\ Len(q) \in Nat /\ DOMAIN q = 1..Len(q) /\ DOMAIN d = 1..(Len(q) + 1)
      /\ \A i \in DOMAIN q : d[i] = q[i]
      /\ d[Len(q) + 1] = c
  BY AppendFacts
<1>2. c # no_position /\ \A p \in E : rank[p] \in Nat
  OBVIOUS
<1>3. /\ \A i \in DOMAIN q : /\ q[i] \in E /\ rank[q[i]] < rank[c]
                             /\ \A j \in DOMAIN q : i < j => rank[q[i]] < rank[q[j]]
      /\ \A p \in E : rank[c] <= rank[p] \/ \E i \in DOMAIN q : q[i] = p
  BY <1>2 DEF WalkAt
<1>4. IF nx[c] = no_position THEN LastOf(E, rank, c) ELSE Adjacent(E, rank, c, nx[c])
  BY DEF Linked
<1>5. \A p, r \in E : rank[p] = rank[r] => p = r
  BY DEF Linked
<1>6. \A i \in DOMAIN d : i \in DOMAIN q \/ i = Len(q) + 1
  BY <1>1
<1>7. \A i \in DOMAIN d : d[i] \in E /\ rank[d[i]] <= rank[c]
  BY <1>1, <1>2, <1>3, <1>6
<1>8. ASSUME NEW i \in DOMAIN d, NEW j \in DOMAIN d, i < j PROVE rank[d[i]] < rank[d[j]]
  <2>1. i \in DOMAIN q
    BY <1>1, <1>8
  <2>2. QED
    BY <1>1, <1>3, <1>6, <1>8, <2>1
<1>9. nx[c] # no_position => nx[c] \in E /\ rank[c] < rank[nx[c]]
  BY <1>4 DEF Adjacent
<1>10. \A i \in DOMAIN d : nx[c] # no_position => rank[d[i]] < rank[nx[c]]
  BY <1>2, <1>7, <1>9
<1>11. ASSUME NEW p \in E
       PROVE  \/ nx[c] # no_position /\ rank[nx[c]] <= rank[p]
              \/ \E i \in DOMAIN d : d[i] = p
  <2>1. \/ nx[c] # no_position /\ rank[nx[c]] <= rank[p]
        \/ rank[p] <= rank[c]
    BY <1>4 DEF LastOf, Adjacent
  <2>2. ASSUME rank[p] <= rank[c] PROVE \E i \in DOMAIN d : d[i] = p
    <3>1. CASE p = c
      BY <1>1, <3>1
    <3>2. CASE p # c
      <4>1. rank[p] # rank[c]
        BY <1>5, <3>2
      <4>2. ~(rank[c] <= rank[p])
        BY <1>2, <2>2, <4>1
      <4>3. PICK i \in DOMAIN q : q[i] = p
        BY <1>3, <4>2
      <4>4. i \in DOMAIN d /\ d[i] = p
        BY <1>1, <4>3
      <4>5. QED
        BY <4>4
    <3>3. QED
      BY <3>1, <3>2
  <2>3. QED
    BY <2>1, <2>2
<1>12. QED
  BY <1>7, <1>8, <1>9, <1>10, <1>11 DEF WalkAt

\* The list comes word by word, and in a word from left to right.
LEMMA WalkInOrder ==
    ASSUME NEW P, P \subseteq Nat \X Nat, NEW E \in SUBSET P, NEW rank \in [P -> Nat], NEW last,
           Sorted(E, rank, last), NEW c, NEW q \in Seq(P), WalkAt(E, rank, c, q)
    PROVE  InOrder(q)
<1>1. DOMAIN q = 1..Len(q) /\ Len(q) \in Nat
  OBVIOUS
<1>2. \A i \in DOMAIN q : q[i] \in E /\ \A j \in DOMAIN q : i < j => rank[q[i]] < rank[q[j]]
  BY DEF WalkAt
<1>3. \A p \in E : rank[p] \in Nat /\ p[2] \in Nat /\ p = <<p[1], p[2]>>
  OBVIOUS
<1>4. /\ \A x, y \in E : x[1] = y[1] /\ x[2] < y[2] => rank[x] < rank[y]
      /\ \A x, y, z \in E : rank[x] < rank[y] /\ rank[y] < rank[z] /\ x[1] = z[1] => y[1] = x[1]
  BY DEF Sorted
<1>5. ASSUME NEW i \in DOMAIN q, NEW j \in DOMAIN q, i < j, q[i][1] = q[j][1]
      PROVE  q[i][2] < q[j][2] /\ \A k \in i..j : q[k][1] = q[i][1]
  <2>1. rank[q[i]] < rank[q[j]] /\ q[i] \in E /\ q[j] \in E
    BY <1>2, <1>5
  <2>2. q[i] # q[j]
    BY <1>3, <2>1
  <2>3. q[i][2] # q[j][2]
    BY <1>3, <1>5, <2>1, <2>2
  <2>4. ~(q[j][2] < q[i][2])
    <3>1. ASSUME q[j][2] < q[i][2] PROVE FALSE
      <4>1. rank[q[j]] < rank[q[i]]
        BY <1>4, <1>5, <2>1, <3>1
      <4>2. QED
        BY <1>3, <2>1, <4>1
    <3>2. QED
      BY <3>1
  <2>5. q[i][2] < q[j][2]
    BY <1>3, <2>1, <2>3, <2>4
  <2>6. ASSUME NEW k \in i..j PROVE q[k][1] = q[i][1]
    <3>1. k \in DOMAIN q /\ (k = i \/ k = j \/ (i < k /\ k < j))
      <4>1. i \in Nat /\ j \in Nat /\ 1 <= i /\ j <= Len(q)
        BY <1>1
      <4>2. k \in Nat /\ i <= k /\ k <= j
        BY <4>1
      <4>3. k \in 1..Len(q)
        BY <1>1, <4>1, <4>2
      <4>4. k \in DOMAIN q
        BY <1>1, <4>3
      <4>5. k = i \/ i < k
        BY <4>1, <4>2
      <4>6. k = j \/ k < j
        BY <4>1, <4>2
      <4>7. QED
        BY <4>4, <4>5, <4>6
    <3>2. CASE i < k /\ k < j
      <4>1. rank[q[i]] < rank[q[k]] /\ rank[q[k]] < rank[q[j]] /\ q[k] \in E
        BY <1>2, <3>1, <3>2
      <4>2. QED
        BY <1>4, <1>5, <2>1, <4>1
    <3>3. QED
      BY <1>5, <3>1, <3>2
  <2>7. QED
    BY <2>5, <2>6
<1>6. QED
  BY <1>5 DEF InOrder
\* A registered edge of the round's pair is one of the chosen pair.
LEMMA ExactFacts ==
    ASSUME IInv, EInv
    PROVE  /\ splits \in Corpora /\ BookOK(book, Position) /\ Slots(Position)
           /\ no_position \notin Position /\ DOMAIN book.edge_group = Position
           /\ Frequencies \in [Position -> Nat]
           /\ Sound(book, Position, Frequencies, Listed)
           /\ Position \subseteq Nat \X Nat
           /\ \A k \in DOMAIN book.pairs : k \in Nat /\ k # no_position
           /\ \A k : EdgesOf(book, k) \in SUBSET Position
<1>1. splits \in Corpora /\ BookOK(book, Position)
  BY InvFacts
<1>2. Slots(Position) /\ Frequencies \in [Position -> Nat]
  BY <1>1, FrequenciesTyped
<1>3. IsFiniteSet(Position) /\ no_position \notin Position /\ Position \subseteq Nat \X Nat
  BY <1>2 DEF Slots
<1>4. DOMAIN book.edge_group = Position /\ \A k : EdgesOf(book, k) \in SUBSET Position
  BY <1>1, <1>3, GroupFacts
<1>5. DOMAIN book.pairs = 1..Len(book.pairs) /\ Len(book.pairs) \in Nat
  BY <1>1, CountsTyped DEF BookOK
<1>6. \A k \in DOMAIN book.pairs : k \in Nat /\ k # no_position
  BY <1>5, NoPositionAssumption
<1>7. Sound(book, Position, Frequencies, Listed)
  BY DEF EInv, BookExact
<1>8. QED
  BY <1>1, <1>2, <1>3, <1>4, <1>6, <1>7

LEMMA WalkListExact == IInv /\ IInv' /\ EInv /\ WalkList => EInv'
<1> SUFFICES ASSUME IInv, IInv', EInv, WalkList PROVE EInv'
  OBVIOUS
<1>1. /\ splits' = splits /\ phase = "walk" /\ phase' = "walk" /\ cursor # no_position
      /\ UNCHANGED <<chain, vocabulary, book, queue, best, thread, events>>
      /\ positions' = Append(positions, cursor) /\ cursor' = book.pos_next[cursor]
  BY DEF WalkList
<1>2. Listed' = Listed
  BY <1>1 DEF Listed, Queued
<1>3. /\ NeverAborted' /\ BookExact' /\ KeysKnown' /\ BuildExact' /\ BookDescribes'
      /\ EventsFit' /\ EventsInOrder'
  BY <1>1, <1>2, SameBook DEF InRound
<1>4. /\ Region' /\ NewbornsInOrder' /\ AllCovered'
  BY <1>1 DEF Region, NewbornsInOrder, AllCovered
<1>5. Idle'
  BY <1>1 DEF EInv, Idle, thread
<1>6. QueueComplete' /\ BestApart'
  BY <1>1 DEF EInv, QueueComplete, BestApart, Eligible, Queued
<1>7. PICK rank \in [Position -> Nat] : ListsSound(book, Listed, rank) /\ WalkSound(rank)
  BY <1>1 DEF EInv, WalkExact
<1>8. best \in DOMAIN book.pairs
  BY <1>1 DEF IInv, PairsKnown
<1> DEFINE E == EdgesOf(book, best)
<1>9. /\ Linked(E, rank, book.pos_next, book.pos_prev)
      /\ Sorted(E, rank, book.pairs[best].last_word)
  BY <1>7, <1>8 DEF ListsSound
<1>10. /\ E \in SUBSET Position /\ no_position \notin Position /\ Position \subseteq Nat \X Nat
       /\ positions \in Seq(Position)
  BY ExactFacts DEF IInv, TypeOK
<1>11. WalkAt(E, rank, cursor, positions)
  BY <1>7 DEF WalkSound
<1>12. cursor \in E
  BY <1>1, <1>11 DEF WalkAt
<1> HIDE DEF E
<1>13. WalkAt(E, rank, book.pos_next[cursor], positions')
  BY <1>1, <1>9, <1>10, <1>11, <1>12, WalkNext
<1>14. positions' \in Seq(Position)
  BY <1>1, <1>10, <1>12
<1>15. InOrder(positions')
  BY <1>9, <1>10, <1>13, <1>14, WalkInOrder
<1>16. PositionsInOrder'
  BY <1>15 DEF PositionsInOrder
<1>17. WalkExact'
  <2>1. WalkSound(rank)'
    BY <1>1, <1>13 DEF WalkSound, E
  <2>2. ListsSound(book', Listed', rank)
    BY <1>1, <1>2, <1>7
  <2>3. Position' = Position
    BY <1>1, SameInput
  <2>4. QED
    BY <2>1, <2>2, <2>3 DEF WalkExact
<1>18. QED
  BY <1>3, <1>4, <1>5, <1>6, <1>16, <1>17 DEF EInv
-----------------------------------------------------------------------------
(* When no event is to be replayed.                                        *)

\* The edges of a pair are its occurrences in the chain.
LEMMA EdgesDescribed ==
    ASSUME IInv, EInv, PendingEvents = {}, phase # "build", NEW s \in DOMAIN book.pairs
    PROVE  EdgesOf(book, s) =
              {p \in Position : pair_is_at(p, book.pairs[s].key[1], book.pairs[s].key[2])}
<1>1. /\ splits \in Corpora /\ BookOK(book, Position) /\ Slots(Position)
      /\ no_position \notin Position /\ DOMAIN book.edge_group = Position
  BY ExactFacts
<1>2. Describes(book, Chain, {}, left_token, right_token)
  BY DEF EInv, BookDescribes
<1>3. \A p \in Position :
         KeyOf(book, p) = IF alive[p] /\ alive[next[p]] THEN <<token[p], token[next[p]]>> ELSE no_position
  BY <1>1, <1>2 DEF Describes, Mergeds, Rights, EdgeKey, OldToken, Chain
<1>4. \A p \in Position : alive[p] => next[p] # no_position
  BY DEF IInv, ChainOrdered
<1>5. /\ book.pairs[s].key = <<book.pairs[s].key[1], book.pairs[s].key[2]>>
      /\ book.pairs[s].key # no_position
  <2>1. book.pairs[s] \in Pair(Position)
    BY <1>1, PairUpdate DEF BookOK, BookTypeOK
  <2>2. book.pairs[s].key \in Nat \X Nat
    BY <2>1 DEF Pair
  <2>3. QED
    BY <2>2, NoPositionAssumption
<1>6. \A p \in Position : pair_is_at(p, book.pairs[s].key[1], book.pairs[s].key[2])
                             <=> KeyOf(book, p) = book.pairs[s].key
  <2> SUFFICES ASSUME NEW p \in Position
               PROVE  pair_is_at(p, book.pairs[s].key[1], book.pairs[s].key[2])
                         <=> KeyOf(book, p) = book.pairs[s].key
    OBVIOUS
  <2>1. book.pairs[s].key # no_position
    BY <1>5
  <2>2. CASE alive[p] /\ alive[next[p]]
    <3>1. KeyOf(book, p) = <<token[p], token[next[p]]>>
      BY <1>3, <2>2
    <3>2. pair_is_at(p, book.pairs[s].key[1], book.pairs[s].key[2])
             <=> token[p] = book.pairs[s].key[1] /\ token[next[p]] = book.pairs[s].key[2]
      BY <1>1, <1>4, <2>2 DEF pair_is_at, is_live
    <3>3. QED
      BY <1>5, <3>1, <3>2
  <2>3. CASE ~(alive[p] /\ alive[next[p]])
    BY <1>3, <2>1, <2>3 DEF pair_is_at, is_live
  <2>4. QED
    BY <2>2, <2>3
<1>7. \A p \in Position : p \in EdgesOf(book, s) <=> KeyOf(book, p) = book.pairs[s].key
  <2> SUFFICES ASSUME NEW p \in Position
               PROVE  p \in EdgesOf(book, s) <=> KeyOf(book, p) = book.pairs[s].key
    OBVIOUS
  <2>1. IsFiniteSet(Position)
    BY <1>1 DEF Slots
  <2>2. p \in EdgesOf(book, s) => KeyOf(book, p) = book.pairs[s].key
    BY <1>1, <2>1, Unregistered
  <2>3. ASSUME KeyOf(book, p) = book.pairs[s].key PROVE p \in EdgesOf(book, s)
    <3>1. book.pairs[s].key # no_position
      BY <1>5
    <3>2. /\ book.edge_group[p] # no_position
          /\ KeyOf(book, p) = book.pairs[book.group_state[book.edge_group[p]]].key
      BY <2>3, <3>1 DEF KeyOf
    <3>3. book.group_state[book.edge_group[p]] \in DOMAIN book.pairs
      BY <1>1, <2>1, <3>2, GroupFacts
    <3>4. KeysUnique(book)
      BY DEF EInv, KeysKnown
    <3>5. book.group_state[book.edge_group[p]] = s
      BY <2>3, <3>2, <3>3, <3>4 DEF KeysUnique
    <3>6. QED
      BY <1>1, <3>2, <3>5 DEF EdgesOf
  <2>4. QED
    BY <2>2, <2>3
<1>8. EdgesOf(book, s) \in SUBSET Position
  BY ExactFacts
<1>9. QED
  BY <1>6, <1>7, <1>8
\* No key and no stamp bears a token that is new.
LEMMA NewToken ==
    ASSUME NEW b, NEW V, KeysIn(b, V), NEW merged, merged \notin V,
           \A e \in Stamps(b) : e.stamp # merged
    PROVE  KeyStamps(b, merged)
<1> SUFFICES ASSUME NEW s \in DOMAIN b.pairs
             PROVE  /\ \A v \in Nat \ {merged} :
                          /\ b.pairs[s].key = <<v, merged>> <=> Stamp(v, merged, s) \in b.left_cache
                          /\ b.pairs[s].key = <<merged, v>> <=> Stamp(v, merged, s) \in b.right_cache
                    /\ b.pairs[s].key = <<merged, merged>> <=> Stamp(merged, merged, s) \in b.same_cache
  BY DEF KeyStamps
<1>1. \A v, w : Stamp(v, merged, w) \notin Stamps(b)
  BY DEF Stamp
<1>2. \A v : b.pairs[s].key # <<v, merged>> /\ b.pairs[s].key # <<merged, v>>
  BY DEF KeysIn
<1>3. QED
  BY <1>1, <1>2 DEF Stamps

LEMMA OwnersAreThreads ==
    ASSUME NEW w \in Nat \ {0}
    PROVE  Owner(w) \in Threads
BY ThreadAssumption DEF Owner, Threads

LEMMA StartRoundExact == IInv /\ IInv' /\ RInv /\ EInv /\ StartRound => EInv'
<1> SUFFICES ASSUME IInv, IInv', RInv, EInv, StartRound PROVE EInv'
  OBVIOUS
<1>1. /\ splits' = splits /\ phase = "walk" /\ cursor = no_position
      /\ phase' = (IF RunsParallel THEN "surgery" ELSE "sequential")
      /\ UNCHANGED <<chain, book, queue, best, positions, word, index, held, events>>
      /\ vocabulary' = Append(vocabulary, vocabulary[left_token] \o vocabulary[right_token])
  BY DEF StartRound
<1>2. phase' \in {"surgery", "sequential"}
  BY <1>1
<1>3. /\ splits \in Corpora /\ BookOK(book, Position) /\ no_position \notin Position
      /\ \A p \in Position : p[1] \in DOMAIN splits /\ p[1] \in Nat \ {0}
      /\ DOMAIN splits \subseteq Nat \ {0}
  BY ExactFacts, PositionsTyped
<1>4. Position' = Position /\ Frequencies' = Frequencies
  BY <1>1, SameInput
<1>5. PendingEvents = {} /\ PendingEvents' = {} /\ \A t \in Threads : events[t] = << >> /\ held[t] = no_position
  <2>1. \A t \in Threads : events[t] = << >> /\ held[t] = no_position
    BY <1>1 DEF IInv, ThreadsIdle
  <2>2. PendingEvents = {}
    BY <2>1 DEF PendingEvents
  <2>3. QED
    BY <1>1, <2>1, <2>2, SamePending
<1>6. left_token' = left_token /\ right_token' = right_token /\ Chain' = Chain
  BY <1>1 DEF left_token, right_token, Chain, chain
<1>7. /\ Len(vocabulary) \in Nat /\ merged_token' = Len(vocabulary) + 1
      /\ DOMAIN vocabulary = 1..Len(vocabulary)
  <2>1. Len(vocabulary) \in Nat /\ DOMAIN vocabulary = 1..Len(vocabulary) /\ vocabulary \in Seq(Seq(Nat))
    BY InvFacts DEF IInv, TypeOK
  <2>2. Len(vocabulary') = Len(vocabulary) + 1
    BY <1>1, <2>1
  <2>3. QED
    BY <2>1, <2>2 DEF merged_token
<1>8. merged_token' \notin DOMAIN vocabulary
  BY <1>7
<1>9. best \in DOMAIN book.pairs
  BY <1>1 DEF IInv, PairsKnown
<1>10. NeverAborted'
  BY <1>1, <1>2 DEF EInv, NeverAborted
<1>11. BookExact'
  <2>1. Listed' = Listed
    BY <1>1, <1>2 DEF Listed, Queued
  <2>2. QED
    BY <1>1, <1>4, <2>1 DEF EInv, BookExact
<1>12. KeysKnown'
  <2>1. KeysIn(book, DOMAIN vocabulary)
    BY DEF IInv, PairsKnown
  <2>2. \A e \in Stamps(book) : e.stamp <= Len(vocabulary)
    BY DEF RInv, StampsInTime
  <2>3. \A e \in Stamps(book) : e.stamp # merged_token'
    BY <1>7, <2>2
  <2>4. KeyStamps(book, merged_token')
    BY <1>8, <2>1, <2>3, NewToken
  <2>5. QED
    BY <1>1, <2>4 DEF EInv, KeysKnown
<1>13. BuildExact' /\ WalkExact'
  BY <1>2 DEF BuildExact, WalkExact
<1>14. BookDescribes'
  BY <1>1, <1>5, <1>6 DEF EInv, BookDescribes
<1>15. EventsFit'
  BY <1>5 DEF EventsFit, EventsApart
<1>16. EventsInOrder' /\ PositionsInOrder'
  BY <1>1 DEF EInv, EventsInOrder, PositionsInOrder
<1>17. \A t \in Threads : word[t] = 0 /\ index[t] = 0
  BY <1>1 DEF EInv, Idle
<1>18. book.born = << >>
  BY <1>1 DEF EInv, Idle
<1>19. Idle'
  BY <1>1, <1>2, <1>17, <1>18 DEF Idle
<1>20. Region'
  <2> SUFFICES ASSUME phase' = "surgery" PROVE Region'
    BY DEF Region
  <2>1. bucket' = [t \in Threads |-> IF t \in Team THEN OwnedWords(t) ELSE {}]
    BY <1>1 DEF StartRound
  <2>2. \A t \in Threads : 0 \notin bucket'[t]
    BY <1>3, <2>1 DEF OwnedWords
  <2>3. \A p \in Position : alive[p] => token[p] # merged_token'
    BY <1>8 DEF IInv, TokensKnown
  <2>4. \A t \in Threads : /\ word'[t] = 0 /\ word'[t] \notin bucket'[t]
                           /\ events'[t] = << >> /\ held'[t] = no_position
    BY <1>1, <1>5, <1>17, <2>2
  <2>5. \A t \in Threads : DOMAIN events'[t] = {}
    BY <2>4
  <2>6. \A p \in Position' : ~(alive'[p] /\ token'[p] = merged_token')
    BY <1>1, <1>4, <2>3 DEF chain
  <2>7. QED
    BY <2>4, <2>5, <2>6 DEF Region, ThreadRegion
<1>21. NewbornsInOrder'
  BY <1>1, <1>18 DEF NewbornsInOrder, NewbornsBehind, Newborn
<1>22. \A p \in Position : Unmerged(p) => \E i \in DOMAIN positions : positions[i] = p
  <2> SUFFICES ASSUME NEW p \in Position, Unmerged(p) PROVE \E i \in DOMAIN positions : positions[i] = p
    OBVIOUS
  <2>1. p \in EdgesOf(book, best)
    BY <1>1, <1>5, <1>9, EdgesDescribed DEF Unmerged, left_token, right_token
  <2>2. PICK rank : WalkSound(rank)
    BY <1>1 DEF EInv, WalkExact
  <2>3. QED
    BY <1>1, <2>1, <2>2 DEF WalkSound, WalkAt
<1>23. \A p : Unmerged(p)' <=> Unmerged(p)
  BY <1>1, <1>6 DEF Unmerged, pair_is_at, is_live, chain
<1>24. AllCovered'
  <2>1. phase' = "sequential" =>
           \A p \in Position' : Unmerged(p)' => \E i \in DOMAIN positions' : positions'[i] = p
    BY <1>1, <1>4, <1>22, <1>23
  <2>2. ASSUME phase' = "surgery", Team = Threads, NEW p \in Position, Unmerged(p)
        PROVE  \E t \in Threads : \E k \in DOMAIN positions : positions[k] = p /\ p[1] \in bucket'[t]
    <3>1. PICK k \in DOMAIN positions : positions[k] = p
      BY <1>22, <2>2
    <3>2. Owner(p[1]) \in Threads
      BY <1>3, OwnersAreThreads
    <3>3. bucket' = [t \in Threads |-> IF t \in Team THEN OwnedWords(t) ELSE {}]
      BY <1>1, <2>2 DEF StartRound
    <3>4. p[1] \in OwnedWords(Owner(p[1]))
      BY <1>3, <3>1 DEF OwnedWords
    <3>5. p[1] \in bucket'[Owner(p[1])]
      BY <2>2, <3>2, <3>3, <3>4
    <3>6. QED
      BY <3>1, <3>2, <3>5
  <2>3. ASSUME phase' = "surgery", Team = Threads, NEW p \in Position', Unmerged(p)'
        PROVE  \E t \in Threads :
                  \/ held'[t] # no_position /\ held'[t].position = p
                  \/ \E k \in DOMAIN positions' : /\ positions'[k] = p
                                                  /\ p[1] \in bucket'[t] \/ k \in Remaining(t)'
    BY <1>1, <1>4, <1>23, <2>2, <2>3
  <2>4. QED
    BY <1>2, <2>1, <2>3 DEF AllCovered
<1>25. QueueComplete' /\ BestApart'
  BY <1>1, <1>2 DEF EInv, QueueComplete, BestApart, Eligible, Queued
<1>26. QED
  BY <1>10, <1>11, <1>12, <1>13, <1>14, <1>15, <1>16, <1>19, <1>20, <1>21, <1>24, <1>25 DEF EInv
-----------------------------------------------------------------------------
(* The positions of a round, from the first to the last.                   *)

LEMMA TailFacts ==
    ASSUME NEW S, NEW q \in Seq(S), q # << >>, NEW d, d = Tail(q)
    PROVE  /\ d \in Seq(S) /\ 1 \in DOMAIN q /\ Head(q) = q[1] /\ q[1] \in S
           /\ \A i \in DOMAIN d : /\ i \in Nat \ {0} /\ i + 1 \in DOMAIN q
                                  /\ d[i] = q[i + 1]
           /\ \A i \in DOMAIN q : i \in Nat \ {0} /\ q[i] \in S /\ (i # 1 => i - 1 \in DOMAIN d)
<1>1. /\ d \in Seq(S) /\ Len(q) \in Nat \ {0} /\ Len(d) = Len(q) - 1
      /\ DOMAIN q = 1..Len(q) /\ DOMAIN d = 1..(Len(q) - 1)
      /\ \A i \in DOMAIN d : d[i] = q[i + 1]
      /\ Head(q) = q[1]
  OBVIOUS
<1>2. \A i \in DOMAIN q : q[i] \in S
  OBVIOUS
<1>3. QED
  BY <1>1, <1>2

LEMMA TailInOrder ==
    ASSUME NEW S, NEW q \in Seq(S), q # << >>, InOrder(q)
    PROVE  InOrder(Tail(q))
<1> DEFINE d == Tail(q)
<1>1. \A i \in DOMAIN d : i \in Nat \ {0} /\ i + 1 \in DOMAIN q /\ d[i] = q[i + 1]
  BY TailFacts
<1>2. DOMAIN d = 1..Len(d) /\ Len(d) \in Nat
  <2>1. d \in Seq(S)
    BY TailFacts
  <2>2. QED
    BY <2>1
<1> HIDE DEF d
<1>3. ASSUME NEW i \in DOMAIN d, NEW j \in DOMAIN d, i < j, d[i][1] = d[j][1]
      PROVE  d[i][2] < d[j][2] /\ \A k \in i..j : d[k][1] = d[i][1]
  <2>1. /\ i + 1 \in DOMAIN q /\ j + 1 \in DOMAIN q /\ i + 1 < j + 1
        /\ d[i] = q[i + 1] /\ d[j] = q[j + 1] /\ i \in Nat \ {0} /\ j \in Nat \ {0}
    BY <1>1, <1>3
  <2>2. q[i + 1][2] < q[j + 1][2] /\ \A k \in (i + 1)..(j + 1) : q[k][1] = q[i + 1][1]
    BY <1>3, <2>1 DEF InOrder
  <2>3. ASSUME NEW k \in i..j PROVE d[k][1] = d[i][1]
    <3>1. k \in Nat /\ i <= k /\ k <= j
      BY <2>1
    <3>2. 1 <= i /\ j <= Len(d)
      BY <1>2
    <3>3. k \in DOMAIN d
      BY <1>2, <2>1, <3>1, <3>2
    <3>4. d[k] = q[k + 1]
      BY <1>1, <3>3
    <3>5. k + 1 \in (i + 1)..(j + 1)
      BY <2>1, <3>1
    <3>6. QED
      BY <2>1, <2>2, <3>4, <3>5
  <2>4. QED
    BY <2>1, <2>2, <2>3
<1>4. InOrder(d)
  BY <1>3 DEF InOrder
<1>5. QED
  BY <1>4 DEF d

\* The first is the leftmost of its word, and the others of the word come next.
LEMMA HeadFirst ==
    ASSUME NEW S, NEW q \in Seq(S), q # << >>, InOrder(q),
           NEW i \in DOMAIN q, i # 1, q[i][1] = q[1][1]
    PROVE  /\ q[1][2] < q[i][2]
           /\ Tail(q) # << >> /\ Tail(q)[1][1] = q[1][1]
<1>1. /\ Len(q) \in Nat /\ DOMAIN q = 1..Len(q)
      /\ DOMAIN Tail(q) = 1..(Len(q) - 1) /\ Tail(q) \in Seq(S)
  OBVIOUS
<1>2. i \in Nat /\ 1 < i /\ 1 \in DOMAIN q /\ i <= Len(q) /\ 2 \in 1..i
  BY <1>1
<1>3. q[1][2] < q[i][2] /\ \A k \in 1..i : q[k][1] = q[1][1]
  BY <1>2 DEF InOrder
<1>4. q[2][1] = q[1][1]
  BY <1>2, <1>3
<1>5. 1 \in DOMAIN Tail(q)
  BY <1>1, <1>2
<1>6. Tail(q)[1] = q[1 + 1]
  BY <1>5, TailFacts
<1>7. Tail(q) # << >>
  <2>1. ASSUME Tail(q) = << >> PROVE FALSE
    <3>1. DOMAIN Tail(q) = {}
      BY <2>1
    <3>2. QED
      BY <1>5, <3>1
  <2>2. QED
    BY <2>1
<1>8. QED
  BY <1>3, <1>4, <1>6, <1>7

\* A word that is done with is not among the positions any more.
LEMMA NextWordBehind ==
    ASSUME NEW b, NEW T, NEW w, NewbornsBehind(b, T, w), NEW v,
           v # w => \A x \in T : x[1] # w
    PROVE  NewbornsBehind(b, T, v)
BY DEF NewbornsBehind

LEMMA SkipPositionExact == IInv /\ EInv /\ SkipPosition => EInv'
<1> SUFFICES ASSUME IInv, EInv, SkipPosition PROVE EInv'
  OBVIOUS
<1>1. /\ splits' = splits /\ phase = "sequential" /\ phase' = "sequential"
      /\ UNCHANGED <<chain, vocabulary, book, queue, best, thread, events>>
      /\ positions # << >> /\ positions' = Tail(positions)
      /\ ~Unmerged(Head(positions))
  BY DEF SkipPosition, Unmerged
<1>2. Listed' = Listed
  BY <1>1 DEF Listed, Queued
<1>3. /\ NeverAborted' /\ BookExact' /\ KeysKnown' /\ BuildExact' /\ BookDescribes'
      /\ EventsFit' /\ EventsInOrder'
  BY <1>1, <1>2, SameBook DEF InRound
<1>4. Region' /\ WalkExact'
  BY <1>1 DEF Region, WalkExact
<1>5. Idle'
  BY <1>1 DEF EInv, Idle, thread
<1>6. QueueComplete' /\ BestApart'
  BY <1>1 DEF EInv, QueueComplete, BestApart, Eligible, Queued
<1>7. positions \in Seq(Position)
  BY DEF IInv, TypeOK
<1>8. InOrder(positions)
  BY DEF EInv, PositionsInOrder
<1>9. PositionsInOrder'
  <2>1. InOrder(Tail(positions))
    BY <1>1, <1>7, <1>8, TailInOrder
  <2>2. QED
    BY <1>1, <2>1 DEF PositionsInOrder
<1>10. /\ \A i \in DOMAIN positions' : /\ i \in Nat \ {0} /\ i + 1 \in DOMAIN positions
                                       /\ positions'[i] = positions[i + 1]
       /\ 1 \in DOMAIN positions /\ positions[1] \in Position /\ Head(positions) = positions[1]
       /\ \A i \in DOMAIN positions : i \in Nat \ {0} /\ (i # 1 => i - 1 \in DOMAIN positions')
  BY <1>1, <1>7, TailFacts
<1>11. NewbornsInOrder'
  <2> SUFFICES ASSUME NEW v \in DOMAIN splits, CurrentWord(v)' PROVE NewbornsBehind(book, Todo', v)
    BY <1>1 DEF NewbornsInOrder
  <2> DEFINE w == positions[1][1]
  <2>1. positions' # << >> /\ positions'[1][1] = v
    BY <1>1 DEF CurrentWord
  <2>2. splits \in Corpora /\ w \in DOMAIN splits
    BY <1>10, ExactFacts, PositionsTyped
  <2>3. NewbornsBehind(book, Todo, w)
    BY <1>1, <2>2 DEF EInv, NewbornsInOrder, CurrentWord
  <2>4. Todo' \in SUBSET Todo
    BY <1>1, <1>10 DEF Todo
  <2>5. NewbornsBehind(book, Todo', w)
    BY <2>3, <2>4, BehindFewer
  <2>6. ASSUME v # w, NEW x \in Todo' PROVE x[1] # w
    <3>1. PICK i \in DOMAIN positions' : x = positions'[i]
      BY <1>1 DEF Todo
    <3>2. i + 1 \in DOMAIN positions /\ i + 1 # 1 /\ x = positions[i + 1]
      BY <1>10, <3>1
    <3>3. positions[i + 1][1] = positions[1][1] => Tail(positions)[1][1] = positions[1][1]
      BY <1>1, <1>7, <1>8, <3>2, HeadFirst
    <3>4. QED
      BY <1>1, <2>1, <2>6, <3>2, <3>3
  <2>7. QED
    BY <2>5, <2>6, NextWordBehind
<1>12. AllCovered'
  <2>1. Position' = Position
    BY <1>1, SameInput
  <2>2. \A p : Unmerged(p)' <=> Unmerged(p)
    BY <1>1 DEF Unmerged, pair_is_at, is_live, chain, left_token, right_token
  <2>3. ASSUME NEW p \in Position, Unmerged(p) PROVE \E i \in DOMAIN positions' : positions'[i] = p
    <3>1. PICK i \in DOMAIN positions : positions[i] = p
      BY <1>1, <2>3 DEF EInv, AllCovered
    <3>2. i # 1
      BY <1>1, <1>10, <2>3, <3>1
    <3>3. i - 1 \in DOMAIN positions' /\ positions'[i - 1] = positions[(i - 1) + 1]
      BY <1>10, <3>2
    <3>4. (i - 1) + 1 = i
      BY <1>10
    <3>5. QED
      BY <3>1, <3>3, <3>4
  <2>4. QED
    BY <1>1, <2>1, <2>2, <2>3 DEF AllCovered
<1>13. QED
  BY <1>3, <1>4, <1>5, <1>6, <1>9, <1>11, <1>12 DEF EInv
-----------------------------------------------------------------------------
(* The parallel region.                                                    *)

\* Steps within the region that leave chain, book and events alone.
LEMMA RegionQuiet ==
    ASSUME IInv, EInv, splits' = splits, phase = "surgery", phase' = "surgery",
           UNCHANGED <<chain, vocabulary, book, queue, best, positions, events>>,
           \A u \in Threads : ThreadRegion(u)', AllCovered'
    PROVE  EInv'
<1>1. Listed' = Listed
  BY DEF Listed, Queued
<1>2. /\ NeverAborted' /\ BookExact' /\ KeysKnown' /\ BuildExact' /\ BookDescribes'
      /\ EventsFit' /\ EventsInOrder'
  BY <1>1, SameBook DEF InRound
<1>3. PositionsInOrder' /\ WalkExact' /\ NewbornsInOrder'
  BY DEF EInv, PositionsInOrder, WalkExact, NewbornsInOrder
<1>4. Idle'
  BY DEF EInv, Idle
<1>5. QueueComplete' /\ BestApart'
  BY DEF EInv, QueueComplete, BestApart, Eligible, Queued
<1>6. Region'
  <2>1. \A p \in Position : alive[p] /\ token[p] = merged_token => p \in Mergeds(PendingEvents)
    BY DEF EInv, Region
  <2>2. Position' = Position /\ PendingEvents' = PendingEvents /\ merged_token' = merged_token
    BY SameInput, SamePending DEF merged_token
  <2>3. \A p \in Position' : alive'[p] /\ token'[p] = merged_token' => p \in Mergeds(PendingEvents')
    BY <2>1, <2>2 DEF chain
  <2>4. QED
    BY <2>3 DEF Region
<1>7. QED
  BY <1>2, <1>3, <1>4, <1>5, <1>6 DEF EInv

\* A thread that is not concerned stays where it is.
LEMMA OtherThread ==
    ASSUME NEW u \in Threads, ThreadRegion(u), positions' = positions, events'[u] = events[u],
           word'[u] = word[u], bucket'[u] = bucket[u], index'[u] = index[u], held'[u] = held[u]
    PROVE  ThreadRegion(u)' /\ Remaining(u)' = Remaining(u)
<1>1. Remaining(u)' = Remaining(u)
  BY DEF Remaining
<1>2. QED
  BY <1>1 DEF ThreadRegion

\* An occurrence of the pair that some thread will come to.
Covered(u, p) ==
    \/ held[u] # no_position /\ held[u].position = p
    \/ \E k \in DOMAIN positions : /\ positions[k] = p
                                   /\ p[1] \in bucket[u] \/ k \in Remaining(u)

LEMMA OtherCovered ==
    ASSUME NEW u, positions' = positions, Remaining(u)' = Remaining(u),
           bucket'[u] = bucket[u], held'[u] = held[u], NEW p, Covered(u, p)
    PROVE  Covered(u, p)'
BY DEF Covered

LEMMA CoveredQuiet ==
    ASSUME EInv, phase = "surgery", phase' = "surgery", splits' = splits,
           UNCHANGED <<chain, book, best>>,
           \A u \in Threads : \A p \in Position : Unmerged(p) /\ Covered(u, p) => Covered(u, p)'
    PROVE  AllCovered'
<1>1. Position' = Position
  BY SameInput
<1>2. \A p : Unmerged(p)' <=> Unmerged(p)
  BY DEF Unmerged, pair_is_at, is_live, chain, left_token, right_token
<1>3. Team = Threads => \A p \in Position : Unmerged(p) => \E u \in Threads : Covered(u, p)
  BY DEF EInv, AllCovered, Covered
<1>4. Team = Threads => \A p \in Position : Unmerged(p) => \E u \in Threads : Covered(u, p)'
  BY <1>3
<1>5. QED
  BY <1>1, <1>2, <1>4 DEF AllCovered, Covered

LEMMA TakeWordExact == ASSUME IInv, EInv, NEW t \in Team, TakeWord(t) PROVE EInv'
<1>1. /\ splits' = splits /\ phase = "surgery" /\ phase' = "surgery"
      /\ UNCHANGED <<chain, vocabulary, book, queue, best, positions, held, events>>
      /\ held[t] = no_position /\ Remaining(t) = {} /\ index' = [index EXCEPT ![t] = 0]
  BY DEF TakeWord
<1>2. PICK w \in bucket[t] : /\ word' = [word EXCEPT ![t] = w]
                             /\ bucket' = [bucket EXCEPT ![t] = @ \ {w}]
  BY DEF TakeWord
<1>3. t \in Threads
  BY ThreadAssumption
<1>4. /\ bucket \in [Threads -> SUBSET DOMAIN splits] /\ word \in [Threads -> Nat]
      /\ index \in [Threads -> Nat] /\ positions \in Seq(Position)
  BY DEF IInv, TypeOK
<1>5. \A u \in Threads : /\ bucket'[u] = IF u = t THEN bucket[t] \ {w} ELSE bucket[u]
                         /\ word'[u] = IF u = t THEN w ELSE word[u]
                         /\ index'[u] = IF u = t THEN 0 ELSE index[u]
                         /\ held'[u] = held[u] /\ events'[u] = events[u]
  BY <1>1, <1>2, <1>3, <1>4
<1>6. \A u \in Threads : ThreadRegion(u)
  BY <1>1 DEF EInv, Region
<1>7. \A u \in Threads : u # t => ThreadRegion(u)' /\ Remaining(u)' = Remaining(u)
  BY <1>1, <1>5, <1>6, OtherThread
<1>8. ThreadRegion(t)'
  <2>1. word'[t] = w /\ bucket'[t] = bucket[t] \ {w} /\ held'[t] = no_position /\ events'[t] = events[t]
    BY <1>1, <1>3, <1>5
  <2>2. \A i \in DOMAIN events[t] : events[t][i].position[1] \notin bucket[t]
    BY <1>3, <1>6 DEF ThreadRegion
  <2>3. QED
    BY <2>1, <2>2 DEF ThreadRegion
<1>9. ASSUME NEW u \in Threads, NEW p \in Position, Unmerged(p), Covered(u, p)
      PROVE  Covered(u, p)'
  <2>1. CASE u # t
    BY <1>1, <1>5, <1>7, <1>9, <2>1, OtherCovered
  <2>2. CASE u = t
    <3>1. PICK k \in DOMAIN positions : positions[k] = p /\ p[1] \in bucket[t]
      BY <1>1, <1>9, <2>2 DEF Covered
    <3>2. p[1] # w => p[1] \in bucket'[t]
      BY <1>3, <1>5, <3>1
    <3>3. p[1] = w => k \in Remaining(t)'
      <4>1. k > 0
        BY <1>4
      <4>2. index'[t] = 0 /\ word'[t] = w /\ positions' = positions
        BY <1>1, <1>3, <1>5
      <4>3. QED
        BY <3>1, <4>1, <4>2 DEF Remaining
    <3>4. QED
      BY <1>1, <2>2, <3>1, <3>2, <3>3 DEF Covered
  <2>3. QED
    BY <2>1, <2>2
<1>10. AllCovered'
  BY <1>1, <1>9, CoveredQuiet
<1>11. QED
  BY <1>1, <1>7, <1>8, <1>10, RegionQuiet

LEMMA OccurrenceHeld ==
    ASSUME IInv, NEW p \in Position, Unmerged(p)
    PROVE  Neighbours(p) # no_position
<1>1. splits \in Corpora /\ ChainTyped /\ ChainOrdered /\ ChainLinked
  BY InvFacts DEF IInv
<1>2. alive[p] /\ alive[next[p]]
  BY DEF Unmerged, pair_is_at, is_live
<1> DEFINE n == Neighbours(p)
<1>3. n.right \in Position /\ n.after \in Position /\ n.left \in Optional(Position) /\ n.position = p
  BY <1>1, <1>2, NeighbourFacts
<1>4. Position \subseteq Nat \X Nat
  BY <1>1, PositionsTyped
<1>5. n = [position |-> n.position, right |-> n.right, left |-> n.left, after |-> n.after]
  BY DEF Neighbours
<1> HIDE DEF n
<1>6. n \in [position : Nat \X Nat, right : Nat \X Nat,
             left : (Nat \X Nat) \cup {no_position}, after : (Nat \X Nat) \cup {no_position}]
  BY <1>3, <1>4, <1>5 DEF Optional
<1>7. QED
  BY <1>6, HeldAssumption DEF n

LEMMA ResolveExact == ASSUME IInv, EInv, NEW t \in Team, Resolve(t) PROVE EInv'
<1>1. /\ splits' = splits /\ phase = "surgery" /\ phase' = "surgery"
      /\ UNCHANGED <<chain, vocabulary, book, queue, best, positions, word, bucket, events>>
      /\ held[t] = no_position
  BY DEF Resolve
<1>2. PICK k \in Remaining(t) :
         /\ \A j \in Remaining(t) : k <= j
         /\ index' = [index EXCEPT ![t] = k]
         /\ held' = [held EXCEPT ![t] = IF Unmerged(positions[k])
                                        THEN Neighbours(positions[k]) ELSE no_position]
  BY DEF Resolve, Unmerged
<1>3. t \in Threads
  BY ThreadAssumption
<1>4. /\ index \in [Threads -> Nat] /\ positions \in Seq(Position)
      /\ held \in [Threads -> Optional(Occurrence)]
  BY DEF IInv, TypeOK
<1> DEFINE h == IF Unmerged(positions[k]) THEN Neighbours(positions[k]) ELSE no_position
<1>5. \A u \in Threads : /\ bucket'[u] = bucket[u] /\ word'[u] = word[u] /\ events'[u] = events[u]
                         /\ index'[u] = IF u = t THEN k ELSE index[u]
                         /\ held'[u] = IF u = t THEN h ELSE held[u]
  <2> HIDE DEF h
  <2>1. held' = [held EXCEPT ![t] = h]
    BY <1>2 DEF h
  <2>2. QED
    BY <1>1, <1>2, <1>3, <1>4, <2>1
<1>6. \A u \in Threads : ThreadRegion(u)
  BY <1>1 DEF EInv, Region
<1>7. \A u \in Threads : u # t => ThreadRegion(u)' /\ Remaining(u)' = Remaining(u)
  BY <1>1, <1>5, <1>6, OtherThread
<1>8. /\ k \in DOMAIN positions /\ k \in Nat /\ k > index[t] /\ positions[k][1] = word[t]
      /\ DOMAIN positions \subseteq Nat /\ index[t] \in Nat
  BY <1>3, <1>4 DEF Remaining
<1>9. Remaining(t)' = Remaining(t) \ {k}
  <2>1. \A j \in Remaining(t) : j \in DOMAIN positions /\ j > index[t] /\ positions[j][1] = word[t]
    BY DEF Remaining
  <2>2. Remaining(t)' = {j \in DOMAIN positions : j > k /\ positions[j][1] = word[t]}
    BY <1>1, <1>3, <1>5 DEF Remaining
  <2>3. \A j \in Remaining(t) : j # k => j > k
    BY <1>2, <1>8, <2>1
  <2>4. \A j \in DOMAIN positions : j > k /\ positions[j][1] = word[t] => j \in Remaining(t) /\ j # k
    BY <1>8 DEF Remaining
  <2>5. QED
    BY <2>1, <2>2, <2>3, <2>4
<1>10. h # no_position => h.position = positions[k]
  BY DEF Neighbours
<1>11. \A j \in Remaining(t) \ {k} : positions[k][2] < positions[j][2]
  <2> SUFFICES ASSUME NEW j \in Remaining(t), j # k PROVE positions[k][2] < positions[j][2]
    OBVIOUS
  <2>1. j \in DOMAIN positions /\ k < j /\ positions[j][1] = positions[k][1]
    <3>1. j \in DOMAIN positions /\ positions[j][1] = word[t] /\ k <= j
      BY <1>2 DEF Remaining
    <3>2. QED
      BY <1>8, <3>1
  <2>2. QED
    BY <1>8, <2>1 DEF EInv, PositionsInOrder, InOrder
<1>12. ThreadRegion(t)'
  <2>1. /\ bucket'[t] = bucket[t] /\ word'[t] = word[t] /\ events'[t] = events[t] /\ held'[t] = h
        /\ positions' = positions
    BY <1>1, <1>3, <1>5
  <2>2. word[t] \notin bucket[t]
    BY <1>3, <1>6 DEF ThreadRegion
  <2>3. ASSUME NEW i \in DOMAIN events[t]
        PROVE  LET p == events[t][i].position
               IN  /\ p[1] \notin bucket[t]
                   /\ p[1] = word[t] =>
                        /\ \A j \in Remaining(t)' : p[2] < positions[j][2]
                        /\ h # no_position => p[2] < h.position[2]
                        /\ \A j \in DOMAIN events[t] : i < j => events[t][j].position[1] = word[t]
    <3>1. LET p == events[t][i].position
          IN  /\ p[1] \notin bucket[t]
              /\ p[1] = word[t] =>
                   /\ \A j \in Remaining(t) : p[2] < positions[j][2]
                   /\ \A j \in DOMAIN events[t] : i < j => events[t][j].position[1] = word[t]
      BY <1>3, <1>6 DEF ThreadRegion
    <3> HIDE DEF h
    <3>2. QED
      BY <1>9, <1>10, <3>1
  <2>4. h # no_position =>
           /\ h.position[1] = word[t]
           /\ \A j \in Remaining(t)' : h.position[2] < positions[j][2]
    BY <1>8, <1>9, <1>10, <1>11
  <2> HIDE DEF h
  <2>5. QED
    BY <2>1, <2>2, <2>3, <2>4 DEF ThreadRegion
<1>13. ASSUME NEW u \in Threads, NEW p \in Position, Unmerged(p), Covered(u, p)
       PROVE  Covered(u, p)'
  <2>1. CASE u # t
    BY <1>1, <1>5, <1>7, <1>13, <2>1, OtherCovered
  <2>2. CASE u = t
    <3>1. PICK j \in DOMAIN positions : positions[j] = p /\ (p[1] \in bucket[t] \/ j \in Remaining(t))
      BY <1>1, <1>13, <2>2 DEF Covered
    <3>2. CASE j # k
      BY <1>1, <1>3, <1>5, <1>9, <2>2, <3>1, <3>2 DEF Covered
    <3>3. CASE j = k
      <4>1. h = Neighbours(p)
        BY <1>13, <3>1, <3>3
      <4>2. h # no_position
        BY <1>13, <4>1, OccurrenceHeld
      <4>3. h.position = p
        BY <4>1 DEF Neighbours
      <4>4. held'[t] = h
        BY <1>3, <1>5
      <4> HIDE DEF h
      <4>5. QED
        BY <2>2, <4>2, <4>3, <4>4 DEF Covered
    <3>4. QED
      BY <3>2, <3>3
  <2>3. QED
    BY <2>1, <2>2
<1>14. AllCovered'
  BY <1>1, <1>13, CoveredQuiet
<1>15. QED
  BY <1>1, <1>7, <1>12, <1>14, RegionQuiet
LEMMA JoinExact == IInv /\ EInv /\ Join => EInv'
<1> SUFFICES ASSUME IInv, EInv, Join PROVE EInv'
  OBVIOUS
<1>1. /\ splits' = splits /\ phase = "surgery" /\ phase' = "replay"
      /\ UNCHANGED <<chain, vocabulary, book, queue, best, held, events>>
      /\ positions' = << >>
      /\ word' = [t \in Threads |-> 0] /\ index' = [t \in Threads |-> 0]
      /\ \A t \in Threads : bucket[t] = {} /\ Remaining(t) = {} /\ held[t] = no_position
  BY DEF Join
<1>2. Listed' = Listed
  BY <1>1 DEF Listed, Queued
<1>3. /\ NeverAborted' /\ BookExact' /\ KeysKnown' /\ BuildExact' /\ BookDescribes'
      /\ EventsFit' /\ EventsInOrder'
  BY <1>1, <1>2, SameBook DEF InRound
<1>4. PositionsInOrder' /\ Region' /\ WalkExact'
  BY <1>1 DEF PositionsInOrder, InOrder, Region, WalkExact
<1>5. Idle'
  BY <1>1 DEF Idle
<1>6. QueueComplete' /\ BestApart'
  BY <1>1 DEF EInv, QueueComplete, BestApart, Eligible, Queued
<1>7. NewbornsInOrder'
  <2>1. book'.born = << >>
    BY <1>1 DEF EInv, Idle
  <2>2. QED
    BY <2>1 DEF NewbornsInOrder, NewbornsBehind, Newborn
<1>8. AllCovered'
  <2>1. Position' = Position
    BY <1>1, SameInput
  <2>2. \A p : Unmerged(p)' <=> Unmerged(p)
    BY <1>1 DEF Unmerged, pair_is_at, is_live, chain, left_token, right_token
  <2>3. Team = Threads => \A p \in Position : ~Unmerged(p)
    BY <1>1 DEF EInv, AllCovered
  <2>4. QED
    BY <1>1, <2>1, <2>2, <2>3 DEF AllCovered
<1>9. QED
  BY <1>3, <1>4, <1>5, <1>6, <1>7, <1>8 DEF EInv
-----------------------------------------------------------------------------
(* The merge of an occurrence in the chain.                                *)

LEMMA OccurrenceFacts ==
    ASSUME IInv, NEW p \in Position, Unmerged(p), NEW n, n = Neighbours(p), NEW ev, ev = MergeEvent(n)
    PROVE  /\ Occurs(Chain, Position, p, n.right, n.after, left_token, right_token)
           /\ EventOf(Chain, ev, p, n.right, n.after)
           /\ n.position = p /\ ev.position = p /\ ev.right = n.right /\ ev \in EventSet
<1>1. splits \in Corpora /\ ChainTyped /\ ChainOrdered /\ ChainLinked
  BY InvFacts DEF IInv
<1>2. /\ alive[p] /\ token[p] = left_token
      /\ alive[next[p]] /\ token[next[p]] = right_token
  BY DEF Unmerged, pair_is_at, is_live
<1>3. /\ n.right = next[p] /\ n.right \in Position /\ n.after = next[n.right] /\ n.after \in Position
      /\ n.left = previous[p] /\ n.position = p
      /\ n.left # no_position => n.left \in Position /\ alive[n.left]
  BY <1>1, <1>2, NeighbourFacts
<1>4. /\ ev \in EventSet /\ ev.position = p /\ ev.right = n.right /\ ev.left = n.left
      /\ ev.after = IF alive[n.after] THEN n.after ELSE no_position
  BY <1>2, MergeEventFacts
<1>5. /\ ev.left_token = IF is_live(n.left) THEN token[n.left] ELSE no_position
      /\ ev.after_token = IF is_live(n.after) THEN token[n.after] ELSE no_position
  BY DEF MergeEvent
<1>6. no_position \notin Position
  BY <1>1, PositionsTyped
<1>7. ev.left # no_position => ev.left_token = token[ev.left]
  BY <1>3, <1>4, <1>5 DEF is_live
<1>8. ev.after # no_position => ev.after_token = token[ev.after]
  BY <1>3, <1>4, <1>5, <1>6 DEF is_live
<1>9. Occurs(Chain, Position, p, n.right, n.after, left_token, right_token)
  BY <1>2, <1>3 DEF Occurs, Chain
<1>10. EventOf(Chain, ev, p, n.right, n.after)
  BY <1>3, <1>4, <1>7, <1>8 DEF EventOf, Chain
<1>11. QED
  BY <1>3, <1>4, <1>9, <1>10

LEMMA OccurrenceSpliced ==
    ASSUME IInv, splits' = splits, NEW p \in Position, Unmerged(p), NEW n, n = Neighbours(p),
           merged_token \in Nat, Splice(n, merged_token)
    PROVE  SplicedTo(Chain, Chain', Position, p, n.right, n.after, merged_token)
<1>1. splits \in Corpora /\ ChainTyped /\ ChainOrdered /\ ChainLinked
  BY InvFacts DEF IInv
<1>2. alive[p] /\ alive[next[p]]
  BY DEF Unmerged, pair_is_at, is_live
<1>3. Spliced(p, n.right, n.after, merged_token)
  BY <1>1, <1>2, SpliceFacts
<1>4. QED
  BY <1>3 DEF Spliced, SplicedTo, Chain

\* A merge makes no new occurrence of the pair, and it uses up its own.
LEMMA UnmergedFewer ==
    ASSUME NEW p, NEW right, NEW after, right # p,
           SplicedTo(Chain, Chain', Position, p, right, after, merged_token),
           ChainOK(Chain, Position), no_position \notin Position,
           left_token # merged_token, right_token # merged_token,
           left_token' = left_token, right_token' = right_token,
           NEW q \in Position, Unmerged(q)'
    PROVE  Unmerged(q) /\ q # p
<1>1. \A x \in Position :
         /\ token'[x] = IF x = p THEN merged_token ELSE token[x]
         /\ alive'[x] <=> x # right /\ alive[x]
         /\ next'[x] = IF x = p THEN after ELSE IF x = right THEN no_position ELSE next[x]
  BY DEF SplicedTo, Chain
<1>2. alive'[q] /\ token'[q] = left_token /\ is_live(next[q])' /\ token'[next'[q]] = right_token
  BY DEF Unmerged, pair_is_at, is_live
<1>3. q # p /\ q # right /\ alive[q] /\ token[q] = left_token /\ next'[q] = next[q]
  BY <1>1, <1>2
<1>4. next[q] \in Position
  BY <1>3 DEF ChainOK, Chain
<1>5. alive'[next[q]] /\ token'[next[q]] = right_token
  BY <1>2, <1>3 DEF is_live
<1>6. alive[next[q]] /\ token[next[q]] = right_token
  BY <1>1, <1>4, <1>5
<1>7. QED
  BY <1>3, <1>4, <1>6 DEF Unmerged, pair_is_at, is_live

\* The events as the lemmas on chains have them.
LEMMA PendingFit ==
    ASSUME IInv, EInv, phase \in {"surgery", "replay"}
    PROVE  /\ PendingEvents \subseteq EventSet
           /\ Fits(Chain, PendingEvents, Position, left_token, merged_token)
<1>1. events \in [Threads -> Seq(EventSet)]
  BY DEF IInv, TypeOK
<1>2. PendingEvents \subseteq EventSet
  <2> SUFFICES ASSUME NEW t \in Threads, NEW i \in DOMAIN events[t] PROVE events[t][i] \in EventSet
    BY DEF PendingEvents
  <2>1. events[t] \in Seq(EventSet)
    BY <1>1
  <2>2. QED
    BY <2>1
<1>3. \A e \in PendingEvents : e.position \in Position /\ e.right \in Position
  BY <1>2 DEF EventSet
<1>4. /\ EventsApart(PendingEvents)
      /\ \A e \in PendingEvents : EventFits(Chain, PendingEvents, left_token, merged_token, e)
  BY DEF EInv, EventsFit
<1>5. QED
  BY <1>2, <1>3, <1>4 DEF Fits
LEMMA EventAppended ==
    ASSUME events \in [Threads -> Seq(EventSet)], NEW t \in Threads, NEW ev \in EventSet,
           events' = [events EXCEPT ![t] = Append(@, ev)]
    PROVE  /\ PendingEvents' = PendingEvents \cup {ev}
           /\ \A u \in Threads \ {t} : events'[u] = events[u]
           /\ \E n \in Nat : /\ DOMAIN events[t] = 1..n /\ DOMAIN events'[t] = 1..(n + 1)
                             /\ \A i \in 1..n : events'[t][i] = events[t][i]
                             /\ events'[t][n + 1] = ev
<1> DEFINE q == events[t]
           d == Append(q, ev)
           n == Len(q)
<1>1. q \in Seq(EventSet)
  OBVIOUS
<1>2. /\ n \in Nat /\ DOMAIN q = 1..n /\ DOMAIN d = 1..(n + 1)
      /\ \A i \in DOMAIN q : d[i] = q[i]
      /\ d[n + 1] = ev
  <2> HIDE DEF q
  <2>1. QED
    BY <1>1, AppendFacts
<1>3. events'[t] = d /\ \A u \in Threads \ {t} : events'[u] = events[u]
  <2>1. events' = [events EXCEPT ![t] = d]
    OBVIOUS
  <2> HIDE DEF d
  <2>2. QED
    BY <2>1
<1>4. PendingEvents' = PendingEvents \cup {ev}
  <2>2. {events'[t][i] : i \in DOMAIN events'[t]} = {q[i] : i \in DOMAIN q} \cup {ev}
    <3> HIDE DEF q, d
    <3>1. \A i \in DOMAIN d : i \in DOMAIN q \/ i = n + 1
      BY <1>2
    <3>2. n + 1 \in DOMAIN d /\ DOMAIN q \subseteq DOMAIN d
      BY <1>2
    <3>3. {d[i] : i \in DOMAIN d} = {q[i] : i \in DOMAIN q} \cup {ev}
      BY <1>2, <3>1, <3>2
    <3>4. QED
      BY <1>3, <3>3
  <2>3. \A u \in Threads : {events'[u][i] : i \in DOMAIN events'[u]} =
           IF u = t THEN {events[t][i] : i \in DOMAIN events[t]} \cup {ev}
           ELSE {events[u][i] : i \in DOMAIN events[u]}
    BY <1>3, <2>2
  <2> DEFINE Old(u) == {events[u][i] : i \in DOMAIN events[u]}
             New(u) == {events'[u][i] : i \in DOMAIN events'[u]}
  <2>4. PendingEvents' = UNION {New(u) : u \in Threads} /\ PendingEvents = UNION {Old(u) : u \in Threads}
    BY DEF PendingEvents
  <2>5. \A u \in Threads : New(u) = IF u = t THEN Old(u) \cup {ev} ELSE Old(u)
    BY <2>3
  <2> HIDE DEF Old, New
  <2>6. \A e : e \in PendingEvents' <=> e \in PendingEvents \cup {ev}
    BY <2>4, <2>5
  <2>7. QED
    BY <2>6
<1> HIDE DEF q, d, n
<1>5. \E m \in Nat : /\ DOMAIN events[t] = 1..m /\ DOMAIN events'[t] = 1..(m + 1)
                     /\ \A i \in 1..m : events'[t][i] = events[t][i]
                     /\ events'[t][m + 1] = ev
  <2>1. /\ DOMAIN events[t] = 1..n /\ DOMAIN events'[t] = 1..(n + 1)
        /\ \A i \in 1..n : events'[t][i] = events[t][i]
        /\ events'[t][n + 1] = ev
    BY <1>2, <1>3 DEF q
  <2>2. QED
    BY <1>2, <2>1
<1>6. QED
  BY <1>3, <1>4, <1>5

\* An occurrence behind the others is added to an order.
LEMMA AppendInOrder ==
    ASSUME NEW n \in Nat, NEW x, NEW y, DOMAIN x = 1..n, DOMAIN y = 1..(n + 1),
           \A i \in 1..n : y[i] = x[i], InOrder(x),
           \A i \in 1..n : x[i][1] = y[n + 1][1] =>
              /\ x[i][2] < y[n + 1][2]
              /\ \A k \in 1..n : i < k => x[k][1] = x[i][1]
    PROVE  InOrder(y)
<1> SUFFICES ASSUME NEW i \in DOMAIN y, NEW j \in DOMAIN y, i < j, y[i][1] = y[j][1]
             PROVE  y[i][2] < y[j][2] /\ \A k \in i..j : y[k][1] = y[i][1]
  BY DEF InOrder
<1>1. i \in 1..n /\ y[i] = x[i] /\ i \in Nat /\ j \in Nat
  OBVIOUS
<1>2. CASE j \in 1..n
  <2>1. y[j] = x[j]
    BY <1>2
  <2>2. x[i][2] < x[j][2] /\ \A k \in i..j : x[k][1] = x[i][1]
    BY <1>1, <1>2, <2>1 DEF InOrder
  <2>3. \A k \in i..j : k \in 1..n
    BY <1>1, <1>2
  <2>4. QED
    BY <1>1, <2>1, <2>2, <2>3
<1>3. CASE j = n + 1
  <2>1. x[i][1] = y[n + 1][1]
    BY <1>1, <1>3
  <2>2. x[i][2] < y[n + 1][2] /\ \A k \in 1..n : i < k => x[k][1] = x[i][1]
    BY <1>1, <2>1
  <2>3. ASSUME NEW k \in i..j PROVE y[k][1] = y[i][1]
    <3>1. k = i \/ k = n + 1 \/ (k \in 1..n /\ i < k)
      <4>1. k \in Nat /\ i <= k /\ k <= n + 1 /\ 1 <= i
        BY <1>1, <1>3
      <4>2. k = i \/ i < k
        BY <1>1, <4>1
      <4>3. k = n + 1 \/ k <= n
        BY <4>1
      <4>4. k <= n => k \in 1..n
        BY <1>1, <4>1
      <4>5. QED
        BY <4>2, <4>3, <4>4
    <3>2. QED
      BY <1>1, <1>3, <2>2, <3>1
  <2>4. QED
    BY <1>1, <1>3, <2>2, <2>3
<1>4. QED
  BY <1>2, <1>3
\* What a thread does to its own part of the region when it applies an occurrence.
LEMMA ApplyRegion ==
    ASSUME IInv, EInv, NEW t \in Threads, phase = "surgery", held[t] # no_position,
           NEW ev \in EventSet, ev.position = held[t].position,
           events' = [events EXCEPT ![t] = Append(@, ev)],
           held' = [held EXCEPT ![t] = no_position],
           UNCHANGED <<positions, bucket, word, index>>
    PROVE  /\ \A u \in Threads : ThreadRegion(u)'
           /\ \A u \in Threads : Remaining(u)' = Remaining(u)
           /\ \A u \in Threads \ {t} : held'[u] = held[u]
           /\ Follow(PendingEvents, ev.position)
           /\ EventsInOrder'
<1>1. events \in [Threads -> Seq(EventSet)] /\ held \in [Threads -> Optional(Occurrence)]
  BY DEF IInv, TypeOK
<1>2. /\ \A u \in Threads \ {t} : events'[u] = events[u]
      /\ \E n \in Nat : /\ DOMAIN events[t] = 1..n /\ DOMAIN events'[t] = 1..(n + 1)
                        /\ \A i \in 1..n : events'[t][i] = events[t][i]
                        /\ events'[t][n + 1] = ev
  BY <1>1, EventAppended
<1>3. PICK n \in Nat : /\ DOMAIN events[t] = 1..n /\ DOMAIN events'[t] = 1..(n + 1)
                       /\ \A i \in 1..n : events'[t][i] = events[t][i]
                       /\ events'[t][n + 1] = ev
  BY <1>2
<1>4. held'[t] = no_position /\ \A u \in Threads \ {t} : held'[u] = held[u]
  BY <1>1
<1>5. \A u \in Threads : ThreadRegion(u)
  BY DEF EInv, Region
<1>6. \A u \in Threads : Remaining(u)' = Remaining(u)
  BY DEF Remaining
<1>7. \A u \in Threads \ {t} : ThreadRegion(u)'
  BY <1>2, <1>4, <1>5, OtherThread
<1> DEFINE p == ev.position
<1>8. /\ p[1] = word[t] /\ word[t] \notin bucket[t]
      /\ \A k \in Remaining(t) : p[2] < positions[k][2]
  BY <1>5 DEF ThreadRegion
<1>9. \A i \in 1..n : LET q == events[t][i].position
                      IN  /\ q[1] \notin bucket[t]
                          /\ q[1] = word[t] =>
                               /\ \A k \in Remaining(t) : q[2] < positions[k][2]
                               /\ q[2] < p[2]
                               /\ \A j \in 1..n : i < j => events[t][j].position[1] = word[t]
  BY <1>3, <1>5 DEF ThreadRegion
<1> HIDE DEF p
<1>10. ThreadRegion(t)'
  <2>1. ASSUME NEW i \in 1..(n + 1)
        PROVE  LET q == events'[t][i].position
               IN  /\ q[1] \notin bucket[t]
                   /\ q[1] = word[t] =>
                        /\ \A k \in Remaining(t) : q[2] < positions[k][2]
                        /\ \A j \in 1..(n + 1) : i < j => events'[t][j].position[1] = word[t]
    <3>1. CASE i = n + 1
      <4>1. events'[t][i].position = p
        BY <1>3, <3>1 DEF p
      <4>2. \A j \in 1..(n + 1) : ~(i < j)
        BY <3>1
      <4>3. QED
        BY <1>8, <4>1, <4>2
    <3>2. CASE i \in 1..n
      <4>1. events'[t][i] = events[t][i]
        BY <1>3, <3>2
      <4>2. \A j \in 1..(n + 1) : j = n + 1 \/ j \in 1..n
        BY <1>3
      <4>3. events'[t][n + 1].position = p
        BY <1>3 DEF p
      <4>4. QED
        BY <1>3, <1>8, <1>9, <3>2, <4>1, <4>2, <4>3
    <3>3. QED
      BY <1>3, <3>1, <3>2
  <2>2. QED
    BY <1>3, <1>4, <1>6, <1>8, <2>1 DEF ThreadRegion
<1>11. Follow(PendingEvents, p)
  <2> SUFFICES ASSUME NEW u \in Threads, NEW i \in DOMAIN events[u],
                      events[u][i].position[1] = p[1]
               PROVE  events[u][i].position[2] < p[2]
    BY DEF Follow, PendingEvents
  <2>1. Owner(events[u][i].position[1]) = u /\ Owner(held[t].position[1]) = t
    BY DEF IInv, ThreadsOwn
  <2>2. u = t
    BY <2>1 DEF p
  <2>3. QED
    BY <1>3, <1>8, <1>9, <2>2
<1>12. EventsInOrder'
  <2> SUFFICES ASSUME NEW u \in Threads
               PROVE  InOrder([i \in DOMAIN events'[u] |-> events'[u][i].position])
    BY DEF EventsInOrder
  <2>1. \A v \in Threads : InOrder([i \in DOMAIN events[v] |-> events[v][i].position])
    BY DEF EInv, EventsInOrder
  <2>2. CASE u # t
    BY <1>2, <2>1, <2>2
  <2>3. CASE u = t
    <3> DEFINE x == [i \in DOMAIN events[t] |-> events[t][i].position]
               y == [i \in DOMAIN events'[t] |-> events'[t][i].position]
    <3>a. DOMAIN x = 1..n /\ DOMAIN y = 1..(n + 1) /\ InOrder(x)
      BY <1>3, <2>1
    <3>b. \A i \in 1..n : x[i] = events[t][i].position
      BY <1>3
    <3>c. \A i \in 1..(n + 1) : y[i] = events'[t][i].position
      BY <1>3
    <3>d. n + 1 \in 1..(n + 1) /\ \A i \in 1..n : i \in 1..(n + 1)
      BY <1>3
    <3>1. /\ DOMAIN x = 1..n /\ DOMAIN y = 1..(n + 1) /\ InOrder(x)
          /\ \A i \in 1..n : x[i] = events[t][i].position
          /\ \A i \in 1..n : y[i] = x[i]
          /\ y[n + 1] = p
      <4> HIDE DEF x, y
      <4>1. \A i \in 1..n : events'[t][i] = events[t][i]
        BY <1>3
      <4>2. events'[t][n + 1].position = p
        BY <1>3 DEF p
      <4>3. QED
        BY <3>a, <3>b, <3>c, <3>d, <4>1, <4>2
    <3> HIDE DEF x, y
    <3>2. \A i \in 1..n : x[i][1] = y[n + 1][1] =>
             /\ x[i][2] < y[n + 1][2]
             /\ \A k \in 1..n : i < k => x[k][1] = x[i][1]
      BY <1>8, <1>9, <3>1
    <3>3. InOrder(y)
      BY <3>1, <3>2, AppendInOrder
    <3>4. QED
      BY <2>3, <3>3 DEF y
  <2>4. QED
    BY <2>2, <2>3
<1>13. QED
  BY <1>4, <1>6, <1>7, <1>10, <1>11, <1>12 DEF p

LEMMA ApplyExact == ASSUME IInv, IInv', ChainIntact, EInv, NEW t \in Team, Apply(t) PROVE EInv'
<1>1. /\ splits' = splits /\ phase = "surgery" /\ phase' = "surgery" /\ held[t] # no_position
      /\ Splice(held[t], merged_token)
      /\ UNCHANGED <<vocabulary, book, queue, best, positions, bucket, word, index>>
      /\ held' = [held EXCEPT ![t] = no_position]
  BY DEF Apply
<1>n. PICK n : n = held[t]
  OBVIOUS
<1>p. PICK p : p = n.position
  OBVIOUS
<1>e. PICK ev : ev = MergeEvent(n)
  OBVIOUS
<1> DEFINE E == PendingEvents
<1>2. t \in Threads /\ events' = [events EXCEPT ![t] = Append(@, ev)]
  BY <1>n, <1>e, ThreadAssumption DEF Apply
<1>3. InRound /\ merged_token \in Nat /\ left_token # merged_token /\ right_token # merged_token
  <2>1. InRound
    BY <1>1 DEF InRound
  <2>2. left_token \in 1..(Len(vocabulary) - 1) /\ right_token \in 1..(Len(vocabulary) - 1)
    BY <2>1 DEF IInv, PairsKnown
  <2>3. merged_token = Len(vocabulary) /\ Len(vocabulary) \in Nat
    BY InvFacts DEF merged_token
  <2>4. QED
    BY <2>1, <2>2, <2>3
<1>4. p \in Position /\ Unmerged(p) /\ n = Neighbours(p)
  <2>1. n \in Optional(Occurrence)
    BY <1>2, <1>n DEF IInv, TypeOK
  <2>2. p \in Position
    BY <1>1, <1>n, <1>p, <2>1 DEF Optional, Occurrence
  <2>3. QED
    BY <1>1, <1>2, <1>n, <1>p, <2>2 DEF IInv, HeldFresh, Unmerged
<1>5. /\ Occurs(Chain, Position, p, n.right, n.after, left_token, right_token)
      /\ EventOf(Chain, ev, p, n.right, n.after)
      /\ ev.position = p /\ ev.right = n.right /\ ev \in EventSet
  BY <1>4, <1>e, OccurrenceFacts
<1>6. SplicedTo(Chain, Chain', Position, p, n.right, n.after, merged_token)
  BY <1>1, <1>3, <1>4, <1>n, OccurrenceSpliced
<1>7. ChainOK(Chain, Position)
  BY ChainFacts
<1>8. /\ Slots(Position) /\ DOMAIN book.edge_group = Position /\ no_position \notin Position
  BY ExactFacts
<1>9. /\ \A u \in Threads : ThreadRegion(u)'
      /\ \A u \in Threads : Remaining(u)' = Remaining(u)
      /\ \A u \in Threads \ {t} : held'[u] = held[u]
      /\ Follow(E, p) /\ EventsInOrder'
  BY <1>1, <1>2, <1>5, <1>n, <1>p, ApplyRegion
<1>10. Fits(Chain, E, Position, left_token, merged_token)
  BY <1>1, PendingFit
<1>11. PendingEvents' = E \cup {ev}
  <2>1. events \in [Threads -> Seq(EventSet)]
    BY DEF IInv, TypeOK
  <2>2. QED
    BY <1>2, <1>5, <2>1, EventAppended
<1>12. left_token' = left_token /\ right_token' = right_token /\ merged_token' = merged_token
  BY <1>1, SameTokens
<1>13. Position' = Position
  BY <1>1, SameInput
<1>14. Describes(book, Chain, E, left_token, right_token)
  BY <1>1 DEF EInv, BookDescribes
<1> HIDE DEF E
<1>15. Describes(book, Chain', E \cup {ev}, left_token, right_token)
  BY <1>5, <1>6, <1>7, <1>8, <1>9, <1>10, <1>14, ApplyDescribes
<1>16. Fits(Chain', E \cup {ev}, Position, left_token, merged_token)
  BY <1>5, <1>6, <1>7, <1>8, <1>9, <1>10, ApplyFits
<1>17. n.after \notin Mergeds(E)
  BY <1>5, <1>7, <1>8, <1>9, <1>10, OccursApart
<1>18. /\ n.after \in Position /\ n.right # p
       /\ ev.after # no_position => ev.after = n.after /\ alive[n.after] /\ ev.after_token = token[n.after]
  <2>1. n.right # p
    BY <1>5, <1>7, <1>8, OccursFacts
  <2>2. QED
    BY <1>5, <2>1 DEF Occurs, EventOf, Chain
<1>19. \A q \in Position : alive[q] /\ token[q] = merged_token => q \in Mergeds(E)
  BY <1>1 DEF EInv, Region, E
<1>20. Listed' = Listed
  BY <1>1 DEF Listed, Queued
<1>21. BookExact'
  BY <1>1, <1>20, ListedFewer
<1>22. NeverAborted' /\ KeysKnown' /\ BuildExact' /\ WalkExact' /\ NewbornsInOrder' /\ PositionsInOrder'
  BY <1>1, <1>12 DEF EInv, NeverAborted, KeysKnown, BuildExact, WalkExact, NewbornsInOrder,
                    PositionsInOrder, InRound
<1>23. BookDescribes'
  BY <1>1, <1>11, <1>12, <1>15 DEF BookDescribes
<1>24. EventsFit'
  <2>1. \A e \in E : e.after # no_position => e.after_token # merged_token
    BY <1>1 DEF EInv, EventsFit, E
  <2>2. ev.after # no_position => ev.after_token # merged_token
    BY <1>17, <1>18, <1>19
  <2>3. /\ EventsApart(E \cup {ev})
        /\ \A e \in E \cup {ev} : EventFits(Chain', E \cup {ev}, left_token, merged_token, e)
    BY <1>16 DEF Fits
  <2>4. QED
    BY <1>11, <1>12, <2>1, <2>2, <2>3 DEF EventsFit
<1>25. Region'
  <2> SUFFICES ASSUME NEW q \in Position, alive'[q], token'[q] = merged_token
               PROVE  q \in Mergeds(E \cup {ev})
    BY <1>9, <1>11, <1>12, <1>13 DEF Region
  <2>1. CASE q = p
    BY <1>5, <2>1 DEF Mergeds
  <2>2. CASE q # p
    <3>1. alive[q] /\ token[q] = merged_token
      BY <1>6, <2>2 DEF SplicedTo, Chain
    <3>2. QED
      BY <1>19, <3>1 DEF Mergeds
  <2>3. QED
    BY <2>1, <2>2
<1>26. Idle'
  BY <1>1 DEF EInv, Idle
<1>27. AllCovered'
  <2> SUFFICES ASSUME Team = Threads, NEW q \in Position, Unmerged(q)'
               PROVE  \E u \in Threads : Covered(u, q)'
    BY <1>1, <1>13 DEF AllCovered, Covered
  <2>1. Unmerged(q) /\ q # p
    BY <1>3, <1>6, <1>7, <1>8, <1>12, <1>18, UnmergedFewer
  <2>2. PICK u \in Threads : Covered(u, q)
    BY <1>1, <2>1 DEF EInv, AllCovered, Covered
  <2>3. CASE u # t
    BY <1>1, <1>9, <2>2, <2>3, OtherCovered
  <2>4. CASE u = t
    <3>1. \E k \in DOMAIN positions : positions[k] = q /\ (q[1] \in bucket[t] \/ k \in Remaining(t))
      BY <1>n, <1>p, <2>1, <2>2, <2>4 DEF Covered
    <3>2. Covered(t, q)'
      BY <1>1, <1>2, <1>9, <3>1 DEF Covered
    <3>3. QED
      BY <1>2, <3>2
  <2>5. QED
    BY <2>3, <2>4
<1>28. QueueComplete' /\ BestApart'
  BY <1>1 DEF EInv, QueueComplete, BestApart, Eligible, Queued
<1>29. QED
  BY <1>9, <1>21, <1>22, <1>23, <1>24, <1>25, <1>26, <1>27, <1>28 DEF EInv
=============================================================================
