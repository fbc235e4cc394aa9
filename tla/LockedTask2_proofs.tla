------------------------ MODULE LockedTask2_proofs -------------------------
(***************************************************************************)
(* parallel_task2_v2 keeps its registry exact in the middle of a round,    *)
(* for every corpus, every number of threads and every interleaving of     *)
(* their critical sections.                                                *)
(*                                                                         *)
(* The invariant (LInv) names the set of occurrences that the registry has *)
(* to hold at a moment: those of the chain that build_state has passed and *)
(* no thread has taken out (Registered).  A book describes such a set      *)
(* (Describes); remove_edge_v2 and add_edge_v2 take one member out of it   *)
(* or put one into it (RemoveOne, AddOne); and a surgery, which changes    *)
(* the chain without touching the book, changes no occurrence in the set,  *)
(* because the threads work in words of their own and what they hold is    *)
(* fresh (FreshKept).                                                      *)
(***************************************************************************)
EXTENDS LockedTask2, CountingLemmas

-----------------------------------------------------------------------------
(* Positions.                                                              *)

Position == Loop!Position

LEMMA PositionsTyped ==
    ASSUME splits \in Corpora
    PROVE  /\ splits \in Seq([chars : Seq(1..byte_max), count : Nat])
           /\ DOMAIN splits = 1..Len(splits) /\ Len(splits) \in Nat
           /\ \A w \in DOMAIN splits : Len(splits[w].chars) \in Nat /\ splits[w].count \in Nat
           /\ \A p \in Position : /\ p = <<p[1], p[2]>>
                                  /\ p[1] \in DOMAIN splits
                                  /\ p[2] \in 1..(Len(splits[p[1]].chars) + 1)
           /\ \A w, i : <<w, i>> \in Position <=> /\ w \in DOMAIN splits
                                                  /\ i \in 1..(Len(splits[w].chars) + 1)
           /\ no_position \notin Position
<1>1. splits \in Seq([chars : Seq(1..byte_max), count : Nat])
  BY CorpusAssumption
<1>2. DOMAIN splits = 1..Len(splits) /\ Len(splits) \in Nat
  BY <1>1
<1>3. \A w \in DOMAIN splits : Len(splits[w].chars) \in Nat /\ splits[w].count \in Nat
  <2> TAKE w \in DOMAIN splits
  <2>1. splits[w] \in [chars : Seq(1..byte_max), count : Nat]
    <3> DEFINE S == [chars : Seq(1..byte_max), count : Nat]
    <3>1. splits \in Seq(S)
      BY <1>1
    <3> HIDE DEF S
    <3>2. splits[w] \in S
      BY <3>1
    <3>3. QED
      BY <3>2 DEF S
  <2>2. splits[w].chars \in Seq(1..byte_max) /\ splits[w].count \in Nat
    BY <2>1
  <2>3. QED
    BY <2>2
<1>4. \A p \in Position : \E w \in DOMAIN splits : \E i \in 1..(Len(splits[w].chars) + 1) : p = <<w, i>>
  BY DEF Position, Loop!Position
<1>5. \A w \in DOMAIN splits : \A i \in 1..(Len(splits[w].chars) + 1) : <<w, i>> \in Position
  BY DEF Position, Loop!Position
<1>6. \A p \in Position : /\ p = <<p[1], p[2]>>
                          /\ p[1] \in DOMAIN splits
                          /\ p[2] \in 1..(Len(splits[p[1]].chars) + 1)
  BY <1>4
<1>7. \A w, i : <<w, i>> \in Position <=> /\ w \in DOMAIN splits
                                          /\ i \in 1..(Len(splits[w].chars) + 1)
  BY <1>5, <1>6
<1>8. Position \subseteq Nat \X Nat
  BY <1>2, <1>3, <1>6
<1>9. QED
  BY <1>1, <1>2, <1>3, <1>6, <1>7, <1>8, NoPositionAssumption

LEMMA PositionsFinite ==
    ASSUME splits \in Corpora
    PROVE  IsFiniteSet(Position) /\ IsFiniteSet(DOMAIN splits)
<1> DEFINE W       == DOMAIN splits
           slots   == [w \in W |-> {w} \X (1..(Len(splits[w].chars) + 1))]
           columns == {{w} \X (1..(Len(splits[w].chars) + 1)) : w \in W}
<1>1. W = 1..Len(splits) /\ Len(splits) \in Nat /\ \A w \in W : Len(splits[w].chars) \in Nat
  BY PositionsTyped
<1>2. IsFiniteSet(W)
  BY <1>1, FS_Interval
<1>3. slots \in Surjection(W, columns)
  BY DEF Surjection
<1>4. IsFiniteSet(columns)
  BY <1>2, <1>3, FS_Surjection
<1>5. ASSUME NEW w \in W
      PROVE  IsFiniteSet({w} \X (1..(Len(splits[w].chars) + 1)))
  <2>1. Len(splits[w].chars) + 1 \in Int
    BY <1>1
  <2>2. IsFiniteSet(1..(Len(splits[w].chars) + 1))
    BY <2>1, FS_Interval
  <2>3. IsFiniteSet({w})
    BY FS_Singleton
  <2>4. QED
    BY <2>2, <2>3, FS_Product
<1>6. \A T \in columns : IsFiniteSet(T)
  BY <1>5
<1>7. Position = UNION columns
  BY DEF Position, Loop!Position
<1> HIDE DEF columns
<1>8. QED
  BY <1>2, <1>4, <1>6, <1>7, FS_UNION

-----------------------------------------------------------------------------
(* The totals of a pair are those of its words.                            *)

Numbers == [DOMAIN splits -> Nat]

\* Noted, by the numbers of occurrences alone.
NotedBy(edges) == UNION {{w} \X (1..edges[w]) : w \in DOMAIN splits}

WordsWith(edges) == {w \in DOMAIN splits : edges[w] > 0}

Total(edges) == Cardinality(Loop!Occurrences(NotedBy(edges)))

LEMMA NotedMembers ==
    ASSUME NEW edges
    PROVE  /\ \A p \in NotedBy(edges) : \E w \in DOMAIN splits : \E i \in 1..edges[w] : p = <<w, i>>
           /\ \A w \in DOMAIN splits : \A i \in 1..edges[w] : <<w, i>> \in NotedBy(edges)
BY DEF NotedBy

\* What an occurrence weighs.
Weights == [p \in (DOMAIN splits) \X Nat |-> splits[p[1]].count]

LEMMA TotalIsWeight ==
    ASSUME splits \in Corpora, NEW edges \in Numbers
    PROVE  /\ Weights \in [(DOMAIN splits) \X Nat -> Nat]
           /\ NotedBy(edges) \in SUBSET ((DOMAIN splits) \X Nat)
           /\ IsFiniteSet(NotedBy(edges))
           /\ Total(edges) = Weight(NotedBy(edges), Weights)
<1>1. \A w \in DOMAIN splits : splits[w].count \in Nat
  BY PositionsTyped
<1>2. Weights \in [(DOMAIN splits) \X Nat -> Nat]
  <2>1. \A p \in (DOMAIN splits) \X Nat : p[1] \in DOMAIN splits
    OBVIOUS
  <2>2. QED
    BY <1>1, <2>1 DEF Weights
<1>3. NotedBy(edges) \in SUBSET ((DOMAIN splits) \X Nat)
  <2>1. \A w \in DOMAIN splits : \A i \in 1..edges[w] : <<w, i>> \in (DOMAIN splits) \X Nat
    BY DEF Numbers
  <2>2. QED
    BY <2>1, NotedMembers
<1>4. IsFiniteSet(NotedBy(edges))
  <2> DEFINE W       == DOMAIN splits
             slots   == [w \in W |-> {w} \X (1..edges[w])]
             columns == {{w} \X (1..edges[w]) : w \in W}
  <2>1. slots \in Surjection(W, columns)
    BY DEF Surjection
  <2>2. IsFiniteSet(columns)
    BY <2>1, PositionsFinite, FS_Surjection
  <2>3. ASSUME NEW w \in W PROVE IsFiniteSet({w} \X (1..edges[w]))
    <3>1. edges[w] \in Int
      BY DEF Numbers
    <3>2. IsFiniteSet(1..edges[w])
      BY <3>1, FS_Interval
    <3>3. IsFiniteSet({w})
      BY FS_Singleton
    <3>4. QED
      BY <3>2, <3>3, FS_Product
  <2>4. \A T \in columns : IsFiniteSet(T)
    BY <2>3
  <2>5. NotedBy(edges) = UNION columns
    BY DEF NotedBy
  <2> HIDE DEF columns
  <2>6. QED
    BY <2>2, <2>4, <2>5, FS_UNION
<1>5. Total(edges) = Weight(NotedBy(edges), Weights)
  <2>1. \A p \in NotedBy(edges) : Loop!Frequency(p) = Weights[p]
    BY <1>3 DEF Loop!Frequency, Weights
  <2> DEFINE S == NotedBy(edges)
  <2> HIDE DEF S
  <2>2. {{p} \X (1..Loop!Frequency(p)) : p \in S} = {{p} \X (1..Weights[p]) : p \in S}
    BY <2>1 DEF S
  <2>3. Loop!Occurrences(S) = Weighted(S, Weights)
    BY <2>2 DEF Loop!Occurrences, Weighted
  <2>4. QED
    BY <2>3 DEF Total, Weight, S
<1>6. QED
  BY <1>2, <1>3, <1>4, <1>5

\* One more occurrence in word w.
LEMMA OneMore ==
    ASSUME splits \in Corpora, NEW edges \in Numbers, NEW w \in DOMAIN splits,
           NEW more, more = [edges EXCEPT ![w] = @ + 1]
    PROVE  /\ more \in Numbers
           /\ Total(edges) \in Nat /\ Total(more) = Total(edges) + splits[w].count
           /\ Cardinality(WordsWith(edges)) \in Nat
           /\ Cardinality(WordsWith(more))
                = IF edges[w] = 0 THEN Cardinality(WordsWith(edges)) + 1
                  ELSE Cardinality(WordsWith(edges))
<1>1. /\ DOMAIN edges = DOMAIN splits /\ edges[w] \in Nat
      /\ \A v \in DOMAIN splits : edges[v] \in Nat /\ more[v] = IF v = w THEN edges[w] + 1 ELSE edges[v]
  BY DEF Numbers
<1>2. more \in Numbers
  BY <1>1 DEF Numbers
<1> DEFINE p == <<w, edges[w] + 1>>
<1>3. NotedBy(more) = NotedBy(edges) \cup {p}
  <2>1. ASSUME NEW q \in NotedBy(more) PROVE q \in NotedBy(edges) \cup {p}
    <3>1. PICK v \in DOMAIN splits : \E i \in 1..more[v] : q = <<v, i>>
      <4>1. \A r \in NotedBy(more) : \E v \in DOMAIN splits : \E i \in 1..more[v] : r = <<v, i>>
        BY ONLY NotedMembers
      <4>2. QED
        BY <2>1, <4>1
    <3>2. PICK i \in 1..more[v] : q = <<v, i>>
      BY <3>1
    <3>3. i \in 1..edges[v] \/ (v = w /\ i = edges[w] + 1)
      BY <1>1, <3>2
    <3>4. QED
      BY <3>2, <3>3, NotedMembers
  <2>2. ASSUME NEW q \in NotedBy(edges) PROVE q \in NotedBy(more)
    <3>1. PICK v \in DOMAIN splits : \E i \in 1..edges[v] : q = <<v, i>>
      BY <2>2, NotedMembers
    <3>2. PICK i \in 1..edges[v] : q = <<v, i>>
      BY <3>1
    <3>3. i \in 1..more[v]
      BY <1>1, <3>2
    <3>4. QED
      BY <3>2, <3>3, NotedMembers
  <2>3. p \in NotedBy(more)
    <3>1. edges[w] + 1 \in 1..more[w]
      BY <1>1
    <3>2. QED
      BY <3>1, NotedMembers
  <2>4. QED
    BY <2>1, <2>2, <2>3
<1>4. p \notin NotedBy(edges)
  <2> SUFFICES ASSUME p \in NotedBy(edges) PROVE FALSE
    OBVIOUS
  <2>1. PICK v \in DOMAIN splits : \E i \in 1..edges[v] : p = <<v, i>>
    BY NotedMembers
  <2>2. PICK i \in 1..edges[v] : p = <<v, i>>
    BY <2>1
  <2>3. QED
    BY <1>1, <2>2
<1>5. p \in (DOMAIN splits) \X Nat /\ Weights[p] = splits[w].count
  BY <1>1 DEF Weights
<1> HIDE DEF p
<1>6. Total(edges) \in Nat /\ Total(more) = Total(edges) + splits[w].count
  <2> DEFINE P == (DOMAIN splits) \X Nat
  <2>1. /\ Weights \in [P -> Nat] /\ NotedBy(edges) \in SUBSET P /\ IsFiniteSet(NotedBy(edges))
        /\ Total(edges) = Weight(NotedBy(edges), Weights)
        /\ Total(more) = Weight(NotedBy(more), Weights)
    BY <1>2, TotalIsWeight
  <2>2. p \in P
    BY <1>5
  <2> HIDE DEF P
  <2>3. Weight(NotedBy(edges), Weights) \in Nat
    BY <2>1, WeightedFinite
  <2>4. Weight(NotedBy(edges) \cup {p}, Weights) = Weight(NotedBy(edges), Weights) + Weights[p]
    BY <1>4, <2>1, <2>2, WeightAdd
  <2>5. QED
    BY <1>3, <1>5, <2>1, <2>3, <2>4
<1>7. IsFiniteSet(WordsWith(edges)) /\ Cardinality(WordsWith(edges)) \in Nat
  <2>1. WordsWith(edges) \subseteq DOMAIN splits
    BY DEF WordsWith
  <2>2. QED
    BY <2>1, PositionsFinite, FS_Subset, FS_CardinalityType
<1>8. CASE edges[w] = 0
  <2>1. WordsWith(more) = WordsWith(edges) \cup {w} /\ w \notin WordsWith(edges)
    BY <1>1, <1>8 DEF WordsWith
  <2>2. Cardinality(WordsWith(edges) \cup {w}) = Cardinality(WordsWith(edges)) + 1
    BY <1>7, <2>1, FS_AddElement
  <2>3. QED
    BY <1>2, <1>6, <1>7, <1>8, <2>1, <2>2
<1>9. CASE edges[w] # 0
  <2>1. WordsWith(more) = WordsWith(edges)
    BY <1>1, <1>9 DEF WordsWith
  <2>2. QED
    BY <1>2, <1>6, <1>7, <1>9, <2>1
<1>10. QED
  BY <1>8, <1>9

\* One occurrence fewer.
LEMMA OneFewer ==
    ASSUME splits \in Corpora, NEW edges \in Numbers, NEW w \in DOMAIN splits, edges[w] # 0,
           NEW less, less = [edges EXCEPT ![w] = @ - 1]
    PROVE  /\ less \in Numbers
           /\ Total(edges) >= splits[w].count /\ Total(edges) \in Nat
           /\ Total(less) \in Nat /\ Total(less) = Total(edges) - splits[w].count
           /\ Cardinality(WordsWith(edges)) \in Nat \ {0}
           /\ Cardinality(WordsWith(less))
                = IF edges[w] = 1 THEN Cardinality(WordsWith(edges)) - 1
                  ELSE Cardinality(WordsWith(edges))
<1>1. /\ DOMAIN edges = DOMAIN splits /\ edges[w] \in Nat \ {0}
      /\ splits[w].count \in Nat
      /\ \A v \in DOMAIN splits : edges[v] \in Nat /\ less[v] = IF v = w THEN edges[w] - 1 ELSE edges[v]
  BY PositionsTyped DEF Numbers
<1>2. less \in Numbers
  BY <1>1 DEF Numbers
<1>3. edges = [less EXCEPT ![w] = @ + 1]
  <2>1. \A v \in DOMAIN splits : edges[v] = [less EXCEPT ![w] = @ + 1][v]
    BY <1>1, <1>2 DEF Numbers
  <2>2. QED
    BY <1>2, <2>1 DEF Numbers
<1>4. /\ Total(less) \in Nat /\ Total(edges) = Total(less) + splits[w].count
      /\ Cardinality(WordsWith(less)) \in Nat
      /\ Cardinality(WordsWith(edges))
           = IF less[w] = 0 THEN Cardinality(WordsWith(less)) + 1 ELSE Cardinality(WordsWith(less))
  <2>1. less \in Numbers /\ w \in DOMAIN splits /\ splits \in Corpora
    BY <1>2
  <2>2. QED
    BY ONLY <1>3, <2>1, OneMore
<1>5. less[w] = edges[w] - 1
  BY <1>1
<1>6. Cardinality(WordsWith(edges)) # 0
  <2>1. w \in WordsWith(edges)
    BY <1>1 DEF WordsWith
  <2>2. WordsWith(edges) \subseteq DOMAIN splits
    BY DEF WordsWith
  <2>3. IsFiniteSet(WordsWith(edges))
    BY <2>2, PositionsFinite, FS_Subset
  <2>4. QED
    BY <2>1, <2>3, FS_EmptySet
<1>7. QED
  BY <1>1, <1>2, <1>4, <1>5, <1>6

LEMMA NoneNoted ==
    ASSUME splits \in Corpora, NEW edges, edges = [w \in DOMAIN splits |-> 0]
    PROVE  edges \in Numbers /\ Total(edges) = 0 /\ Cardinality(WordsWith(edges)) = 0
<1>1. edges \in Numbers
  BY DEF Numbers
<1>2. NotedBy(edges) = {}
  <2> SUFFICES ASSUME NEW p \in NotedBy(edges) PROVE FALSE
    OBVIOUS
  <2>1. PICK w \in DOMAIN splits : \E i \in 1..edges[w] : p = <<w, i>>
    BY NotedMembers
  <2>2. 1..edges[w] = {}
    OBVIOUS
  <2>3. QED
    BY <2>1, <2>2
<1>3. WordsWith(edges) = {}
  BY DEF WordsWith
<1>4. Total(edges) = 0
  <2>1. Total(edges) = Weight(NotedBy(edges), Weights)
    BY <1>1, TotalIsWeight
  <2>2. QED
    BY <1>2, <2>1, WeightEmpty
<1>5. QED
  BY <1>1, <1>3, <1>4, FS_EmptySet

-----------------------------------------------------------------------------
(* The registry describes a set R of occurrences, by their first slots, of *)
(* which K gives the pairs.                                                *)

PairSet ==
    [key : Nat \X Nat, count : Nat, word_count : Nat, positions : Seq(Position),
     word_edges : Numbers]

KeysIn(pairs, V) == \A s \in DOMAIN pairs : pairs[s].key \in (1..V) \X (1..V)

BookTyped(b, V) ==
    /\ b \in [pairs : Seq(PairSet), born : Seq(Nat), aborted : BOOLEAN]
    /\ ~b.aborted
    /\ KeysIn(b.pairs, V)

TotalsRight(pair) ==
    /\ pair.count = Total(pair.word_edges)
    /\ pair.word_count = Cardinality(WordsWith(pair.word_edges))

InWord(R, K, w, key) == {p \in R : p[1] = w /\ K[p] = key}

Describes(b, R, K) ==
    /\ \A p \in R : \E s \in DOMAIN b.pairs : b.pairs[s].key = K[p]
    /\ \A s, r \in DOMAIN b.pairs : b.pairs[s].key = b.pairs[r].key => s = r
    /\ \A s \in DOMAIN b.pairs :
          /\ TotalsRight(b.pairs[s])
          /\ \A w \in DOMAIN splits :
                b.pairs[s].word_edges[w] = Cardinality(InWord(R, K, w, b.pairs[s].key))

\* No pair goes or changes its number.
Continues(b, c) ==
    \A s \in DOMAIN b.pairs : s \in DOMAIN c.pairs /\ c.pairs[s].key = b.pairs[s].key

LEMMA BookShape ==
    ASSUME NEW V, NEW b, BookTyped(b, V)
    PROVE  /\ b.pairs \in Seq(PairSet) /\ Len(b.pairs) \in Nat
           /\ DOMAIN b.pairs = 1..Len(b.pairs)
           /\ b.born \in Seq(Nat) /\ b.aborted = FALSE
           /\ \A s \in DOMAIN b.pairs : b.pairs[s] \in PairSet
<1> DEFINE S == Seq(PairSet)
           B == Seq(Nat)
<1>1. b \in [pairs : S, born : B, aborted : BOOLEAN] /\ ~b.aborted
  BY DEF BookTyped
<1> HIDE DEF S, B
<1>2. b.pairs \in S /\ b.born \in B /\ b.aborted = FALSE
  BY <1>1
<1>3. b.pairs \in Seq(PairSet) /\ b.born \in Seq(Nat)
  BY <1>2 DEF S, B
<1>4. QED
  BY <1>2, <1>3

PutPair(b, s, pair) == [b EXCEPT !.pairs[s] = pair]

Replaced(b, pairs, born) == [b EXCEPT !.pairs = pairs, !.born = born]

LEMMA BookReplaced ==
    ASSUME NEW V, NEW b, BookTyped(b, V),
           NEW pairs \in Seq(PairSet), NEW born \in Seq(Nat), NEW W,
           KeysIn(pairs, W),
           NEW d, d = Replaced(b, pairs, born)
    PROVE  BookTyped(d, W) /\ d.pairs = pairs /\ d.born = born
<1> DEFINE S == Seq(PairSet)
           B == Seq(Nat)
<1>1. b \in [pairs : S, born : B, aborted : BOOLEAN] /\ ~b.aborted /\ pairs \in S /\ born \in B
  BY DEF BookTyped
<1> HIDE DEF S, B
<1>2. /\ d \in [pairs : S, born : B, aborted : BOOLEAN] /\ ~d.aborted
      /\ d.pairs = pairs /\ d.born = born
  BY <1>1 DEF Replaced
<1>3. QED
  BY <1>2 DEF BookTyped, S, B

FieldsWith(pair, w, p, f, more) ==
    [key |-> pair.key, count |-> pair.count + f,
     word_count |-> IF pair.word_edges[w] = 0 THEN pair.word_count + 1 ELSE pair.word_count,
     positions |-> Append(pair.positions, p), word_edges |-> more]

LEMMA WithFields ==
    ASSUME NEW pair \in PairSet, NEW w, NEW p, NEW f,
           NEW more, more = [pair.word_edges EXCEPT ![w] = @ + 1]
    PROVE  WithEdge(pair, w, p, f) = FieldsWith(pair, w, p, f, more)
<1> DEFINE Q == Seq(Position)
           list == Append(pair.positions, p)
           n == WithEdge(pair, w, p, f)
           z == IF pair.word_edges[w] = 0 THEN pair.word_count + 1 ELSE pair.word_count
<1>1. n = [pair EXCEPT !.word_count = z, !.word_edges = more, !.count = pair.count + f,
                       !.positions = list]
  BY DEF WithEdge
<1>2. pair \in [key : Nat \X Nat, count : Nat, word_count : Nat, positions : Q,
                word_edges : Numbers]
  BY DEF PairSet
<1> HIDE DEF n, z, Q, list
<1>3. n = [key |-> pair.key, count |-> pair.count + f, word_count |-> z, positions |-> list,
           word_edges |-> more]
  BY <1>1, <1>2
<1>4. QED
  BY <1>3 DEF n, z, list, FieldsWith

LEMMA WithoutFields ==
    ASSUME NEW pair \in PairSet, NEW w, NEW f,
           NEW less, less = [pair.word_edges EXCEPT ![w] = @ - 1]
    PROVE  WithoutEdge(pair, w, f) =
             [key |-> pair.key, count |-> pair.count - f,
              word_count |-> IF pair.word_edges[w] = 1 THEN pair.word_count - 1 ELSE pair.word_count,
              positions |-> pair.positions, word_edges |-> less]
<1> DEFINE Q == Seq(Position)
           n == WithoutEdge(pair, w, f)
           z == IF pair.word_edges[w] = 1 THEN pair.word_count - 1 ELSE pair.word_count
<1>1. n = [pair EXCEPT !.count = pair.count - f, !.word_edges = less, !.word_count = z]
  BY DEF WithoutEdge
<1>2. pair \in [key : Nat \X Nat, count : Nat, word_count : Nat, positions : Q,
                word_edges : Numbers]
  BY DEF PairSet
<1> HIDE DEF n, z, Q
<1>3. n = [key |-> pair.key, count |-> pair.count - f, word_count |-> z,
           positions |-> pair.positions, word_edges |-> less]
  BY <1>1, <1>2
<1>4. QED
  BY <1>3 DEF n, z

LEMMA PairFields ==
    ASSUME NEW pair \in PairSet
    PROVE  /\ pair.key \in Nat \X Nat /\ pair.count \in Nat /\ pair.word_count \in Nat
           /\ pair.positions \in Seq(Position) /\ pair.word_edges \in Numbers
<1> DEFINE Q == Seq(Position)
<1>1. pair \in [key : Nat \X Nat, count : Nat, word_count : Nat, positions : Q,
                word_edges : Numbers]
  BY DEF PairSet
<1> HIDE DEF Q
<1>2. /\ pair.key \in Nat \X Nat /\ pair.count \in Nat /\ pair.word_count \in Nat
      /\ pair.positions \in Q /\ pair.word_edges \in Numbers
  BY <1>1
<1>3. QED
  BY <1>2 DEF Q

LEMMA PairOf ==
    ASSUME NEW key \in Nat \X Nat, NEW count \in Nat, NEW word_count \in Nat,
           NEW list \in Seq(Position), NEW edges \in Numbers,
           NEW pair, pair = [key |-> key, count |-> count, word_count |-> word_count,
                             positions |-> list, word_edges |-> edges]
    PROVE  /\ pair \in PairSet
           /\ pair.key = key /\ pair.count = count /\ pair.word_count = word_count
           /\ pair.positions = list /\ pair.word_edges = edges
<1> DEFINE Q == Seq(Position)
<1>1. list \in Q
  OBVIOUS
<1> HIDE DEF Q
<1>2. pair \in [key : Nat \X Nat, count : Nat, word_count : Nat, positions : Q,
                word_edges : Numbers]
  BY <1>1
<1>3. QED
  BY <1>2 DEF PairSet, Q

LEMMA FiniteIn ==
    ASSUME splits \in Corpora, NEW R \in SUBSET Position, NEW K, NEW w, NEW key
    PROVE  IsFiniteSet(InWord(R, K, w, key)) /\ Cardinality(InWord(R, K, w, key)) \in Nat
<1>1. InWord(R, K, w, key) \subseteq Position
  BY DEF InWord
<1>2. QED
  BY <1>1, PositionsFinite, FS_Subset, FS_CardinalityType

\* get_pair.
LEMMA GetPair ==
    ASSUME splits \in Corpora, NEW V \in Nat, NEW b, BookTyped(b, V),
           NEW R \in SUBSET Position, NEW K, Describes(b, R, K),
           NEW key \in (1..V) \X (1..V),
           NEW c, c = get_pair(b, key)
    PROVE  /\ BookTyped(c, V) /\ Describes(c, R, K) /\ Continues(b, c)
           /\ IdOf(c, key) \in DOMAIN c.pairs /\ c.pairs[IdOf(c, key)].key = key
<1>1. /\ b.pairs \in Seq(PairSet) /\ Len(b.pairs) \in Nat
      /\ DOMAIN b.pairs = 1..Len(b.pairs)
      /\ b.born \in Seq(Nat) /\ b.aborted = FALSE
      /\ \A s \in DOMAIN b.pairs : b.pairs[s] \in PairSet
  BY BookShape
<1>2. ASSUME IdsOf(c, key) # {}
      PROVE  IdOf(c, key) \in DOMAIN c.pairs /\ c.pairs[IdOf(c, key)].key = key
  <2>1. IdOf(c, key) \in IdsOf(c, key)
    BY <1>2 DEF IdOf
  <2>2. QED
    BY <2>1 DEF IdsOf
<1>3. CASE IdsOf(b, key) # {}
  <2>1. c = b
    BY <1>3 DEF get_pair
  <2>2. Continues(b, c)
    BY <2>1 DEF Continues
  <2>3. QED
    BY <1>2, <1>3, <2>1, <2>2
<1>4. CASE IdsOf(b, key) = {}
  <2> DEFINE new == [key |-> key, count |-> 0, word_count |-> 0, positions |-> << >>,
                     word_edges |-> [w \in DOMAIN splits |-> 0]]
             n   == Len(b.pairs) + 1
  <2>1. c = [b EXCEPT !.pairs = Append(b.pairs, new), !.born = Append(b.born, n)]
    BY <1>4 DEF get_pair
  <2>2. new \in PairSet /\ TotalsRight(new)
    <3>1. [w \in DOMAIN splits |-> 0] \in Numbers
      BY DEF Numbers
    <3>2. key \in Nat \X Nat
      BY <1>1
    <3>3. << >> \in Seq(Position)
      OBVIOUS
    <3>4. new \in PairSet
      BY <3>1, <3>2, <3>3 DEF PairSet
    <3>5. new.count = 0 /\ new.word_count = 0 /\ new.word_edges = [w \in DOMAIN splits |-> 0]
      OBVIOUS
    <3> DEFINE none == [w \in DOMAIN splits |-> 0]
    <3>6. Total(none) = 0 /\ Cardinality(WordsWith(none)) = 0
      BY NoneNoted
    <3> HIDE DEF none
    <3>7. TotalsRight(new)
      <4>1. new.word_edges = none
        BY DEF none
      <4> HIDE DEF new
      <4>2. QED
        BY <3>5, <3>6, <4>1 DEF TotalsRight
    <3>8. QED
      BY <3>4, <3>7
  <2>3. new.key = key /\ \A w \in DOMAIN splits : new.word_edges[w] = 0
    OBVIOUS
  <2> HIDE DEF new
  <2> DEFINE more == Append(b.pairs, new)
             born == Append(b.born, n)
  <2>4. /\ more \in Seq(PairSet) /\ DOMAIN more = 1..n /\ n \in Nat
        /\ more[n] = new
        /\ \A s \in DOMAIN b.pairs : s \in DOMAIN more /\ s # n /\ more[s] = b.pairs[s]
        /\ \A s \in DOMAIN more : s \in DOMAIN b.pairs \/ s = n
        /\ born \in Seq(Nat)
    BY <1>1, <2>2
  <2>5. \A s \in DOMAIN b.pairs : b.pairs[s].key # key
    BY <1>4 DEF IdsOf
  <2>6. BookTyped(c, V) /\ c.pairs = more
    <3>1. KeysIn(more, V)
      BY <2>3, <2>4 DEF BookTyped, KeysIn
    <3>2. c = Replaced(b, more, born)
      BY <2>1 DEF Replaced
    <3> HIDE DEF more, born
    <3>3. BookTyped(b, V) /\ more \in Seq(PairSet) /\ born \in Seq(Nat)
      BY <2>4
    <3>4. QED
      BY ONLY <3>1, <3>2, <3>3, BookReplaced
  <2> HIDE DEF more, born
  <2>7. Continues(b, c)
    BY <2>4, <2>6 DEF Continues
  <2>8. Describes(c, R, K)
    <3>1. \A p \in R : \E s \in DOMAIN c.pairs : c.pairs[s].key = K[p]
      <4> TAKE p \in R
      <4>1. PICK s \in DOMAIN b.pairs : b.pairs[s].key = K[p]
        BY DEF Describes
      <4>2. s \in DOMAIN c.pairs /\ c.pairs[s].key = K[p]
        BY <2>4, <2>6, <4>1
      <4>3. QED
        BY <4>2
    <3>2. \A s, r \in DOMAIN c.pairs : c.pairs[s].key = c.pairs[r].key => s = r
      <4> TAKE s, r \in DOMAIN c.pairs
      <4> HAVE c.pairs[s].key = c.pairs[r].key
      <4>1. /\ s \in DOMAIN b.pairs \/ s = n
            /\ r \in DOMAIN b.pairs \/ r = n
            /\ c.pairs[n].key = key
            /\ \A q \in DOMAIN b.pairs : c.pairs[q].key = b.pairs[q].key
        BY <2>3, <2>4, <2>6
      <4> HIDE DEF n
      <4>2. \A q \in DOMAIN b.pairs : c.pairs[q].key # key
        BY <2>5, <4>1
      <4>3. CASE s \in DOMAIN b.pairs /\ r \in DOMAIN b.pairs
        <5>1. b.pairs[s].key = b.pairs[r].key
          BY <4>1, <4>3
        <5>2. QED
          BY <4>3, <5>1 DEF Describes
      <4>4. CASE s = n \/ r = n
        BY <4>1, <4>2, <4>4
      <4>5. QED
        BY <4>1, <4>3, <4>4
    <3>3. ASSUME NEW w \in DOMAIN splits PROVE Cardinality(InWord(R, K, w, key)) = 0
      <4>1. InWord(R, K, w, key) = {}
        BY <2>5 DEF Describes, InWord
      <4>2. QED
        BY <4>1, FS_EmptySet
    <3>4. \A s \in DOMAIN c.pairs :
             /\ TotalsRight(c.pairs[s])
             /\ \A w \in DOMAIN splits :
                   c.pairs[s].word_edges[w] = Cardinality(InWord(R, K, w, c.pairs[s].key))
      <4> TAKE s \in DOMAIN c.pairs
      <4>1. CASE s \in DOMAIN b.pairs
        BY <2>4, <2>6, <4>1 DEF Describes
      <4>2. CASE s = n
        BY <2>2, <2>3, <2>4, <2>6, <3>3, <4>2
      <4>3. QED
        BY <2>4, <2>6, <4>1, <4>2
    <3>5. QED
      BY <3>1, <3>2, <3>4 DEF Describes
  <2>9. IdsOf(c, key) # {}
    <3>1. n \in DOMAIN c.pairs /\ c.pairs[n].key = key
      BY <2>3, <2>4, <2>6
    <3>2. QED
      BY <3>1 DEF IdsOf
  <2>10. QED
    BY <1>2, <2>6, <2>7, <2>8, <2>9
<1>5. QED
  BY <1>3, <1>4

\* A pair gains or loses the occurrence at p.
LEMMA ReplacePair ==
    ASSUME splits \in Corpora, NEW V \in Nat, NEW c, BookTyped(c, V),
           NEW R \in SUBSET Position, NEW K, Describes(c, R, K),
           NEW s \in DOMAIN c.pairs, NEW new \in PairSet, new.key = c.pairs[s].key,
           TotalsRight(new),
           NEW p \in Position, K[p] = new.key,
           NEW R2 \in SUBSET Position, \A q \in Position : q # p => (q \in R2 <=> q \in R),
           \A v \in DOMAIN splits : v # p[1] => new.word_edges[v] = c.pairs[s].word_edges[v],
           new.word_edges[p[1]] = Cardinality(InWord(R2, K, p[1], new.key)),
           NEW d, d = PutPair(c, s, new)
    PROVE  BookTyped(d, V) /\ Describes(d, R2, K) /\ Continues(c, d)
<1> DEFINE pairs == [c.pairs EXCEPT ![s] = new]
<1>1. c.pairs \in Seq(PairSet) /\ c.born \in Seq(Nat)
  BY BookShape
<1>2. d = Replaced(c, pairs, c.born)
  <2>1. d = [c EXCEPT !.pairs = pairs]
    BY DEF PutPair
  <2> DEFINE S == Seq(PairSet)
             B == Seq(Nat)
  <2>2. c \in [pairs : S, born : B, aborted : BOOLEAN]
    BY DEF BookTyped
  <2> HIDE DEF S, B, pairs
  <2>3. QED
    BY <2>1, <2>2 DEF Replaced
<1>3. /\ pairs \in Seq(PairSet) /\ DOMAIN pairs = DOMAIN c.pairs
      /\ pairs[s] = new /\ \A r \in DOMAIN c.pairs : r # s => pairs[r] = c.pairs[r]
  BY <1>1
<1> HIDE DEF pairs
<1>5. \A r \in DOMAIN pairs : pairs[r].key = c.pairs[r].key
  BY <1>3
<1>6. BookTyped(d, V) /\ d.pairs = pairs
  <2>1. KeysIn(pairs, V)
    BY <1>3, <1>5 DEF BookTyped, KeysIn
  <2>2. BookTyped(c, V) /\ pairs \in Seq(PairSet) /\ c.born \in Seq(Nat)
    BY <1>1, <1>3
  <2>3. QED
    BY ONLY <1>2, <2>1, <2>2, BookReplaced
<1>7. Continues(c, d)
  BY <1>3, <1>6, <1>5 DEF Continues
<1>8. \A q \in R2 : \E r \in DOMAIN pairs : pairs[r].key = K[q]
  <2> TAKE q \in R2
  <2>1. CASE q = p
    BY <1>3, <2>1
  <2>2. CASE q # p
    BY <1>3, <1>5, <2>2 DEF Describes
  <2>3. QED
    BY <2>1, <2>2
<1>9. \A r, u \in DOMAIN pairs : pairs[r].key = pairs[u].key => r = u
  BY <1>3, <1>5 DEF Describes
<1>10. ASSUME NEW key, NEW v, key # new.key \/ v # p[1]
       PROVE  InWord(R2, K, v, key) = InWord(R, K, v, key)
  BY <1>10 DEF InWord
<1>11. ASSUME NEW r \in DOMAIN pairs
       PROVE  /\ TotalsRight(pairs[r])
              /\ \A v \in DOMAIN splits :
                    pairs[r].word_edges[v] = Cardinality(InWord(R2, K, v, pairs[r].key))
  <2>1. CASE r = s
    <3>1. pairs[r] = new
      BY <1>3, <2>1
    <3>2. ASSUME NEW v \in DOMAIN splits, v # p[1]
          PROVE  new.word_edges[v] = Cardinality(InWord(R2, K, v, new.key))
      <4>1. c.pairs[s].word_edges[v] = Cardinality(InWord(R, K, v, new.key))
        BY DEF Describes
      <4>2. QED
        BY <1>10, <3>2, <4>1
    <3>3. QED
      BY <3>1, <3>2
  <2>2. CASE r # s
    <3>1. pairs[r] = c.pairs[r] /\ r \in DOMAIN c.pairs
      BY <1>3, <2>2
    <3>2. pairs[r].key # new.key
      BY <2>2, <3>1 DEF Describes
    <3>3. TotalsRight(c.pairs[r]) /\ \A v \in DOMAIN splits :
             c.pairs[r].word_edges[v] = Cardinality(InWord(R, K, v, c.pairs[r].key))
      BY <3>1 DEF Describes
    <3>4. QED
      BY <1>10, <3>1, <3>2, <3>3
  <2>3. QED
    BY <2>1, <2>2
<1>12. Describes(d, R2, K)
  BY <1>6, <1>8, <1>9, <1>11 DEF Describes
<1>13. QED
  BY <1>6, <1>7, <1>12

-----------------------------------------------------------------------------
(* The two operations, each on one occurrence.                             *)

\* remove_edge_v2: an occurrence that the registry has is taken away without abort.
LEMMA RemoveOne ==
    ASSUME splits \in Corpora, NEW V \in Nat, NEW b, BookTyped(b, V),
           NEW R \in SUBSET Position, NEW K, Describes(b, R, K),
           NEW p \in R, NEW l \in 1..V, NEW r \in 1..V, K[p] = <<l, r>>,
           NEW w, w = p[1], NEW f, f = Loop!Frequency(p),
           NEW d, d = remove_edge_v2(b, l, r, w, f)
    PROVE  BookTyped(d, V) /\ Describes(d, R \ {p}, K) /\ Continues(b, d)
<1> DEFINE key == <<l, r>>
           c == get_pair(b, key)
           s == IdOf(c, key)
           pair == c.pairs[s]
           n == pair.word_edges[w]
           less == [pair.word_edges EXCEPT ![w] = @ - 1]
           new == WithoutEdge(pair, w, f)
<1>1. key \in (1..V) \X (1..V)
  OBVIOUS
<1>2. /\ BookTyped(c, V) /\ Describes(c, R, K) /\ Continues(b, c)
      /\ s \in DOMAIN c.pairs /\ pair.key = key
  <2> HIDE DEF key
  <2> QED BY <1>1, GetPair
<1>3. pair \in PairSet
  <2> HIDE DEF c, s
  <2> QED BY <1>2, BookShape
<1>4. w \in DOMAIN splits /\ f = splits[w].count /\ f \in Nat /\ p \in Position
  BY PositionsTyped DEF Loop!Frequency
<1>5. /\ pair.key \in Nat \X Nat /\ pair.count \in Nat /\ pair.word_count \in Nat
      /\ pair.positions \in Seq(Position) /\ pair.word_edges \in Numbers
  <2> HIDE DEF pair
  <2> QED BY <1>3, PairFields
<1>6. TotalsRight(pair) /\ n = Cardinality(InWord(R, K, w, key))
  <2> HIDE DEF c, s
  <2> QED BY <1>2, <1>4 DEF Describes
<1>7. /\ n # 0 /\ n \in Nat
      /\ Cardinality(InWord(R \ {p}, K, w, key)) = n - 1
  <2> DEFINE A == InWord(R, K, w, key)
  <2>1. p \in A /\ InWord(R \ {p}, K, w, key) = A \ {p}
    BY DEF InWord
  <2>2. IsFiniteSet(A)
    BY FiniteIn
  <2> HIDE DEF A, n, key
  <2>3. Cardinality(A) \in Nat /\ Cardinality(A \ {p}) = Cardinality(A) - 1 /\ Cardinality(A) # 0
    <3>1. Cardinality(A) \in Nat
      BY <2>2, FS_CardinalityType
    <3>2. Cardinality(A \ {p}) = Cardinality(A) - 1
      BY <2>1, <2>2, FS_RemoveElement
    <3>3. Cardinality(A) # 0
      BY <2>1, <2>2, FS_EmptySet
    <3>4. QED
      BY <3>1, <3>2, <3>3
  <2>4. n = Cardinality(A)
    BY <1>6 DEF A
  <2>5. QED
    BY <2>1, <2>3, <2>4 DEF A
<1>8. /\ less \in Numbers
      /\ Total(pair.word_edges) >= f /\ Total(pair.word_edges) \in Nat
      /\ Total(less) \in Nat /\ Total(less) = Total(pair.word_edges) - f
      /\ Cardinality(WordsWith(pair.word_edges)) \in Nat \ {0}
      /\ Cardinality(WordsWith(less))
           = IF n = 1 THEN Cardinality(WordsWith(pair.word_edges)) - 1
             ELSE Cardinality(WordsWith(pair.word_edges))
  <2> DEFINE edges == pair.word_edges
  <2>1. edges \in Numbers /\ edges[w] # 0 /\ less = [edges EXCEPT ![w] = @ - 1]
    BY <1>5, <1>7
  <2> HIDE DEF pair, edges, less
  <2>2. /\ less \in Numbers
        /\ Total(edges) >= splits[w].count /\ Total(edges) \in Nat
        /\ Total(less) \in Nat /\ Total(less) = Total(edges) - splits[w].count
        /\ Cardinality(WordsWith(edges)) \in Nat \ {0}
        /\ Cardinality(WordsWith(less))
             = IF edges[w] = 1 THEN Cardinality(WordsWith(edges)) - 1
               ELSE Cardinality(WordsWith(edges))
    <3>1. splits \in Corpora /\ w \in DOMAIN splits
      BY <1>4
    <3>2. QED
      BY ONLY <2>1, <3>1, OneFewer
  <2>3. QED
    BY <1>4, <2>2 DEF edges
<1>9. pair.count = Total(pair.word_edges) /\ pair.word_count = Cardinality(WordsWith(pair.word_edges))
  BY <1>6 DEF TotalsRight
<1>10. d = PutPair(c, s, new)
  <2>1. ~(pair.count < f) /\ n # 0 /\ ~(n = 1 /\ pair.word_count = 0)
    BY <1>4, <1>7, <1>8, <1>9
  <2>2. d = IF pair.count < f \/ n = 0 \/ (n = 1 /\ pair.word_count = 0)
            THEN [c EXCEPT !.aborted = TRUE]
            ELSE [c EXCEPT !.pairs[s] = WithoutEdge(@, w, f)]
    <3>1. d = remove_edge_v2(b, l, r, w, f)
      OBVIOUS
    <3>2. QED
      BY ONLY <3>1 DEF remove_edge_v2
  <2> HIDE DEF n
  <2>3. d = [c EXCEPT !.pairs[s] = WithoutEdge(@, w, f)]
    BY <2>1, <2>2
  <2>4. QED
    BY <2>3 DEF PutPair
<1> HIDE DEF pair, less, new
<1>11. new = [key |-> pair.key, count |-> pair.count - f,
              word_count |-> IF n = 1 THEN pair.word_count - 1 ELSE pair.word_count,
              positions |-> pair.positions, word_edges |-> less]
  <2>1. pair \in PairSet /\ less = [pair.word_edges EXCEPT ![w] = @ - 1]
    BY <1>3 DEF less
  <2>2. WithoutEdge(pair, w, f) =
             [key |-> pair.key, count |-> pair.count - f,
              word_count |-> IF pair.word_edges[w] = 1 THEN pair.word_count - 1 ELSE pair.word_count,
              positions |-> pair.positions, word_edges |-> less]
    BY ONLY <2>1, WithoutFields
  <2>3. QED
    BY <2>2 DEF new
<1>12. /\ new \in PairSet /\ TotalsRight(new)
       /\ new.key = pair.key /\ new.word_edges = less
  <2> DEFINE wc == IF n = 1 THEN pair.word_count - 1 ELSE pair.word_count
             co == pair.count - f
  <2>1. wc = Cardinality(WordsWith(less)) /\ co = Total(less) /\ wc \in Nat /\ co \in Nat
    BY <1>8, <1>9
  <2>2. /\ pair.key \in Nat \X Nat /\ pair.positions \in Seq(Position) /\ less \in Numbers
        /\ new = [key |-> pair.key, count |-> co, word_count |-> wc, positions |-> pair.positions,
                  word_edges |-> less]
    BY <1>5, <1>8, <1>11
  <2> HIDE DEF wc, co
  <2>3. /\ new \in PairSet
        /\ new.key = pair.key /\ new.count = co /\ new.word_count = wc
        /\ new.positions = pair.positions /\ new.word_edges = less
    BY ONLY <2>1, <2>2, PairOf
  <2>4. QED
    BY <2>1, <2>3 DEF TotalsRight
<1>13. new.word_edges[p[1]] = Cardinality(InWord(R \ {p}, K, p[1], new.key))
  <2>1. less[w] = n - 1
    BY <1>4, <1>5 DEF less, Numbers, n
  <2>2. QED
    BY <1>2, <1>7, <1>12, <2>1
<1>14. \A v \in DOMAIN splits : v # p[1] => new.word_edges[v] = pair.word_edges[v]
  BY <1>5, <1>12 DEF less, Numbers
<1> HIDE DEF c, s, n
<1>15. BookTyped(d, V) /\ Describes(d, R \ {p}, K) /\ Continues(c, d)
  <2> DEFINE R2 == R \ {p}
  <2>1. R2 \in SUBSET Position /\ \A q \in Position : q # p => (q \in R2 <=> q \in R)
    OBVIOUS
  <2> HIDE DEF R2
  <2>2. /\ splits \in Corpora /\ V \in Nat /\ BookTyped(c, V) /\ R \in SUBSET Position
        /\ Describes(c, R, K) /\ s \in DOMAIN c.pairs /\ new \in PairSet
        /\ new.key = c.pairs[s].key /\ TotalsRight(new) /\ p \in Position /\ K[p] = new.key
        /\ R2 \in SUBSET Position /\ \A q \in Position : q # p => (q \in R2 <=> q \in R)
        /\ \A v \in DOMAIN splits : v # p[1] => new.word_edges[v] = c.pairs[s].word_edges[v]
        /\ new.word_edges[p[1]] = Cardinality(InWord(R2, K, p[1], new.key))
        /\ d = PutPair(c, s, new)
    BY <1>2, <1>4, <1>10, <1>12, <1>13, <1>14, <2>1 DEF R2, pair
  <2>3. BookTyped(d, V) /\ Describes(d, R2, K) /\ Continues(c, d)
    BY ONLY <2>2, ReplacePair
  <2>4. QED
    BY <2>3 DEF R2
<1>16. QED
  BY <1>2, <1>15 DEF Continues

\* add_edge_v2: an occurrence that the registry lacks enters.
LEMMA AddOne ==
    ASSUME splits \in Corpora, NEW V \in Nat, NEW b, BookTyped(b, V),
           NEW R \in SUBSET Position, NEW K, Describes(b, R, K),
           NEW p \in Position, p \notin R, NEW l \in 1..V, NEW r \in 1..V, K[p] = <<l, r>>,
           NEW w, w = p[1], NEW f, f = Loop!Frequency(p),
           NEW d, d = add_edge_v2(b, l, r, w, p, f)
    PROVE  BookTyped(d, V) /\ Describes(d, R \cup {p}, K) /\ Continues(b, d)
<1> DEFINE key == <<l, r>>
           c == get_pair(b, key)
           s == IdOf(c, key)
           pair == c.pairs[s]
           n == pair.word_edges[w]
           more == [pair.word_edges EXCEPT ![w] = @ + 1]
           list == Append(pair.positions, p)
           new == WithEdge(pair, w, p, f)
<1>1. key \in (1..V) \X (1..V)
  OBVIOUS
<1>2. /\ BookTyped(c, V) /\ Describes(c, R, K) /\ Continues(b, c)
      /\ s \in DOMAIN c.pairs /\ pair.key = key
  <2> HIDE DEF key
  <2> QED BY <1>1, GetPair
<1>3. pair \in PairSet
  <2> HIDE DEF c, s
  <2> QED BY <1>2, BookShape
<1>4. w \in DOMAIN splits /\ f = splits[w].count /\ f \in Nat
  BY PositionsTyped DEF Loop!Frequency
<1>5. /\ pair.key \in Nat \X Nat /\ pair.count \in Nat /\ pair.word_count \in Nat
      /\ pair.positions \in Seq(Position) /\ pair.word_edges \in Numbers
  <2> HIDE DEF pair
  <2> QED BY <1>3, PairFields
<1>6. TotalsRight(pair) /\ n = Cardinality(InWord(R, K, w, key))
  <2> HIDE DEF c, s
  <2> QED BY <1>2, <1>4 DEF Describes
<1>7. /\ n \in Nat
      /\ Cardinality(InWord(R \cup {p}, K, w, key)) = n + 1
  <2> DEFINE A == InWord(R, K, w, key)
  <2>1. p \notin A /\ InWord(R \cup {p}, K, w, key) = A \cup {p}
    BY DEF InWord
  <2>2. IsFiniteSet(A) /\ Cardinality(A) \in Nat
    BY FiniteIn
  <2> HIDE DEF A, n, key
  <2>3. Cardinality(A \cup {p}) = Cardinality(A) + 1
    BY <2>1, <2>2, FS_AddElement
  <2>4. n = Cardinality(A)
    BY <1>6 DEF A
  <2>5. QED
    BY <2>1, <2>2, <2>3, <2>4 DEF A
<1>8. /\ more \in Numbers
      /\ Total(pair.word_edges) \in Nat
      /\ Total(more) = Total(pair.word_edges) + f
      /\ Cardinality(WordsWith(pair.word_edges)) \in Nat
      /\ Cardinality(WordsWith(more))
           = IF n = 0 THEN Cardinality(WordsWith(pair.word_edges)) + 1
             ELSE Cardinality(WordsWith(pair.word_edges))
  <2> DEFINE edges == pair.word_edges
  <2>1. edges \in Numbers /\ more = [edges EXCEPT ![w] = @ + 1]
    BY <1>5
  <2> HIDE DEF pair, edges, more
  <2>2. /\ more \in Numbers
        /\ Total(edges) \in Nat /\ Total(more) = Total(edges) + splits[w].count
        /\ Cardinality(WordsWith(edges)) \in Nat
        /\ Cardinality(WordsWith(more))
             = IF edges[w] = 0 THEN Cardinality(WordsWith(edges)) + 1
               ELSE Cardinality(WordsWith(edges))
    <3>1. splits \in Corpora /\ w \in DOMAIN splits
      BY <1>4
    <3>2. QED
      BY ONLY <2>1, <3>1, OneMore
  <2>3. QED
    BY <1>4, <2>2 DEF edges
<1>9. pair.count = Total(pair.word_edges) /\ pair.word_count = Cardinality(WordsWith(pair.word_edges))
  BY <1>6 DEF TotalsRight
<1>10. d = PutPair(c, s, new)
  <2>1. d = [c EXCEPT !.pairs[s] = WithEdge(@, w, p, f)]
    BY DEF add_edge_v2
  <2>2. QED
    BY <2>1 DEF PutPair
<1> HIDE DEF pair, more, list, new
<1>11. new = [key |-> pair.key, count |-> pair.count + f,
              word_count |-> IF n = 0 THEN pair.word_count + 1 ELSE pair.word_count,
              positions |-> list, word_edges |-> more]
  <2>1. pair \in PairSet /\ more = [pair.word_edges EXCEPT ![w] = @ + 1]
    BY <1>3 DEF more
  <2>2. WithEdge(pair, w, p, f) = FieldsWith(pair, w, p, f, more)
    BY ONLY <2>1, WithFields
  <2>3. QED
    BY <2>2 DEF new, list, FieldsWith
<1>12. /\ new \in PairSet /\ TotalsRight(new)
       /\ new.key = pair.key /\ new.word_edges = more
  <2> DEFINE wc == IF n = 0 THEN pair.word_count + 1 ELSE pair.word_count
             co == pair.count + f
  <2>1. wc = Cardinality(WordsWith(more)) /\ co = Total(more) /\ wc \in Nat /\ co \in Nat
    BY <1>4, <1>5, <1>8, <1>9
  <2>2. list \in Seq(Position)
    BY <1>5 DEF list
  <2>3. /\ pair.key \in Nat \X Nat /\ list \in Seq(Position) /\ more \in Numbers
        /\ new = [key |-> pair.key, count |-> co, word_count |-> wc, positions |-> list,
                  word_edges |-> more]
    BY <1>5, <1>8, <1>11, <2>2
  <2> HIDE DEF wc, co
  <2>4. /\ new \in PairSet
        /\ new.key = pair.key /\ new.count = co /\ new.word_count = wc
        /\ new.positions = list /\ new.word_edges = more
    BY ONLY <2>1, <2>3, PairOf
  <2>5. QED
    BY <2>1, <2>4 DEF TotalsRight
<1>13. new.word_edges[p[1]] = Cardinality(InWord(R \cup {p}, K, p[1], new.key))
  <2>1. more[w] = n + 1
    BY <1>4, <1>5 DEF more, Numbers, n
  <2>2. QED
    BY <1>2, <1>7, <1>12, <2>1
<1>14. \A v \in DOMAIN splits : v # p[1] => new.word_edges[v] = pair.word_edges[v]
  BY <1>5, <1>12 DEF more, Numbers
<1> HIDE DEF c, s, n
<1>15. BookTyped(d, V) /\ Describes(d, R \cup {p}, K) /\ Continues(c, d)
  <2> DEFINE R2 == R \cup {p}
  <2>1. R2 \in SUBSET Position /\ \A q \in Position : q # p => (q \in R2 <=> q \in R)
    OBVIOUS
  <2> HIDE DEF R2
  <2>2. /\ splits \in Corpora /\ V \in Nat /\ BookTyped(c, V) /\ R \in SUBSET Position
        /\ Describes(c, R, K) /\ s \in DOMAIN c.pairs /\ new \in PairSet
        /\ new.key = c.pairs[s].key /\ TotalsRight(new) /\ p \in Position /\ K[p] = new.key
        /\ R2 \in SUBSET Position /\ \A q \in Position : q # p => (q \in R2 <=> q \in R)
        /\ \A v \in DOMAIN splits : v # p[1] => new.word_edges[v] = c.pairs[s].word_edges[v]
        /\ new.word_edges[p[1]] = Cardinality(InWord(R2, K, p[1], new.key))
        /\ d = PutPair(c, s, new)
    BY <1>2, <1>4, <1>10, <1>12, <1>13, <1>14, <2>1 DEF R2, pair
  <2>3. BookTyped(d, V) /\ Describes(d, R2, K) /\ Continues(c, d)
    BY ONLY <2>2, ReplacePair
  <2>4. QED
    BY <2>3 DEF R2
<1>16. QED
  BY <1>2, <1>15 DEF Continues

-----------------------------------------------------------------------------
(* The inductive invariant.                                                *)

\* The occurrences of pairs in the chain, by their first slots.
Live == {p \in Position : alive[p] /\ Loop!is_live(next[p])}

Key == [p \in Live |-> <<token[p], token[next[p]]>>]

\* The occurrences a thread between its critical sections has taken out.
Touched(t) ==
    IF stage[t] \in {"removed", "spliced"}
    THEN {held[t].ev.left, held[t].ev.position, held[t].ev.right} ELSE {}

\* build_state has been through the occurrence.
Behind(p) ==
    phase = "build" => \/ p[1] < cursor[1]
                       \/ p[1] = cursor[1] /\ p[2] < cursor[2]

\* What the registry has to hold.
Registered == {p \in Live : Behind(p) /\ \A t \in Threads : p \notin Touched(t)}

Links == Position \cup {no_position}

StateTyped ==
    /\ splits \in Corpora
    /\ token \in [Position -> Nat]
    /\ alive \in [Position -> BOOLEAN]
    /\ next \in [Position -> Links]
    /\ previous \in [Position -> Links]
    /\ vocabulary \in Seq(Seq(Nat))
    /\ \A p \in Position : alive[p] => token[p] \in 1..Len(vocabulary)
    /\ phase \in {"build", "pop", "surgery", "replay", "done"}
    /\ positions \in Seq(Position)
    /\ DOMAIN held = Threads

\* Each live slot and the next one, which may be the sentinel, point at each other.
ChainSound ==
    /\ \A p \in Position :
          alive[p] => /\ next[p] \in Position /\ next[p][1] = p[1] /\ p[2] < next[p][2]
                      /\ previous[next[p]] = p
    /\ \A p \in Position :
          alive[p] /\ previous[p] # no_position =>
             previous[p] \in Position /\ alive[previous[p]] /\ next[previous[p]] = p

\* A word is one thread's at most.
WordsApart ==
    /\ word \in [Threads -> Nat]
    /\ stage \in [Threads -> {"idle", "read", "removed", "spliced"}]
    /\ active_words \subseteq DOMAIN splits
    /\ \A t \in Threads : stage[t] # "idle" => word[t] # 0
    /\ \A t \in Threads :
          word[t] # 0 => word[t] \in DOMAIN splits \ active_words /\ phase = "surgery"
    /\ \A t, u \in Threads : t # u /\ word[t] # 0 => word[t] # word[u]

\* What a thread has read still holds.
ReadFresh(t) ==
    LET p == held[t].slots.position
    IN  /\ p \in Position /\ p[1] = word[t]
        /\ Loop!pair_is_at(p, Loop!left_token, Loop!right_token)
        /\ held[t] = [slots |-> Loop!Neighbours(p), ev |-> Loop!MergeEvent(Loop!Neighbours(p))]

\* What it has written still holds.
WriteFresh(t) ==
    LET ev == held[t].ev
        p  == ev.position
    IN  /\ p \in Position /\ p[1] = word[t]
        /\ alive[p] /\ token[p] = Loop!merged_token
        /\ ev.right \in Position => ~alive[ev.right]
        /\ ev = Loop!MergeEvent([position |-> p, right |-> ev.right,
                                 left |-> previous[p], after |-> next[p]])

HeldSound ==
    \A t \in Threads : /\ stage[t] \in {"read", "removed"} => ReadFresh(t)
                       /\ stage[t] = "spliced" => WriteFresh(t)

BuildSound ==
    phase = "build" =>
        /\ \A p \in Position : /\ alive[p] <=> p[2] <= Len(splits[p[1]].chars)
                               /\ alive[p] => next[p] = <<p[1], p[2] + 1>>
        /\ cursor \in Position \/ cursor = <<Len(splits) + 1, 1>>

StatesKnown ==
    /\ \A e \in queue : e.state \in DOMAIN book.pairs
    /\ phase = "surgery" => best \in DOMAIN book.pairs

BookSound ==
    /\ BookTyped(book, Len(vocabulary))
    /\ Describes(book, Registered, Key)

LInv ==
    /\ StateTyped /\ ChainSound /\ WordsApart /\ HeldSound /\ BuildSound
    /\ StatesKnown /\ BookSound

-----------------------------------------------------------------------------
(* What stays when the input does.                                         *)

LEMMA PositionsFixed ==
    ASSUME UNCHANGED splits
    PROVE  Position' = Position /\ Links' = Links
BY DEF Position, Loop!Position, Links

LEMMA PairsFixed ==
    ASSUME UNCHANGED splits
    PROVE  PairSet' = PairSet
BY PositionsFixed DEF PairSet, Numbers

LEMMA DescribesSame ==
    ASSUME NEW b, NEW R, NEW K, NEW K2, Describes(b, R, K), \A p \in R : K2[p] = K[p]
    PROVE  Describes(b, R, K2)
<1>1. \A w, key : InWord(R, K2, w, key) = InWord(R, K, w, key)
  BY DEF InWord
<1>2. QED
  BY <1>1 DEF Describes

LEMMA BookSoundNext ==
    ASSUME UNCHANGED splits,
           NEW V, NEW R, NEW K, BookTyped(book', V), Describes(book', R, K),
           Len(vocabulary)' = V, Registered' = R, \A p \in R : Key'[p] = K[p]
    PROVE  BookSound'
<1>1. Describes(book', R, Key')
  <2> DEFINE c == book'
             K2 == Key'
  <2>1. Describes(c, R, K) /\ \A p \in R : K2[p] = K[p]
    OBVIOUS
  <2> HIDE DEF c, K2
  <2>2. Describes(c, R, K2)
    BY <2>1, DescribesSame
  <2>3. QED
    BY <2>2 DEF c, K2
<1>2. BookTyped(book, Len(vocabulary))'
  BY PairsFixed DEF BookTyped, KeysIn
<1>3. \A e : Total(e)' = Total(e) /\ WordsWith(e)' = WordsWith(e)
  BY DEF Total, WordsWith, NotedBy, Loop!Occurrences, Loop!Frequency
<1>4. Describes(book, Registered, Key)'
  BY <1>1, <1>3 DEF Describes, InWord, TotalsRight
<1>5. QED
  BY <1>2, <1>4 DEF BookSound

LEMMA LiveFacts ==
    ASSUME StateTyped, ChainSound
    PROVE  /\ \A p \in Position : p \in Live <=> alive[p] /\ alive[next[p]]
           /\ \A p \in Live : /\ p \in Position /\ alive[p]
                              /\ next[p] \in Position /\ alive[next[p]]
                              /\ Key[p] = <<token[p], token[next[p]]>>
                              /\ token[p] \in 1..Len(vocabulary)
                              /\ token[next[p]] \in 1..Len(vocabulary)
           /\ Live \subseteq Position /\ Registered \in SUBSET Position
           /\ no_position \notin Position
<1>1. no_position \notin Position
  BY PositionsTyped DEF StateTyped
<1>2. \A p \in Position : alive[p] => (Loop!is_live(next[p]) <=> alive[next[p]])
  BY <1>1 DEF ChainSound, Loop!is_live
<1>3. \A p \in Position : p \in Live <=> alive[p] /\ alive[next[p]]
  <2> TAKE p \in Position
  <2>1. CASE alive[p]
    BY <1>2, <2>1 DEF Live
  <2>2. CASE ~alive[p]
    BY <2>2 DEF Live
  <2>3. QED
    BY <2>1, <2>2
<1>4. \A p \in Live : p \in Position /\ alive[p] /\ alive[next[p]] /\ next[p] \in Position
  BY <1>3 DEF Live, ChainSound
<1>5. QED
  BY <1>1, <1>3, <1>4 DEF Key, StateTyped, Registered

-----------------------------------------------------------------------------
(* The invariant says what it should.                                      *)

LEMMA EdgesAreLive ==
    ASSUME StateTyped, ChainSound, NEW key \in Nat \X Nat
    PROVE  Loop!Edges(key) = {p \in Live : Key[p] = key}
<1>1. \A p \in Position : Loop!pair_is_at(p, key[1], key[2]) <=> p \in Live /\ Key[p] = key
  <2> TAKE p \in Position
  <2>1. Loop!is_live(p) <=> alive[p]
    BY LiveFacts DEF Loop!is_live
  <2>2. CASE p \in Live
    <3>1. key = <<key[1], key[2]>>
      OBVIOUS
    <3>2. /\ alive[p] /\ Loop!is_live(next[p])
          /\ Key[p] = <<token[p], token[next[p]]>>
      BY <2>2, LiveFacts DEF Live
    <3>3. QED
      BY <2>1, <2>2, <3>1, <3>2 DEF Loop!pair_is_at
  <2>3. CASE p \notin Live
    BY <2>1, <2>3 DEF Loop!pair_is_at, Live
  <2>4. QED
    BY <2>2, <2>3
<1>2. Live \subseteq Position
  BY LiveFacts
<1>3. QED
  BY <1>1, <1>2 DEF Loop!Edges, Position

\* The neighbourhood of a live slot, as an event shows it.
LEMMA EventFacts ==
    ASSUME StateTyped, ChainSound, NEW p \in Position, alive[p],
           NEW n, n.left = previous[p], n.after = next[p] \/ (alive[next[p]] /\ n.after = next[next[p]]),
           NEW ev, ev = Loop!MergeEvent(n)
    PROVE  /\ ev.position = n.position /\ ev.right = n.right
           /\ ev.left = previous[p] /\ n.after \in Position
           /\ ev.left # no_position =>
                 /\ ev.left \in Live /\ next[ev.left] = p /\ ev.left[1] = p[1]
                 /\ ev.left[2] < p[2] /\ ev.left_token = token[ev.left]
           /\ alive[n.after] => ev.after = n.after /\ ev.after_token = token[n.after]
           /\ ~alive[n.after] => ev.after = no_position
<1>1. no_position \notin Position
  BY LiveFacts
<1>2. n.after \in Position
  BY DEF ChainSound
<1>3. previous[p] # no_position =>
         /\ previous[p] \in Position /\ alive[previous[p]] /\ next[previous[p]] = p
         /\ p[1] = previous[p][1] /\ previous[p][2] < p[2] /\ previous[p] \in Live
  <2> SUFFICES ASSUME previous[p] # no_position
               PROVE  /\ previous[p] \in Position /\ alive[previous[p]] /\ next[previous[p]] = p
                      /\ p[1] = previous[p][1] /\ previous[p][2] < p[2] /\ previous[p] \in Live
    OBVIOUS
  <2>1. previous[p] \in Position /\ alive[previous[p]] /\ next[previous[p]] = p
    BY DEF ChainSound
  <2>2. p[1] = previous[p][1] /\ previous[p][2] < p[2]
    BY <2>1 DEF ChainSound
  <2>3. previous[p] \in Live
    BY <2>1, LiveFacts
  <2>4. QED
    BY <2>1, <2>2, <2>3
<1>4. /\ Loop!is_live(n.left) <=> n.left # no_position
      /\ Loop!is_live(n.after) <=> alive[n.after]
  BY <1>1, <1>2, <1>3 DEF Loop!is_live
<1>5. /\ ev.position = n.position /\ ev.right = n.right
      /\ ev.left = IF Loop!is_live(n.left) THEN n.left ELSE no_position
      /\ ev.after = IF Loop!is_live(n.after) THEN n.after ELSE no_position
      /\ ev.left_token = IF Loop!is_live(n.left) THEN token[n.left] ELSE no_position
      /\ ev.after_token = IF Loop!is_live(n.after) THEN token[n.after] ELSE no_position
  BY DEF Loop!MergeEvent
<1>6. QED
  BY <1>2, <1>3, <1>4, <1>5

\* What a thread holds between reading and writing.
LEMMA ReadFacts ==
    ASSUME StateTyped, ChainSound, NEW t \in Threads, ReadFresh(t),
           NEW p, p = held[t].slots.position, NEW ev, ev = held[t].ev
    PROVE  /\ p \in Live /\ p[1] = word[t] /\ next[p] \in Position /\ alive[next[p]]
           /\ next[p][1] = p[1] /\ p[2] < next[p][2]
           /\ next[next[p]] \in Position
           /\ next[next[p]][1] = p[1] /\ next[p][2] < next[next[p]][2]
           /\ token[p] = Loop!left_token /\ token[next[p]] = Loop!right_token
           /\ held[t].slots = Loop!Neighbours(p) /\ ev = Loop!MergeEvent(Loop!Neighbours(p))
           /\ ev.position = p /\ ev.right = next[p] /\ ev.left = previous[p]
           /\ ev.left # no_position =>
                 /\ ev.left \in Live /\ next[ev.left] = p /\ ev.left[1] = p[1]
                 /\ ev.left[2] < p[2] /\ ev.left_token = token[ev.left]
           /\ alive[next[next[p]]] => /\ ev.after = next[next[p]] /\ next[p] \in Live
                                      /\ ev.after_token = token[next[next[p]]]
           /\ ~alive[next[next[p]]] => ev.after = no_position /\ next[p] \notin Live
<1>1. /\ p \in Position /\ p[1] = word[t]
      /\ Loop!pair_is_at(p, Loop!left_token, Loop!right_token)
      /\ held[t] = [slots |-> Loop!Neighbours(p), ev |-> Loop!MergeEvent(Loop!Neighbours(p))]
  BY Zenon DEF ReadFresh
<1>2. no_position \notin Position
  BY LiveFacts
<1>3. /\ alive[p] /\ token[p] = Loop!left_token
      /\ alive[next[p]] /\ token[next[p]] = Loop!right_token
  BY <1>1 DEF Loop!pair_is_at, Loop!is_live
<1>4. /\ next[p] \in Position /\ next[p][1] = p[1] /\ p[2] < next[p][2]
      /\ next[next[p]] \in Position
      /\ next[next[p]][1] = p[1] /\ next[p][2] < next[next[p]][2]
  BY <1>1, <1>3 DEF ChainSound
<1>5. p \in Live /\ (next[p] \in Live <=> alive[next[next[p]]])
  BY <1>1, <1>3, <1>4, LiveFacts
<1> DEFINE n == Loop!Neighbours(p)
<1>6. /\ n.position = p /\ n.right = next[p] /\ n.left = previous[p]
      /\ n.after = next[next[p]]
  BY DEF Loop!Neighbours
<1>7. held[t].slots = n /\ ev = Loop!MergeEvent(n)
  <2> HIDE DEF n
  <2> QED BY <1>1 DEF n
<1> HIDE DEF n
<1>8. /\ ev.position = n.position /\ ev.right = n.right
      /\ ev.left = previous[p] /\ n.after \in Position
      /\ ev.left # no_position =>
            /\ ev.left \in Live /\ next[ev.left] = p /\ ev.left[1] = p[1]
            /\ ev.left[2] < p[2] /\ ev.left_token = token[ev.left]
      /\ alive[n.after] => ev.after = n.after /\ ev.after_token = token[n.after]
      /\ ~alive[n.after] => ev.after = no_position
  <2>1. /\ StateTyped /\ ChainSound /\ p \in Position /\ alive[p] /\ n.left = previous[p]
        /\ n.after = next[p] \/ (alive[next[p]] /\ n.after = next[next[p]])
        /\ ev = Loop!MergeEvent(n)
    BY <1>1, <1>3, <1>6, <1>7
  <2>2. QED
    BY ONLY <2>1, EventFacts
<1>9. held[t].slots = Loop!Neighbours(p) /\ ev = Loop!MergeEvent(Loop!Neighbours(p))
  BY <1>7 DEF n
<1>10. QED
  BY <1>1, <1>3, <1>4, <1>5, <1>6, <1>8, <1>9

\* What a thread holds between its surgery and the second critical section.
LEMMA WriteFacts ==
    ASSUME StateTyped, ChainSound, NEW t \in Threads, WriteFresh(t),
           NEW ev, ev = held[t].ev, NEW p, p = ev.position
    PROVE  /\ p \in Position /\ alive[p] /\ p[1] = word[t] /\ token[p] = Loop!merged_token
           /\ ev.right \notin Live
           /\ next[p] \in Position /\ ev.left = previous[p]
           /\ ev.left # no_position =>
                 /\ ev.left \in Live /\ next[ev.left] = p /\ ev.left[1] = p[1]
                 /\ ev.left[2] < p[2] /\ ev.left_token = token[ev.left]
           /\ alive[next[p]] => /\ ev.after = next[p] /\ p \in Live
                                /\ ev.after_token = token[next[p]]
           /\ ~alive[next[p]] => ev.after = no_position /\ p \notin Live
<1> DEFINE n == [position |-> p, right |-> ev.right, left |-> previous[p], after |-> next[p]]
<1>1. /\ p \in Position /\ p[1] = word[t] /\ alive[p] /\ token[p] = Loop!merged_token
      /\ ev.right \in Position => ~alive[ev.right]
      /\ ev = Loop!MergeEvent(n)
  BY Zenon DEF WriteFresh
<1>2. n.left = previous[p] /\ n.after = next[p]
  OBVIOUS
<1> HIDE DEF n
<1>3. /\ ev.left = previous[p] /\ n.after \in Position
      /\ ev.left # no_position =>
            /\ ev.left \in Live /\ next[ev.left] = p /\ ev.left[1] = p[1]
            /\ ev.left[2] < p[2] /\ ev.left_token = token[ev.left]
      /\ alive[n.after] => ev.after = n.after /\ ev.after_token = token[n.after]
      /\ ~alive[n.after] => ev.after = no_position
  <2>1. /\ StateTyped /\ ChainSound /\ p \in Position /\ alive[p] /\ n.left = previous[p]
        /\ n.after = next[p] \/ (alive[next[p]] /\ n.after = next[next[p]])
        /\ ev = Loop!MergeEvent(n)
    BY <1>1, <1>2
  <2>2. QED
    BY ONLY <2>1, EventFacts
<1>4. p \in Live <=> alive[next[p]]
  BY <1>1, LiveFacts
<1>5. ev.right \notin Live
  BY <1>1, LiveFacts
<1>6. QED
  BY <1>1, <1>2, <1>3, <1>4, <1>5

LEMMA InvKeepsUp == LInv => RegistryKeepsUp
<1> SUFFICES ASSUME LInv PROVE RegistryKeepsUp
  OBVIOUS
<1>1. /\ StateTyped /\ ChainSound /\ WordsApart /\ HeldSound
      /\ BookTyped(book, Len(vocabulary)) /\ Describes(book, Registered, Key)
  BY DEF LInv, BookSound
<1>2. book.aborted = FALSE /\ \A s \in DOMAIN book.pairs : book.pairs[s] \in PairSet
  BY <1>1, BookShape
<1>3. ASSUME NEW w \in SettledWords, NEW p \in Live, p[1] = w
      PROVE  p \in Registered
  <2>1. w \in DOMAIN splits /\ p \in Position /\ no_position \notin Position
    BY <1>1, <1>3, LiveFacts DEF SettledWords
  <2>2. Behind(p)
    BY <1>3 DEF Behind, SettledWords
  <2>3. ASSUME NEW t \in Threads, p \in Touched(t) PROVE FALSE
    <3>1. stage[t] \in {"removed", "spliced"} /\ word[t] # w
      BY <2>3, <1>3 DEF Touched, SettledWords
    <3>2. p \in {held[t].ev.left, held[t].ev.position, held[t].ev.right}
      BY <2>3, <3>1 DEF Touched
    <3>3. CASE stage[t] = "removed"
      <4> DEFINE q  == held[t].slots.position
                 ev == held[t].ev
      <4>1. ReadFresh(t)
        BY <1>1, <3>3 DEF HeldSound
      <4> HIDE DEF q, ev
      <4>2. /\ q[1] = word[t] /\ next[q][1] = q[1] /\ ev.position = q /\ ev.right = next[q]
            /\ ev.left # no_position => ev.left[1] = q[1]
        BY <1>1, <4>1, ReadFacts DEF q, ev
      <4>3. QED
        BY <1>3, <2>1, <3>1, <3>2, <4>2 DEF ev
    <3>4. CASE stage[t] = "spliced"
      <4> DEFINE ev == held[t].ev
      <4>1. WriteFresh(t)
        BY <1>1, <3>4 DEF HeldSound
      <4> HIDE DEF ev
      <4>2. /\ ev.position[1] = word[t] /\ ev.right \notin Live
            /\ ev.left # no_position => ev.left[1] = ev.position[1]
        BY <1>1, <4>1, WriteFacts DEF ev
      <4>3. QED
        BY <1>3, <2>1, <3>1, <3>2, <4>2 DEF ev
    <3>5. QED
      BY <3>1, <3>3, <3>4
  <2>4. QED
    BY <2>2, <2>3 DEF Registered
<1>4. ASSUME NEW s \in DOMAIN book.pairs
      PROVE  LET pair == book.pairs[s]
             IN  /\ \A w \in SettledWords :
                       pair.word_edges[w] = Cardinality({p \in Loop!Edges(pair.key) : p[1] = w})
                 /\ pair.word_count = Cardinality({w \in DOMAIN splits : pair.word_edges[w] > 0})
                 /\ pair.count = Cardinality(Loop!Occurrences(Noted(pair)))
  <2> DEFINE pair == book.pairs[s]
  <2>1. pair.key \in Nat \X Nat
    <3>1. pair \in PairSet
      BY <1>2
    <3> HIDE DEF pair
    <3>2. QED
      BY <3>1, PairFields
  <2>2. ASSUME NEW w \in SettledWords
        PROVE  pair.word_edges[w] = Cardinality({p \in Loop!Edges(pair.key) : p[1] = w})
    <3>1. w \in DOMAIN splits
      BY DEF SettledWords
    <3>2. pair.word_edges[w] = Cardinality(InWord(Registered, Key, w, pair.key))
      BY <1>1, <3>1 DEF Describes
    <3> HIDE DEF pair
    <3>3. Loop!Edges(pair.key) = {p \in Live : Key[p] = pair.key}
      BY <1>1, <2>1, EdgesAreLive
    <3>4. Registered \subseteq Live
      BY DEF Registered
    <3>5. InWord(Registered, Key, w, pair.key) = {p \in Loop!Edges(pair.key) : p[1] = w}
      BY <1>3, <3>3, <3>4 DEF InWord
    <3>6. QED
      BY <3>2, <3>5
  <2>3. TotalsRight(pair)
    BY <1>1 DEF Describes
  <2>4. /\ pair.word_count = Cardinality({w \in DOMAIN splits : pair.word_edges[w] > 0})
        /\ pair.count = Cardinality(Loop!Occurrences(Noted(pair)))
    <3> HIDE DEF pair
    <3> QED BY <2>3 DEF TotalsRight, WordsWith, Total, NotedBy, Noted
  <2>5. QED
    BY <2>2, <2>4
<1>5. QED
  BY <1>2, <1>4 DEF RegistryKeepsUp

-----------------------------------------------------------------------------
(* The master's steps: no thread is at work before or after.               *)

LEMMA ChainKept ==
    ASSUME UNCHANGED <<splits, chain>>
    PROVE  /\ Position' = Position /\ Live' = Live /\ Key' = Key
           /\ ChainSound => ChainSound'
<1>1. Position' = Position
  BY PositionsFixed
<1>2. /\ token' = token /\ alive' = alive /\ next' = next /\ previous' = previous
      /\ splits' = splits
  BY DEF chain
<1>3. Live' = Live
  BY <1>1, <1>2 DEF Live, Loop!is_live
<1>4. Key' = Key
  BY <1>2, <1>3 DEF Key
<1>5. ChainSound => ChainSound'
  BY <1>1, <1>2 DEF ChainSound
<1>6. QED
  BY <1>1, <1>3, <1>4, <1>5

LEMMA IdleThreads ==
    ASSUME WordsApart, phase # "surgery"
    PROVE  \A t \in Threads : stage[t] = "idle" /\ word[t] = 0
BY DEF WordsApart

LEMMA RegisteredIdle ==
    ASSUME \A t \in Threads : stage[t] = "idle"
    PROVE  Registered = {p \in Live : Behind(p)}
<1>1. \A t \in Threads : Touched(t) = {}
  BY DEF Touched
<1>2. QED
  BY <1>1 DEF Registered

LEMMA RegisteredIdleNext ==
    ASSUME \A t \in Threads : stage'[t] = "idle"
    PROVE  Registered' = {p \in Live' : Behind(p)'}
<1>1. \A t \in Threads : Touched(t)' = {}
  BY DEF Touched
<1>2. QED
  BY <1>1 DEF Registered

LEMMA MainKept ==
    ASSUME LInv, UNCHANGED <<splits, chain, word, held, stage>>, phase # "surgery",
           phase' \in {"build", "pop", "surgery", "replay", "done"},
           active_words' \subseteq DOMAIN splits, positions' \in Seq(Position),
           vocabulary' \in Seq(Seq(Nat)), Len(vocabulary) <= Len(vocabulary'),
           BuildSound', StatesKnown', BookTyped(book', Len(vocabulary')),
           Describes(book', {p \in Live : Behind(p)'}, Key)
    PROVE  LInv'
<1>1. StateTyped /\ ChainSound /\ WordsApart
  BY DEF LInv
<1>2. \A t \in Threads : stage[t] = "idle" /\ word[t] = 0
  BY <1>1, IdleThreads
<1>3. Position' = Position /\ Live' = Live /\ Key' = Key /\ ChainSound' /\ Links' = Links
  BY <1>1, ChainKept, PositionsFixed
<1>4. StateTyped'
  <2>1. Len(vocabulary) \in Nat /\ Len(vocabulary') \in Nat
    BY <1>1 DEF StateTyped
  <2>2. \A p \in Position : alive[p] => token[p] \in 1..Len(vocabulary')
    BY <1>1, <2>1 DEF StateTyped
  <2>3. QED
    BY <1>1, <1>3, <2>2 DEF StateTyped, chain
<1>5. WordsApart'
  BY <1>1, <1>2 DEF WordsApart, Threads
<1>6. HeldSound'
  BY <1>2 DEF HeldSound, Threads
<1>7. Registered' = {p \in Live : Behind(p)'}
  BY <1>2, <1>3, RegisteredIdleNext
<1>8. BookSound'
  <2> DEFINE R == {p \in Live : Behind(p)'}
             V == Len(vocabulary')
  <2>1. /\ UNCHANGED splits /\ BookTyped(book', V) /\ Describes(book', R, Key)
        /\ Len(vocabulary)' = V /\ Registered' = R /\ \A p \in R : Key'[p] = Key[p]
    BY <1>3, <1>7
  <2> HIDE DEF R, V
  <2>2. QED
    BY ONLY <2>1, BookSoundNext
<1>9. QED
  BY <1>3, <1>4, <1>5, <1>6, <1>8 DEF LInv

\* The registry is the same.
LEMMA BookKept ==
    ASSUME LInv, UNCHANGED book, phase # "surgery",
           phase # "build" /\ phase' # "build"
    PROVE  /\ BookTyped(book', Len(vocabulary))
           /\ Describes(book', {p \in Live : Behind(p)'}, Key)
<1>1. BookTyped(book, Len(vocabulary)) /\ Describes(book, Registered, Key) /\ WordsApart
  BY DEF LInv, BookSound
<1>2. Registered = {p \in Live : Behind(p)}
  BY <1>1, IdleThreads, RegisteredIdle
<1>3. {p \in Live : Behind(p)'} = {p \in Live : Behind(p)}
  BY DEF Behind
<1> DEFINE R == {p \in Live : Behind(p)'}
<1>4. Registered = R
  BY <1>2, <1>3
<1> HIDE DEF R
<1>5. Describes(book', R, Key)
  BY <1>1, <1>4
<1>6. QED
  BY <1>1, <1>5 DEF R

\* The iterations that only look at the queue.
LEMMA QueueOnly ==
    ASSUME LInv, phase = "pop", phase' \in {"pop", "done"},
           UNCHANGED <<splits, chain, vocabulary, book, positions, active_words, word, held, stage>>,
           \A e \in queue' : e.state \in DOMAIN book.pairs
    PROVE  LInv'
<1>1. StateTyped /\ WordsApart
  BY DEF LInv
<1>2. BuildSound' /\ StatesKnown'
  BY DEF BuildSound, StatesKnown
<1>3. /\ BookTyped(book', Len(vocabulary))
      /\ Describes(book', {p \in Live : Behind(p)'}, Key)
  BY BookKept
<1>4. BookTyped(book', Len(vocabulary'))
  BY <1>3
<1>5. vocabulary' \in Seq(Seq(Nat)) /\ Len(vocabulary) <= Len(vocabulary')
  BY <1>1 DEF StateTyped
<1>6. active_words' \subseteq DOMAIN splits /\ positions' \in Seq(Position)
  BY <1>1 DEF StateTyped, WordsApart
<1>7. QED
  BY <1>2, <1>3, <1>4, <1>5, <1>6, MainKept

LEMMA PopIneligibleInv == LInv /\ Loop!PopIneligible /\ UNCHANGED stage => LInv'
<1> SUFFICES ASSUME LInv, Loop!PopIneligible, UNCHANGED stage PROVE LInv'
  OBVIOUS
<1>1. queue' \subseteq queue /\ phase = "pop"
      /\ UNCHANGED <<splits, chain, vocabulary, book, positions, active_words, word, held, stage, phase>>
  BY DEF Loop!PopIneligible, Loop!chain, Loop!thread, chain
<1>2. QED
  BY <1>1, QueueOnly DEF LInv, StatesKnown

LEMMA PopOutdatedInv == LInv /\ Loop!PopOutdated /\ UNCHANGED stage => LInv'
<1> SUFFICES ASSUME LInv, Loop!PopOutdated, UNCHANGED stage PROVE LInv'
  OBVIOUS
<1>1. phase = "pop"
      /\ UNCHANGED <<splits, chain, vocabulary, book, positions, active_words, word, held, stage, phase>>
  BY DEF Loop!PopOutdated, Loop!chain, Loop!thread, chain
<1>2. \A e \in queue' : e.state \in DOMAIN book.pairs
  <2>1. PICK e \in Loop!Top : queue' = (queue \ {e}) \cup {Loop!Entry(e.state)}
    BY DEF Loop!PopOutdated
  <2>2. e \in queue
    BY DEF Loop!Top
  <2>3. Loop!Entry(e.state).state = e.state
    BY DEF Loop!Entry
  <2>4. \A f \in queue : f.state \in DOMAIN book.pairs
    BY DEF LInv, StatesKnown
  <2>5. QED
    BY <2>1, <2>2, <2>3, <2>4
<1>3. QED
  BY <1>1, <1>2, QueueOnly

LEMMA FinishInv == LInv /\ Loop!Finish /\ UNCHANGED stage => LInv'
<1> SUFFICES ASSUME LInv, Loop!Finish, UNCHANGED stage PROVE LInv'
  OBVIOUS
<1>1. phase = "pop" /\ phase' = "done" /\ queue' = queue
      /\ UNCHANGED <<splits, chain, vocabulary, book, positions, active_words, word, held, stage>>
  BY DEF Loop!Finish, Loop!chain, Loop!thread, chain
<1>2. QED
  BY <1>1, QueueOnly DEF LInv, StatesKnown

\* The list of newborns is emptied.
LEMMA BornForgotten ==
    ASSUME NEW V, NEW R, NEW K, NEW b, BookTyped(b, V), Describes(b, R, K),
           NEW d, d = [b EXCEPT !.born = << >>]
    PROVE  BookTyped(d, V) /\ Describes(d, R, K) /\ d.pairs = b.pairs
<1> DEFINE S == Seq(PairSet)
           B == Seq(Nat)
<1>1. b \in [pairs : S, born : B, aborted : BOOLEAN] /\ ~b.aborted /\ << >> \in B
  BY DEF BookTyped
<1> HIDE DEF S, B
<1>2. d \in [pairs : S, born : B, aborted : BOOLEAN] /\ ~d.aborted /\ d.pairs = b.pairs
  BY <1>1
<1>3. QED
  BY <1>2 DEF BookTyped, Describes, S, B

\* The queue is filled and the list of newborns is emptied.
LEMMA Refilled ==
    ASSUME LInv, phase \in {"build", "replay"}, phase' = "pop",
           UNCHANGED <<splits, chain, vocabulary, positions, active_words, word, held, stage>>,
           phase = "build" => cursor[1] \notin DOMAIN splits,
           book' = [book EXCEPT !.born = << >>],
           \A e \in queue' : e.state \in DOMAIN book.pairs
    PROVE  LInv'
<1>1. StateTyped /\ ChainSound /\ WordsApart /\ BookTyped(book, Len(vocabulary)) /\ Describes(book, Registered, Key)
  BY DEF LInv, BookSound
<1>2. Registered = {p \in Live : Behind(p)}
  BY <1>1, IdleThreads, RegisteredIdle
<1>3. {p \in Live : Behind(p)'} = Live
  BY DEF Behind
<1>4. {p \in Live : Behind(p)} = Live
  <2>1. CASE phase = "build"
    <3>1. cursor \in Position \/ cursor = <<Len(splits) + 1, 1>>
      BY <2>1 DEF LInv, BuildSound
    <3>2. cursor[1] = Len(splits) + 1
      BY <1>1, <2>1, <3>1, PositionsTyped DEF StateTyped
    <3>3. \A p \in Live : p[1] \in 1..Len(splits) /\ Len(splits) \in Nat
      BY <1>1, LiveFacts, PositionsTyped DEF StateTyped
    <3>4. QED
      BY <3>2, <3>3 DEF Behind
  <2>2. QED
    BY <2>1 DEF Behind
<1>5. /\ BookTyped(book', Len(vocabulary)) /\ Describes(book', Live, Key)
      /\ book'.pairs = book.pairs
  <2>1. Describes(book, Live, Key)
    BY <1>1, <1>2, <1>4
  <2> DEFINE V == Len(vocabulary)
             R == Live
             K == Key
             b == book
             d == book'
  <2>2. BookTyped(b, V) /\ Describes(b, R, K) /\ d = [b EXCEPT !.born = << >>]
    BY <1>1, <2>1
  <2> HIDE DEF V, R, K, b, d
  <2>3. BookTyped(d, V) /\ Describes(d, R, K) /\ d.pairs = b.pairs
    BY ONLY <2>2, BornForgotten
  <2>4. QED
    BY <2>3 DEF V, R, K, b, d
<1>6. BuildSound' /\ StatesKnown'
  BY <1>5 DEF BuildSound, StatesKnown
<1>7. /\ vocabulary' \in Seq(Seq(Nat)) /\ Len(vocabulary) <= Len(vocabulary')
      /\ active_words' \subseteq DOMAIN splits /\ positions' \in Seq(Position)
  BY <1>1 DEF StateTyped, WordsApart
<1>8. /\ BookTyped(book', Len(vocabulary'))
      /\ Describes(book', {p \in Live : Behind(p)'}, Key)
  BY <1>3, <1>5
<1>9. QED
  BY <1>6, <1>7, <1>8, MainKept

LEMMA StartMergingInv == LInv /\ Loop!StartMerging /\ UNCHANGED stage => LInv'
<1> SUFFICES ASSUME LInv, Loop!StartMerging, UNCHANGED stage PROVE LInv'
  OBVIOUS
<1>1. /\ phase = "build" /\ phase' = "pop" /\ cursor[1] \notin DOMAIN splits
      /\ book' = [book EXCEPT !.born = << >>]
      /\ UNCHANGED <<splits, chain, vocabulary, positions, active_words, word, held, stage>>
  BY DEF Loop!StartMerging, Loop!chain, Loop!thread, chain
<1>2. \A e \in queue' : e.state \in DOMAIN book.pairs
  BY DEF Loop!StartMerging, Loop!Entry
<1>3. QED
  BY <1>1, <1>2, Refilled

LEMMA EndRoundInv == LInv /\ Loop!EndRound /\ UNCHANGED stage => LInv'
<1> SUFFICES ASSUME LInv, Loop!EndRound, UNCHANGED stage PROVE LInv'
  OBVIOUS
<1>1. /\ phase = "replay" /\ phase' = "pop"
      /\ book' = [book EXCEPT !.born = << >>]
      /\ UNCHANGED <<splits, chain, vocabulary, positions, active_words, word, held, stage>>
  BY DEF Loop!EndRound, Loop!RoundProcessed, Loop!chain, Loop!thread, chain, LInv, StateTyped
<1>2. \A e \in queue' : e.state \in DOMAIN book.pairs
  BY DEF Loop!EndRound, Loop!Entry, LInv, StatesKnown
<1>3. QED
  BY <1>1, <1>2, Refilled

-----------------------------------------------------------------------------
(* build_state and the choice of a pair.                                   *)

LEMMA InitInv == Init => LInv
<1> SUFFICES ASSUME Init PROVE LInv
  OBVIOUS
<1>0. /\ splits \in Corpora
      /\ token = [p \in Position |-> IF p[2] <= Len(splits[p[1]].chars)
                                     THEN splits[p[1]].chars[p[2]] ELSE 0]
      /\ alive = [p \in Position |-> p[2] <= Len(splits[p[1]].chars)]
      /\ next = [p \in Position |-> IF p[2] <= Len(splits[p[1]].chars)
                                    THEN <<p[1], p[2] + 1>> ELSE no_position]
      /\ previous = [p \in Position |-> IF p[2] = 1 THEN no_position
                                        ELSE <<p[1], p[2] - 1>>]
      /\ vocabulary = [v \in 1..byte_max |-> <<v>>]
      /\ queue = {}
      /\ phase = "build"
      /\ cursor = <<1, 1>>
      /\ positions = << >>
      /\ word = [t \in Threads |-> 0]
      /\ held = [t \in Threads |-> no_position]
  BY DEF Init, Loop!InitInput, Position, Threads, Loop!Threads
<1>1. /\ book = [pairs |-> << >>, born |-> << >>, aborted |-> FALSE]
      /\ active_words = {} /\ stage = [t \in Threads |-> "idle"]
  BY DEF Init
<1>2. /\ splits \in Seq([chars : Seq(1..byte_max), count : Nat])
      /\ DOMAIN splits = 1..Len(splits) /\ Len(splits) \in Nat
      /\ \A w \in DOMAIN splits : Len(splits[w].chars) \in Nat
      /\ \A p \in Position : /\ p = <<p[1], p[2]>>
                             /\ p[1] \in DOMAIN splits
                             /\ p[2] \in 1..(Len(splits[p[1]].chars) + 1)
      /\ \A w, i : <<w, i>> \in Position <=> /\ w \in DOMAIN splits
                                             /\ i \in 1..(Len(splits[w].chars) + 1)
      /\ no_position \notin Position
  BY <1>0, PositionsTyped
<1>3. \A p \in Position : p[2] <= Len(splits[p[1]].chars) => splits[p[1]].chars[p[2]] \in 1..byte_max
  <2> TAKE p \in Position
  <2> HAVE p[2] <= Len(splits[p[1]].chars)
  <2>1. splits[p[1]] \in [chars : Seq(1..byte_max), count : Nat]
    <3> DEFINE S == [chars : Seq(1..byte_max), count : Nat]
    <3>1. splits \in Seq(S) /\ p[1] \in DOMAIN splits
      BY <1>2
    <3> HIDE DEF S
    <3>2. splits[p[1]] \in S
      BY <3>1
    <3>3. QED
      BY <3>2 DEF S
  <2> DEFINE S     == 1..byte_max
             chars == splits[p[1]].chars
             i     == p[2]
  <2>2. chars \in Seq(S)
    BY <2>1
  <2>3. i \in 1..Len(chars)
    <3> DEFINE n == Len(chars)
    <3>1. p[1] \in DOMAIN splits /\ i \in 1..(n + 1)
      BY <1>2
    <3>2. n \in Nat /\ i <= n
      BY <1>2, <3>1
    <3> HIDE DEF n, i, chars
    <3>3. i \in 1..n
      BY <3>1, <3>2
    <3>4. QED
      BY <3>3 DEF n
  <2> HIDE DEF S, chars, i
  <2>4. chars[i] \in S
    BY <2>2, <2>3
  <2>5. QED
    BY <2>4 DEF S, chars, i
<1>4. \A p \in Position : p[2] <= Len(splits[p[1]].chars) =>
         /\ <<p[1], p[2] + 1>> \in Position /\ p[2] \in Nat
  <2> TAKE p \in Position
  <2> HAVE p[2] <= Len(splits[p[1]].chars)
  <2> DEFINE n == Len(splits[p[1]].chars)
             i == p[2]
             w == p[1]
  <2>1. w \in DOMAIN splits /\ n \in Nat /\ i \in 1..(n + 1) /\ i <= n
    BY <1>2
  <2>2. <<w, i + 1>> \in Position <=> w \in DOMAIN splits /\ i + 1 \in 1..(n + 1)
    BY <1>2
  <2> HIDE DEF n, i, w
  <2>3. i + 1 \in 1..(n + 1) /\ i \in Nat
    BY <2>1
  <2>4. QED
    BY <2>1, <2>2, <2>3 DEF i, w
<1>5. \A p \in Position : p[2] # 1 => <<p[1], p[2] - 1>> \in Position /\ p[2] - 1 <= Len(splits[p[1]].chars)
  <2> TAKE p \in Position
  <2> HAVE p[2] # 1
  <2> DEFINE n == Len(splits[p[1]].chars)
             i == p[2]
             w == p[1]
  <2>1. w \in DOMAIN splits /\ n \in Nat /\ i \in 1..(n + 1) /\ i # 1
    BY <1>2
  <2>2. <<w, i - 1>> \in Position <=> w \in DOMAIN splits /\ i - 1 \in 1..(n + 1)
    BY <1>2
  <2> HIDE DEF n, i, w
  <2>3. i - 1 \in 1..(n + 1) /\ i - 1 <= n
    BY <2>1
  <2>4. QED
    BY <2>1, <2>2, <2>3 DEF n, i, w
<1>6. vocabulary \in Seq(Seq(Nat)) /\ Len(vocabulary) = byte_max
  <2>1. byte_max \in Nat
    BY ByteAssumption
  <2>2. \A v \in 1..byte_max : <<v>> \in Seq(Nat)
    BY <2>1
  <2>3. QED
    BY <1>0, <2>1, <2>2
<1>7. StateTyped
  <2>1. token \in [Position -> Nat]
    BY <1>0, <1>3, ByteAssumption
  <2>2. alive \in [Position -> BOOLEAN] /\ next \in [Position -> Links] /\ previous \in [Position -> Links]
    BY <1>0, <1>4, <1>5 DEF Links
  <2>3. \A p \in Position : alive[p] => token[p] \in 1..Len(vocabulary)
    BY <1>0, <1>3, <1>6
  <2>4. positions \in Seq(Position) /\ DOMAIN held = Threads /\ phase \in {"build", "pop", "surgery", "replay", "done"}
    BY <1>0
  <2>5. QED
    BY <1>0, <1>6, <2>1, <2>2, <2>3, <2>4 DEF StateTyped
<1>8. ChainSound
  <2>1. ASSUME NEW p \in Position, alive[p]
        PROVE  /\ next[p] \in Position /\ next[p][1] = p[1] /\ p[2] < next[p][2]
               /\ previous[next[p]] = p
    <3>1. p[2] <= Len(splits[p[1]].chars) /\ next[p] = <<p[1], p[2] + 1>> /\ next[p] \in Position
          /\ p[2] \in Nat \ {0}
      <4>1. p[2] <= Len(splits[p[1]].chars)
        BY <1>0, <2>1
      <4>2. p[2] \in Nat \ {0}
        BY <1>2
      <4>3. QED
        BY <1>0, <1>4, <4>1, <4>2
    <3>2. next[p][2] # 1 /\ previous[next[p]] = <<p[1], (p[2] + 1) - 1>>
      BY <1>0, <3>1
    <3>3. <<p[1], (p[2] + 1) - 1>> = p
      BY <1>2, <3>1
    <3>4. QED
      BY <3>1, <3>2, <3>3
  <2>2. ASSUME NEW p \in Position, previous[p] # no_position
        PROVE  previous[p] \in Position /\ alive[previous[p]] /\ next[previous[p]] = p
    <3>1. p[2] # 1 /\ previous[p] = <<p[1], p[2] - 1>> /\ p[2] \in Nat
      BY <1>0, <1>2, <2>2
    <3>2. previous[p] \in Position /\ p[2] - 1 <= Len(splits[p[1]].chars)
      BY <1>5, <3>1
    <3>3. alive[previous[p]] /\ next[previous[p]] = <<p[1], (p[2] - 1) + 1>>
      BY <1>0, <3>1, <3>2
    <3>4. <<p[1], (p[2] - 1) + 1>> = p
      BY <1>2, <3>1
    <3>5. QED
      BY <3>2, <3>3, <3>4
  <2>3. QED
    BY <2>1, <2>2 DEF ChainSound
<1>9. WordsApart /\ HeldSound
  BY <1>0, <1>1 DEF WordsApart, HeldSound
<1>10. BuildSound
  <2>1. cursor \in Position \/ cursor = <<Len(splits) + 1, 1>>
    <3>1. CASE Len(splits) = 0
      BY <1>0, <3>1
    <3>2. CASE Len(splits) # 0
      <4>1. 1 \in DOMAIN splits /\ 1 \in 1..(Len(splits[1].chars) + 1)
        BY <1>2, <3>2
      <4>2. QED
        BY <1>0, <1>2, <4>1
    <3>3. QED
      BY <3>1, <3>2
  <2>2. \A p \in Position : /\ alive[p] <=> p[2] <= Len(splits[p[1]].chars)
                            /\ alive[p] => next[p] = <<p[1], p[2] + 1>>
    BY <1>0
  <2>3. QED
    BY <2>1, <2>2 DEF BuildSound
<1>11. StatesKnown
  BY <1>0 DEF StatesKnown
<1>12. BookSound
  <2>1. BookTyped(book, Len(vocabulary))
    <3> DEFINE S == Seq(PairSet)
               B == Seq(Nat)
    <3>1. << >> \in S /\ << >> \in B
      OBVIOUS
    <3> HIDE DEF S, B
    <3>2. book \in [pairs : S, born : B, aborted : BOOLEAN] /\ ~book.aborted /\ book.pairs = << >>
      BY <1>1, <3>1
    <3>3. QED
      BY <3>2 DEF BookTyped, KeysIn, S, B
  <2>2. Registered = {}
    <3>1. Registered = {p \in Live : Behind(p)}
      BY <1>1, RegisteredIdle
    <3>2. \A p \in Live : p[1] \in Nat \ {0} /\ p[2] \in Nat \ {0}
      BY <1>2, <1>7, <1>8, LiveFacts
    <3>3. \A p \in Live : ~Behind(p)
      BY <1>0, <3>2 DEF Behind
    <3>4. QED
      BY <3>1, <3>3
  <2>3. DOMAIN book.pairs = {}
    BY <1>1
  <2>4. QED
    BY <2>1, <2>2, <2>3 DEF BookSound, Describes
<1>13. QED
  BY <1>7, <1>8, <1>9, <1>10, <1>11, <1>12 DEF LInv

LEMMA BuildNextWordInv == LInv /\ Loop!BuildNextWord /\ UNCHANGED stage => LInv'
<1> SUFFICES ASSUME LInv, Loop!BuildNextWord, UNCHANGED stage PROVE LInv'
  OBVIOUS
<1>1. /\ phase = "build" /\ cursor[1] \in DOMAIN splits /\ ~alive[cursor]
      /\ cursor' = <<cursor[1] + 1, 1>>
      /\ UNCHANGED <<splits, chain, vocabulary, book, queue, phase, best, positions, active_words,
                     word, held, stage>>
  BY DEF Loop!BuildNextWord, Loop!chain, Loop!thread, chain
<1>2. StateTyped /\ ChainSound /\ WordsApart /\ BookTyped(book, Len(vocabulary)) /\ Describes(book, Registered, Key)
  BY DEF LInv, BookSound
<1>3. Registered = {p \in Live : Behind(p)}
  BY <1>1, <1>2, IdleThreads, RegisteredIdle
<1>4. /\ splits \in Seq([chars : Seq(1..byte_max), count : Nat])
      /\ DOMAIN splits = 1..Len(splits) /\ Len(splits) \in Nat
      /\ \A w \in DOMAIN splits : Len(splits[w].chars) \in Nat
      /\ \A p \in Position : /\ p = <<p[1], p[2]>>
                             /\ p[1] \in DOMAIN splits
                             /\ p[2] \in 1..(Len(splits[p[1]].chars) + 1)
      /\ \A w, i : <<w, i>> \in Position <=> /\ w \in DOMAIN splits
                                             /\ i \in 1..(Len(splits[w].chars) + 1)
  BY <1>2, PositionsTyped DEF StateTyped
<1>5. /\ cursor \in Position \/ cursor = <<Len(splits) + 1, 1>>
      /\ \A p \in Position : /\ alive[p] <=> p[2] <= Len(splits[p[1]].chars)
                             /\ alive[p] => next[p] = <<p[1], p[2] + 1>>
  BY <1>1 DEF LInv, BuildSound
<1>6. cursor \in Position
  BY <1>1, <1>4, <1>5
<1>7. cursor[2] = Len(splits[cursor[1]].chars) + 1 /\ cursor[1] \in 1..Len(splits)
  <2> DEFINE n == Len(splits[cursor[1]].chars)
             i == cursor[2]
             w == cursor[1]
  <2>1. n \in Nat /\ i \in 1..(n + 1) /\ ~(i <= n) /\ w \in 1..Len(splits)
    BY <1>1, <1>4, <1>5, <1>6
  <2> HIDE DEF n, i, w
  <2>2. i = n + 1
    BY ONLY <2>1
  <2>3. QED
    BY <2>1, <2>2 DEF n, i, w
<1>8. {p \in Live : Behind(p)'} = Registered
  <2>1. \A p \in Live : p[1] \in Nat /\ p[2] \in Nat \ {0} /\ p[2] <= Len(splits[p[1]].chars)
                        /\ Len(splits[p[1]].chars) \in Nat
    BY <1>2, <1>4, <1>5, LiveFacts
  <2>2. \A p \in Live : Behind(p)' <=> Behind(p)
    BY <1>1, <1>7, <2>1 DEF Behind
  <2>3. QED
    BY <1>3, <2>2
<1>9. BuildSound'
  <2>1. cursor' \in Position \/ cursor' = <<Len(splits) + 1, 1>>
    <3>1. CASE cursor[1] = Len(splits)
      <4>1. cursor' = <<cursor[1] + 1, 1>>
        BY <1>1
      <4> DEFINE n == Len(splits)
      <4>2. cursor[1] = n
        BY <3>1
      <4> HIDE DEF n
      <4>3. cursor' = <<n + 1, 1>>
        BY ONLY <4>1, <4>2
      <4>4. QED
        BY <4>3 DEF n
    <3>2. CASE cursor[1] # Len(splits)
      <4> DEFINE n == Len(splits)
                 i == cursor[1]
                 m == Len(splits[i + 1].chars)
      <4>1. DOMAIN splits = 1..n /\ n \in Nat /\ i \in 1..n /\ i # n
        BY <1>4, <1>7, <3>2
      <4>2. i + 1 \in DOMAIN splits => m \in Nat
        BY <1>4
      <4>3. <<i + 1, 1>> \in Position <=> i + 1 \in DOMAIN splits /\ 1 \in 1..(m + 1)
        BY <1>4
      <4>4. cursor' = <<i + 1, 1>>
        BY <1>1
      <4> HIDE DEF n, i, m
      <4>5. i + 1 \in DOMAIN splits
        BY ONLY <4>1
      <4>6. 1 \in 1..(m + 1)
        BY ONLY <4>2, <4>5
      <4>7. QED
        BY <4>3, <4>4, <4>5, <4>6
    <3>3. QED
      BY <3>1, <3>2
  <2>2. Position' = Position /\ alive' = alive /\ next' = next /\ splits' = splits
    BY <1>1, PositionsFixed DEF chain
  <2>3. QED
    BY <1>5, <2>1, <2>2 DEF BuildSound
<1>10. StatesKnown'
  BY <1>1 DEF LInv, StatesKnown
<1>11. /\ vocabulary' \in Seq(Seq(Nat)) /\ Len(vocabulary) <= Len(vocabulary')
       /\ active_words' \subseteq DOMAIN splits /\ positions' \in Seq(Position)
  BY <1>1, <1>2 DEF StateTyped, WordsApart
<1>12. /\ BookTyped(book', Len(vocabulary'))
       /\ Describes(book', {p \in Live : Behind(p)'}, Key)
  BY <1>1, <1>2, <1>8
<1>13. phase' \in {"build", "pop", "surgery", "replay", "done"} /\ phase # "surgery"
  BY <1>1
<1>14. UNCHANGED <<splits, chain, word, held, stage>>
  BY <1>1
<1>15. QED
  BY <1>9, <1>10, <1>11, <1>12, <1>13, <1>14, MainKept

LEMMA BuildPositionInv == LInv /\ BuildPosition /\ UNCHANGED stage => LInv'
<1> SUFFICES ASSUME LInv, BuildPosition, UNCHANGED stage PROVE LInv'
  OBVIOUS
<1> DEFINE c == cursor
           V == Len(vocabulary)
           l == token[c]
           r == token[next[c]]
<1>1. /\ phase = "build" /\ c[1] \in DOMAIN splits /\ alive[c]
      /\ cursor' = next[c]
      /\ book' = IF Loop!is_live(next[c])
                 THEN add_edge_v2(book, l, r, c[1], c, Loop!Frequency(c)) ELSE book
      /\ UNCHANGED <<splits, chain, vocabulary, queue, phase, best, positions, active_words,
                     word, held, stage>>
  BY DEF BuildPosition
<1>2. StateTyped /\ ChainSound /\ WordsApart /\ BookTyped(book, V) /\ Describes(book, Registered, Key)
  BY DEF LInv, BookSound
<1>3. Registered = {p \in Live : Behind(p)}
  BY <1>1, <1>2, IdleThreads, RegisteredIdle
<1>4. /\ DOMAIN splits = 1..Len(splits) /\ Len(splits) \in Nat
      /\ \A w \in DOMAIN splits : Len(splits[w].chars) \in Nat
      /\ \A p \in Position : /\ p = <<p[1], p[2]>>
                             /\ p[1] \in DOMAIN splits
                             /\ p[2] \in 1..(Len(splits[p[1]].chars) + 1)
      /\ splits \in Corpora
  BY <1>2, PositionsTyped DEF StateTyped
<1>5. /\ c \in Position \/ c = <<Len(splits) + 1, 1>>
      /\ \A p \in Position : /\ alive[p] <=> p[2] <= Len(splits[p[1]].chars)
                             /\ alive[p] => next[p] = <<p[1], p[2] + 1>>
  BY <1>1 DEF LInv, BuildSound
<1>6. c \in Position
  BY <1>1, <1>4, <1>5
<1>7. cursor' = <<c[1], c[2] + 1>> /\ next[c] \in Position /\ c[2] \in Nat /\ c[1] \in Nat
  BY <1>1, <1>2, <1>4, <1>5, <1>6 DEF ChainSound
<1>8. \A p \in Live : Behind(p)' <=> (Behind(p) \/ p = c)
  <2> TAKE p \in Live
  <2>1. p \in Position
    BY <1>2, LiveFacts
  <2>2. p = <<p[1], p[2]>> /\ c = <<c[1], c[2]>> /\ p[1] \in Nat /\ p[2] \in Nat
    BY <1>4, <1>6, <2>1
  <2>3. p = c <=> p[1] = c[1] /\ p[2] = c[2]
    BY <2>2
  <2> HIDE DEF c
  <2>4. Behind(p) <=> p[1] < c[1] \/ (p[1] = c[1] /\ p[2] < c[2])
    BY <1>1 DEF Behind, c
  <2>5. Behind(p)' <=> p[1] < c[1] \/ (p[1] = c[1] /\ p[2] < c[2] + 1)
    BY <1>1, <1>7 DEF Behind
  <2>6. QED
    BY <1>7, <2>2, <2>3, <2>4, <2>5
<1>9. c \notin Registered
  BY <1>1, <1>3, <1>7 DEF Behind
<1>10. /\ BookTyped(book', V) /\ Describes(book', {p \in Live : Behind(p)'}, Key)
       /\ Continues(book, book')
  <2>1. CASE Loop!is_live(next[c])
    <3>1. c \in Live
      BY <1>1, <1>6, <2>1 DEF Live
    <3>2. l \in 1..V /\ r \in 1..V /\ Key[c] = <<l, r>> /\ V \in Nat
      BY <1>2, <3>1, LiveFacts DEF StateTyped
    <3>3. {p \in Live : Behind(p)'} = Registered \cup {c}
      BY <1>3, <1>8, <3>1
    <3>4. Registered \in SUBSET Position
      BY <1>2, LiveFacts
    <3> DEFINE R == Registered
               K == Key
               b == book
               d == book'
               w == c[1]
               f == Loop!Frequency(c)
    <3>5. d = add_edge_v2(b, l, r, w, c, f)
      BY <1>1, <2>1
    <3>6. /\ splits \in Corpora /\ V \in Nat /\ BookTyped(b, V) /\ R \in SUBSET Position
          /\ Describes(b, R, K) /\ c \in Position /\ c \notin R /\ l \in 1..V /\ r \in 1..V
          /\ K[c] = <<l, r>> /\ w = c[1] /\ f = Loop!Frequency(c)
      BY <1>2, <1>4, <1>6, <1>9, <3>2, <3>4
    <3> HIDE DEF R, K, b, d, w, f, l, r, V, c
    <3>7. BookTyped(d, V) /\ Describes(d, R \cup {c}, K) /\ Continues(b, d)
      BY ONLY <3>5, <3>6, AddOne
    <3>8. QED
      BY <3>3, <3>7 DEF R, K, b, d
  <2>2. CASE ~Loop!is_live(next[c])
    <3>1. c \notin Live
      BY <2>2 DEF Live
    <3>2. {p \in Live : Behind(p)'} = Registered
      BY <1>3, <1>8, <3>1
    <3>3. QED
      BY <1>1, <1>2, <2>2, <3>2 DEF Continues
  <2>3. QED
    BY <2>1, <2>2
<1>11. BuildSound'
  <2>1. Position' = Position /\ alive' = alive /\ next' = next /\ splits' = splits
    BY <1>1, PositionsFixed DEF chain
  <2>2. QED
    BY <1>1, <1>5, <1>7, <2>1 DEF BuildSound
<1>12. StatesKnown'
  BY <1>1, <1>10 DEF LInv, StatesKnown, Continues
<1>13. /\ vocabulary' \in Seq(Seq(Nat)) /\ Len(vocabulary) <= Len(vocabulary')
       /\ active_words' \subseteq DOMAIN splits /\ positions' \in Seq(Position)
  BY <1>1, <1>2 DEF StateTyped, WordsApart
<1>14. /\ BookTyped(book', Len(vocabulary'))
       /\ Describes(book', {p \in Live : Behind(p)'}, Key)
  BY <1>1, <1>10
<1>15. phase' \in {"build", "pop", "surgery", "replay", "done"} /\ phase # "surgery"
  BY <1>1
<1>16. UNCHANGED <<splits, chain, word, held, stage>>
  BY <1>1
<1>17. QED
  BY <1>11, <1>12, <1>13, <1>14, <1>15, <1>16, MainKept

\* The pair's positions are moved out.
LEMMA ListTaken ==
    ASSUME NEW V \in Nat, NEW R, NEW K, NEW b, BookTyped(b, V), Describes(b, R, K),
           NEW s \in DOMAIN b.pairs,
           NEW d, d = [b EXCEPT !.pairs[s].positions = << >>]
    PROVE  BookTyped(d, V + 1) /\ Describes(d, R, K) /\ DOMAIN d.pairs = DOMAIN b.pairs
<1> DEFINE pair  == b.pairs[s]
           new   == [pair EXCEPT !.positions = << >>]
           pairs == [b.pairs EXCEPT ![s] = new]
<1>1. b.pairs \in Seq(PairSet) /\ b.born \in Seq(Nat) /\ pair \in PairSet
  BY BookShape
<1>2. d = Replaced(b, pairs, b.born)
  <2>1. d = [b EXCEPT !.pairs = pairs]
    OBVIOUS
  <2> DEFINE S == Seq(PairSet)
             B == Seq(Nat)
  <2>2. b \in [pairs : S, born : B, aborted : BOOLEAN]
    BY DEF BookTyped
  <2> HIDE DEF S, B, pairs
  <2>3. QED
    BY <2>1, <2>2 DEF Replaced
<1>3. /\ new \in PairSet /\ new.key = pair.key /\ new.count = pair.count
      /\ new.word_count = pair.word_count /\ new.word_edges = pair.word_edges
  <2> DEFINE Q == Seq(Position)
  <2>1. pair \in [key : Nat \X Nat, count : Nat, word_count : Nat, positions : Q,
                  word_edges : Numbers] /\ << >> \in Q
    BY <1>1 DEF PairSet
  <2> HIDE DEF Q, pair
  <2>2. /\ new \in [key : Nat \X Nat, count : Nat, word_count : Nat, positions : Q,
                    word_edges : Numbers]
        /\ new.key = pair.key /\ new.count = pair.count
        /\ new.word_count = pair.word_count /\ new.word_edges = pair.word_edges
    BY <2>1
  <2>3. QED
    BY <2>2 DEF PairSet, Q
<1> HIDE DEF new
<1>4. /\ pairs \in Seq(PairSet) /\ DOMAIN pairs = DOMAIN b.pairs
      /\ pairs[s] = new /\ \A r \in DOMAIN b.pairs : r # s => pairs[r] = b.pairs[r]
  BY <1>1, <1>3
<1> HIDE DEF pairs
<1>5. \A r \in DOMAIN b.pairs :
         /\ pairs[r].key = b.pairs[r].key /\ pairs[r].count = b.pairs[r].count
         /\ pairs[r].word_count = b.pairs[r].word_count
         /\ pairs[r].word_edges = b.pairs[r].word_edges
  BY <1>3, <1>4
<1>6. KeysIn(pairs, V + 1)
  <2>1. \A r \in DOMAIN pairs : pairs[r].key \in (1..V) \X (1..V)
    BY <1>4, <1>5 DEF BookTyped, KeysIn
  <2>2. (1..V) \X (1..V) \subseteq (1..(V + 1)) \X (1..(V + 1))
    OBVIOUS
  <2>3. QED
    BY <2>1, <2>2 DEF KeysIn
<1>7. BookTyped(d, V + 1) /\ d.pairs = pairs
  <2> DEFINE W    == V + 1
             born == b.born
  <2>1. /\ BookTyped(b, V) /\ pairs \in Seq(PairSet) /\ born \in Seq(Nat) /\ KeysIn(pairs, W)
        /\ d = Replaced(b, pairs, born)
    BY <1>1, <1>2, <1>4, <1>6
  <2> HIDE DEF W, born
  <2>2. BookTyped(d, W) /\ d.pairs = pairs
    BY ONLY <2>1, BookReplaced
  <2>3. QED
    BY <2>2 DEF W
<1>8. Describes(d, R, K)
  <2>1. ASSUME NEW r \in DOMAIN b.pairs PROVE TotalsRight(b.pairs[r]) => TotalsRight(pairs[r])
    <3> DEFINE old == b.pairs[r]
               now == pairs[r]
    <3>1. /\ now.key = old.key /\ now.count = old.count /\ now.word_count = old.word_count
          /\ now.word_edges = old.word_edges
      BY <1>5
    <3> HIDE DEF old, now
    <3>2. TotalsRight(old) => TotalsRight(now)
      BY <3>1 DEF TotalsRight
    <3>3. QED
      BY <3>2 DEF old, now
  <2> DEFINE B == b.pairs
             D == d.pairs
  <2>2. /\ DOMAIN D = DOMAIN B
        /\ \A r \in DOMAIN B : /\ D[r].key = B[r].key /\ D[r].word_edges = B[r].word_edges
                               /\ TotalsRight(B[r]) => TotalsRight(D[r])
    BY <1>4, <1>5, <1>7, <2>1
  <2>3. /\ \A p \in R : \E r \in DOMAIN B : B[r].key = K[p]
        /\ \A q, r \in DOMAIN B : B[q].key = B[r].key => q = r
        /\ \A r \in DOMAIN B :
              /\ TotalsRight(B[r])
              /\ \A w \in DOMAIN splits : B[r].word_edges[w] = Cardinality(InWord(R, K, w, B[r].key))
    BY DEF Describes
  <2> HIDE DEF B, D
  <2>4. /\ \A p \in R : \E r \in DOMAIN D : D[r].key = K[p]
        /\ \A q, r \in DOMAIN D : D[q].key = D[r].key => q = r
    BY <2>2, <2>3
  <2>5. \A r \in DOMAIN D :
           /\ TotalsRight(D[r])
           /\ \A w \in DOMAIN splits : D[r].word_edges[w] = Cardinality(InWord(R, K, w, D[r].key))
    BY <2>2, <2>3
  <2>6. QED
    BY <2>4, <2>5 DEF Describes, D
<1>9. QED
  BY <1>4, <1>7, <1>8

LEMMA PopBestInv == LInv /\ PopBest /\ UNCHANGED stage => LInv'
<1> SUFFICES ASSUME LInv, PopBest, UNCHANGED stage PROVE LInv'
  OBVIOUS
<1>1. PICK e \in Loop!Top :
        /\ best' = e.state
        /\ queue' = queue \ {e}
        /\ positions' = book.pairs[e.state].positions
        /\ book' = [book EXCEPT !.pairs[e.state].positions = << >>]
        /\ vocabulary' = Append(vocabulary, vocabulary[book.pairs[e.state].key[1]]
                                              \o vocabulary[book.pairs[e.state].key[2]])
        /\ active_words' = {book.pairs[e.state].positions[k][1] :
                               k \in DOMAIN book.pairs[e.state].positions}
  BY DEF PopBest
<1>2. phase = "pop" /\ phase' = "surgery" /\ UNCHANGED <<splits, chain, word, held, stage>>
  BY DEF PopBest
<1> DEFINE s    == e.state
           pair == book.pairs[s]
           V    == Len(vocabulary)
<1>3. StateTyped /\ ChainSound /\ WordsApart /\ BookTyped(book, V) /\ Describes(book, Registered, Key)
  BY DEF LInv, BookSound
<1>4. e \in queue /\ s \in DOMAIN book.pairs /\ V \in Nat
  BY <1>3 DEF Loop!Top, LInv, StatesKnown, StateTyped
<1>5. pair \in PairSet /\ pair.key \in (1..V) \X (1..V)
  <2>1. \A i \in DOMAIN book.pairs : book.pairs[i] \in PairSet
    BY <1>3, BookShape
  <2>2. QED
    BY <1>3, <1>4, <2>1 DEF BookTyped, KeysIn
<1>6. pair.positions \in Seq(Position)
  <2> HIDE DEF pair
  <2> QED BY <1>5, PairFields
<1>7. vocabulary' \in Seq(Seq(Nat)) /\ Len(vocabulary') = V + 1
  <2> DEFINE text == vocabulary[pair.key[1]] \o vocabulary[pair.key[2]]
  <2>1. vocabulary \in Seq(Seq(Nat))
    BY <1>3 DEF StateTyped
  <2>2. vocabulary[pair.key[1]] \in Seq(Nat) /\ vocabulary[pair.key[2]] \in Seq(Nat)
    <3> DEFINE T == Seq(Nat)
    <3>1. vocabulary \in Seq(T) /\ pair.key[1] \in 1..V /\ pair.key[2] \in 1..V
      BY <1>5, <2>1
    <3> HIDE DEF T, pair
    <3>2. vocabulary[pair.key[1]] \in T /\ vocabulary[pair.key[2]] \in T
      BY <3>1
    <3>3. QED
      BY <3>2 DEF T
  <2>3. text \in Seq(Nat)
    BY <2>2
  <2>4. vocabulary' = Append(vocabulary, text)
    BY <1>1
  <2> HIDE DEF text
  <2>5. QED
    BY <2>1, <2>3, <2>4
<1>8. {p \in Live : Behind(p)'} = Registered
  <2>1. Registered = {p \in Live : Behind(p)}
    BY <1>2, <1>3, IdleThreads, RegisteredIdle
  <2>2. QED
    BY <1>2, <2>1 DEF Behind
<1>9. /\ BookTyped(book', V + 1) /\ Describes(book', Registered, Key)
      /\ DOMAIN book'.pairs = DOMAIN book.pairs
  <2> DEFINE R == Registered
             K == Key
             b == book
             d == book'
  <2>1. /\ V \in Nat /\ BookTyped(b, V) /\ Describes(b, R, K) /\ s \in DOMAIN b.pairs
        /\ d = [b EXCEPT !.pairs[s].positions = << >>]
    BY <1>1, <1>3, <1>4
  <2> HIDE DEF R, K, b, d, V, s
  <2>2. BookTyped(d, V + 1) /\ Describes(d, R, K) /\ DOMAIN d.pairs = DOMAIN b.pairs
    BY ONLY <2>1, ListTaken
  <2>3. QED
    BY <2>2 DEF R, K, b, d
<1>10. StatesKnown'
  BY <1>1, <1>4, <1>9 DEF LInv, StatesKnown
<1>11. BuildSound'
  BY <1>2 DEF BuildSound
<1>12. active_words' \subseteq DOMAIN splits
  <2> DEFINE list == pair.positions
  <2>1. list \in Seq(Position) /\ active_words' = {list[k][1] : k \in DOMAIN list}
    BY <1>1, <1>6
  <2> HIDE DEF list
  <2>2. \A k \in DOMAIN list : list[k][1] \in DOMAIN splits
    BY <1>3, <2>1, PositionsTyped DEF StateTyped
  <2>3. QED
    BY <2>1, <2>2
<1>13. /\ BookTyped(book', Len(vocabulary'))
       /\ Describes(book', {p \in Live : Behind(p)'}, Key)
  BY <1>7, <1>8, <1>9
<1>14. Len(vocabulary) <= Len(vocabulary') /\ positions' \in Seq(Position)
  <2>1. V <= V + 1
    BY <1>4
  <2>2. positions' = pair.positions
    BY <1>1
  <2> HIDE DEF pair
  <2>3. QED
    BY <1>6, <1>7, <2>1, <2>2
<1>15. phase' \in {"build", "pop", "surgery", "replay", "done"} /\ phase # "surgery"
  BY <1>2
<1>16. QED
  BY <1>2, <1>7, <1>10, <1>11, <1>12, <1>13, <1>14, <1>15, MainKept

-----------------------------------------------------------------------------
(* The threads.                                                            *)

\* What a thread has in hand is in its own word.
LEMMA TouchedWord ==
    ASSUME StateTyped, ChainSound, WordsApart, HeldSound, NEW u \in Threads, NEW p \in Live, p \in Touched(u)
    PROVE  p[1] = word[u] /\ word[u] # 0
<1>1. /\ stage[u] \in {"removed", "spliced"}
      /\ p \in {held[u].ev.left, held[u].ev.position, held[u].ev.right}
  BY DEF Touched
<1>2. p \in Position /\ no_position \notin Position
  BY LiveFacts
<1>3. word[u] # 0
  BY <1>1 DEF WordsApart
<1>4. CASE stage[u] = "removed"
  <2> DEFINE q  == held[u].slots.position
             ev == held[u].ev
  <2>1. ReadFresh(u)
    BY <1>4 DEF HeldSound
  <2> HIDE DEF q, ev
  <2>2. /\ q[1] = word[u] /\ next[q][1] = q[1] /\ ev.position = q /\ ev.right = next[q]
        /\ ev.left # no_position => ev.left[1] = q[1]
    BY <2>1, ReadFacts DEF q, ev
  <2>3. QED
    BY <1>1, <1>2, <1>3, <2>2 DEF ev
<1>5. CASE stage[u] = "spliced"
  <2> DEFINE ev == held[u].ev
  <2>1. WriteFresh(u)
    BY <1>5 DEF HeldSound
  <2> HIDE DEF ev
  <2>2. /\ ev.position[1] = word[u] /\ ev.right \notin Live
        /\ ev.left # no_position => ev.left[1] = ev.position[1]
    BY <2>1, WriteFacts DEF ev
  <2>3. QED
    BY <1>1, <1>2, <1>3, <2>2 DEF ev
<1>6. QED
  BY <1>1, <1>4, <1>5

\* What a thread holds survives whatever happens in other words.
LEMMA FreshKept ==
    ASSUME StateTyped, ChainSound, NEW u \in Threads, NEW w, word[u] # w,
           UNCHANGED splits, word'[u] = word[u], held'[u] = held[u],
           Loop!left_token' = Loop!left_token, Loop!right_token' = Loop!right_token,
           Loop!merged_token' = Loop!merged_token,
           \A q \in Position : alive'[q] => alive[q],
           \A q \in Position : q[1] # w =>
              /\ token'[q] = token[q] /\ alive'[q] = alive[q]
              /\ next'[q] = next[q] /\ previous'[q] = previous[q]
    PROVE  (ReadFresh(u) => ReadFresh(u)') /\ (WriteFresh(u) => WriteFresh(u)')
<1>1. Position' = Position /\ no_position \notin Position
  BY PositionsFixed, LiveFacts
<1>2. ASSUME ReadFresh(u) PROVE ReadFresh(u)'
  <2> PICK p : p = held[u].slots.position
    OBVIOUS
  <2> PICK ev : ev = held[u].ev
    OBVIOUS
  <2>1. /\ p \in Live /\ p[1] = word[u] /\ next[p] \in Position /\ alive[next[p]]
        /\ next[p][1] = p[1]
        /\ next[next[p]] \in Position
        /\ next[next[p]][1] = p[1]
        /\ token[p] = Loop!left_token /\ token[next[p]] = Loop!right_token
        /\ held[u] = [slots |-> Loop!Neighbours(p), ev |-> Loop!MergeEvent(Loop!Neighbours(p))]
        /\ ev.left = previous[p]
        /\ ev.left # no_position => ev.left \in Live /\ ev.left[1] = p[1]
    <3>1. held[u] = [slots |-> Loop!Neighbours(held[u].slots.position),
                     ev |-> Loop!MergeEvent(Loop!Neighbours(held[u].slots.position))]
      BY <1>2, Zenon DEF ReadFresh
    <3>2. held[u] = [slots |-> Loop!Neighbours(p), ev |-> Loop!MergeEvent(Loop!Neighbours(p))]
      BY <3>1
    <3>3. QED
      BY <1>2, <3>2, ReadFacts
  <2>2. p \in Position /\ alive[p]
    BY <2>1, LiveFacts
  <2>3. /\ token'[p] = token[p] /\ alive'[p] = alive[p] /\ next'[p] = next[p] /\ previous'[p] = previous[p]
        /\ token'[next[p]] = token[next[p]] /\ alive'[next[p]] = alive[next[p]]
        /\ next'[next[p]] = next[next[p]]
        /\ token'[next[next[p]]] = token[next[next[p]]]
        /\ alive'[next[next[p]]] = alive[next[next[p]]]
    BY <2>1, <2>2
  <2>4. previous[p] = no_position \/ (token'[previous[p]] = token[previous[p]]
                                      /\ alive'[previous[p]] = alive[previous[p]])
    <3>1. ASSUME previous[p] # no_position
          PROVE  /\ token'[previous[p]] = token[previous[p]]
                 /\ alive'[previous[p]] = alive[previous[p]]
      <4>1. previous[p] \in Live /\ previous[p][1] # w
        BY <2>1, <3>1
      <4>2. previous[p] \in Position
        BY <4>1, LiveFacts
      <4>3. QED
        BY <4>1, <4>2
    <3>2. QED
      BY <3>1
  <2>5. Loop!Neighbours(p)' = Loop!Neighbours(p)
    BY <2>3 DEF Loop!Neighbours
  <2> PICK n : n = Loop!Neighbours(p)
    OBVIOUS
  <2>6. n.left = previous[p] /\ n.after = next[next[p]]
    BY DEF Loop!Neighbours
  <2>7. Loop!MergeEvent(n)' = Loop!MergeEvent(n)
    <3>1. /\ n.left = no_position \/ (token'[n.left] = token[n.left] /\ alive'[n.left] = alive[n.left])
          /\ token'[n.after] = token[n.after] /\ alive'[n.after] = alive[n.after]
      BY <2>3, <2>4, <2>6
    <3>2. QED
      BY ONLY <3>1 DEF Loop!MergeEvent, Loop!is_live
  <2>8. Loop!MergeEvent(Loop!Neighbours(p))' = Loop!MergeEvent(n)'
    BY <2>5 DEF Loop!MergeEvent, Loop!is_live
  <2>9. held'[u] = [slots |-> Loop!Neighbours(p)', ev |-> Loop!MergeEvent(Loop!Neighbours(p))']
    BY <2>1, <2>5, <2>7, <2>8
  <2>10. Loop!pair_is_at(p, Loop!left_token, Loop!right_token)'
    <3>1. /\ p # no_position /\ next[p] # no_position
          /\ alive'[p] /\ alive'[next[p]] /\ next'[p] = next[p]
          /\ token'[p] = Loop!left_token' /\ token'[next[p]] = Loop!right_token'
      BY <1>1, <2>1, <2>2, <2>3
    <3>2. QED
      BY ONLY <3>1 DEF Loop!pair_is_at, Loop!is_live
  <2>11. held'[u].slots.position = p
    OBVIOUS
  <2>12. p \in Position' /\ p[1] = word'[u]
    BY <1>1, <2>1, <2>2
  <2>13. QED
    BY <2>9, <2>10, <2>11, <2>12, Zenon DEF ReadFresh
<1>3. ASSUME WriteFresh(u) PROVE WriteFresh(u)'
  <2> PICK ev : ev = held[u].ev
    OBVIOUS
  <2> PICK p : p = ev.position
    OBVIOUS
  <2> DEFINE near == [position |-> p, right |-> ev.right, left |-> previous[p], after |-> next[p]]
  <2>1. /\ ev.right \in Position => ~alive[ev.right]
        /\ ev = Loop!MergeEvent(near)
    BY <1>3, Zenon DEF WriteFresh
  <2>2. /\ p \in Position /\ alive[p] /\ p[1] = word[u] /\ token[p] = Loop!merged_token
        /\ next[p] \in Position /\ ev.left = previous[p]
        /\ ev.left # no_position => ev.left \in Live /\ ev.left[1] = p[1]
    BY <1>3, WriteFacts
  <2>3. next[p][1] = p[1]
    BY <2>2 DEF ChainSound
  <2>4. /\ token'[p] = token[p] /\ alive'[p] = alive[p] /\ next'[p] = next[p] /\ previous'[p] = previous[p]
        /\ token'[next[p]] = token[next[p]] /\ alive'[next[p]] = alive[next[p]]
    BY <2>2, <2>3
  <2>5. previous[p] = no_position \/ (token'[previous[p]] = token[previous[p]]
                                      /\ alive'[previous[p]] = alive[previous[p]])
    <3>1. ASSUME previous[p] # no_position
          PROVE  /\ token'[previous[p]] = token[previous[p]]
                 /\ alive'[previous[p]] = alive[previous[p]]
      <4>1. previous[p] \in Live /\ previous[p][1] # w
        BY <2>2, <3>1
      <4>2. previous[p] \in Position
        BY <4>1, LiveFacts
      <4>3. QED
        BY <4>1, <4>2
    <3>2. QED
      BY <3>1
  <2>6. near' = near
    BY <2>4
  <2> PICK n : n = near
    OBVIOUS
  <2>7. n.left = previous[p] /\ n.after = next[p]
    OBVIOUS
  <2> HIDE DEF near
  <2>8. Loop!MergeEvent(n)' = Loop!MergeEvent(n)
    BY <1>1, <2>2, <2>4, <2>5, <2>7 DEF Loop!MergeEvent, Loop!is_live
  <2>9. Loop!MergeEvent(near)' = Loop!MergeEvent(n)'
    BY <2>6 DEF Loop!MergeEvent, Loop!is_live
  <2>10. ev = Loop!MergeEvent(near)'
    BY <2>1, <2>8, <2>9
  <2>11. /\ p \in Position' /\ p[1] = word'[u] /\ alive'[p] /\ token'[p] = Loop!merged_token'
         /\ ev.right \in Position' => ~alive'[ev.right]
    BY <1>1, <2>1, <2>2, <2>4
  <2>12. held'[u].ev = ev
    OBVIOUS
  <2>13. ev = Loop!MergeEvent([position |-> p, right |-> ev.right, left |-> previous[p], after |-> next[p]])'
    BY <2>10 DEF near
  <2>14. QED
    BY <2>11, <2>12, <2>13, Zenon DEF WriteFresh
<1>4. QED
  BY <1>2, <1>3

\* The round's pair and its tokens stay what they are.
LEMMA TokensKept ==
    ASSUME LInv, phase = "surgery", UNCHANGED <<vocabulary, best>>, Continues(book, book')
    PROVE  /\ Loop!left_token' = Loop!left_token /\ Loop!right_token' = Loop!right_token
           /\ Loop!merged_token' = Loop!merged_token
           /\ best \in DOMAIN book.pairs
           /\ Loop!left_token \in 1..Len(vocabulary) /\ Loop!right_token \in 1..Len(vocabulary)
<1>1. best \in DOMAIN book.pairs
  BY DEF LInv, StatesKnown
<1>2. book'.pairs[best].key = book.pairs[best].key
  BY <1>1 DEF Continues
<1>3. book.pairs[best].key \in (1..Len(vocabulary)) \X (1..Len(vocabulary))
  BY <1>1 DEF LInv, BookSound, BookTyped, KeysIn
<1>4. QED
  BY <1>1, <1>2, <1>3 DEF Loop!left_token, Loop!right_token, Loop!merged_token

\* What a step inside a round has to see to.
LEMMA RegionKept ==
    ASSUME LInv, phase = "surgery", phase' \in {"surgery", "replay"},
           UNCHANGED <<splits, queue, best>>, Continues(book, book'),
           StateTyped', ChainSound', WordsApart', HeldSound', BookSound'
    PROVE  LInv'
<1>1. StatesKnown'
  BY DEF LInv, StatesKnown, Continues
<1>2. BuildSound'
  BY DEF BuildSound
<1>3. QED
  BY <1>1, <1>2 DEF LInv

\* The steps that change neither the chain nor the registry.
LEMMA QuietKept ==
    ASSUME LInv, phase = "surgery", phase' \in {"surgery", "replay"},
           UNCHANGED <<splits, chain, vocabulary, book, queue, best>>,
           positions' \in Seq(Position), DOMAIN held' = Threads, WordsApart',
           \A u \in Threads : Touched(u)' = Touched(u),
           \A u \in Threads : stage'[u] # "idle" =>
              \/ stage'[u] = stage[u] /\ word'[u] = word[u] /\ held'[u] = held[u]
              \/ stage'[u] = "read" /\ ReadFresh(u)'
    PROVE  LInv'
<1>1. StateTyped /\ ChainSound /\ WordsApart /\ HeldSound /\ BuildSound
      /\ BookTyped(book, Len(vocabulary)) /\ Describes(book, Registered, Key)
  BY DEF LInv, BookSound
<1>2. Position' = Position /\ Live' = Live /\ Key' = Key /\ ChainSound' /\ Links' = Links
  BY <1>1, ChainKept, PositionsFixed
<1>3. /\ token' = token /\ alive' = alive /\ next' = next /\ previous' = previous
      /\ splits' = splits /\ book' = book
  BY DEF chain
<1>4. StateTyped'
  BY <1>1, <1>2, <1>3 DEF StateTyped
<1>5. Continues(book, book')
  BY <1>3 DEF Continues
<1>6. HeldSound'
  <2>1. ASSUME NEW u \in Threads, stage'[u] # "idle", stage'[u] = stage[u],
               word'[u] = word[u], held'[u] = held[u]
        PROVE  (ReadFresh(u) => ReadFresh(u)') /\ (WriteFresh(u) => WriteFresh(u)')
    <3> DEFINE w == 0
    <3>1. word[u] # w
      BY <1>1, <2>1 DEF WordsApart
    <3>2. /\ Loop!left_token' = Loop!left_token /\ Loop!right_token' = Loop!right_token
          /\ Loop!merged_token' = Loop!merged_token
      BY <1>5, TokensKept
    <3>3. /\ \A q \in Position : alive'[q] => alive[q]
          /\ \A q \in Position : q[1] # w =>
                /\ token'[q] = token[q] /\ alive'[q] = alive[q]
                /\ next'[q] = next[q] /\ previous'[q] = previous[q]
      BY <1>3
    <3>4. QED
      BY <1>1, <1>3, <2>1, <3>1, <3>2, <3>3, FreshKept
  <2>2. ASSUME NEW u \in Threads
        PROVE  /\ stage'[u] \in {"read", "removed"} => ReadFresh(u)'
               /\ stage'[u] = "spliced" => WriteFresh(u)'
    BY <1>1, <2>1 DEF HeldSound
  <2>3. QED
    BY <2>2 DEF HeldSound, Threads
<1>7. Registered' = Registered
  <2>1. \A p : Behind(p)' /\ Behind(p)
    BY DEF Behind
  <2>2. QED
    BY <1>2, <2>1 DEF Registered, Threads
<1>8. BookSound'
  <2> DEFINE R == Registered
             V == Len(vocabulary)
  <2>1. /\ UNCHANGED splits /\ BookTyped(book', V) /\ Describes(book', R, Key)
        /\ Len(vocabulary)' = V /\ Registered' = R /\ \A p \in R : Key'[p] = Key[p]
    BY <1>1, <1>2, <1>3, <1>7
  <2> HIDE DEF R, V
  <2>2. QED
    BY ONLY <2>1, BookSoundNext
<1>9. QED
  BY <1>2, <1>4, <1>5, <1>6, <1>8, RegionKept

\* The words of threads are words.
LEMMA WordsTyped ==
    ASSUME LInv
    PROVE  /\ DOMAIN splits \subseteq Nat \ {0}
           /\ positions \in Seq(Position) /\ DOMAIN held = Threads
           /\ \A p \in Position : p[1] \in DOMAIN splits
<1>1. splits \in Corpora /\ positions \in Seq(Position) /\ DOMAIN held = Threads
  BY DEF LInv, StateTyped
<1>2. DOMAIN splits = 1..Len(splits) /\ Len(splits) \in Nat /\ \A p \in Position : p[1] \in DOMAIN splits
  BY <1>1, PositionsTyped
<1>3. QED
  BY <1>1, <1>2

LEMMA TakeWordInv == \A t \in Threads : LInv /\ TakeWord(t) => LInv'
<1> SUFFICES ASSUME NEW t \in Threads, LInv, TakeWord(t) PROVE LInv'
  OBVIOUS
<1>1. PICK w \in active_words : /\ word' = [word EXCEPT ![t] = w]
                                /\ active_words' = active_words \ {w}
  BY DEF TakeWord
<1>2. /\ phase = "surgery" /\ word[t] = 0
      /\ UNCHANGED <<splits, chain, vocabulary, book, queue, phase, best, positions, held, stage>>
  BY DEF TakeWord
<1>3. WordsApart
  BY DEF LInv
<1>4. DOMAIN splits \subseteq Nat \ {0} /\ positions \in Seq(Position) /\ DOMAIN held = Threads
  BY WordsTyped
<1>5. stage[t] = "idle" /\ w \in DOMAIN splits
  BY <1>2, <1>3 DEF WordsApart
<1>6. /\ word' \in [Threads -> Nat] /\ word'[t] = w
      /\ \A u \in Threads : u # t => word'[u] = word[u]
  BY <1>1, <1>3, <1>4, <1>5 DEF WordsApart
<1>7. WordsApart'
  <2>1. \A u \in Threads : word[u] # 0 => word[u] # w
    BY <1>3 DEF WordsApart
  <2>2. /\ \A u \in Threads : stage[u] # "idle" => word'[u] # 0
        /\ \A u \in Threads : word'[u] # 0 => word'[u] \in DOMAIN splits \ active_words'
        /\ active_words' \subseteq DOMAIN splits
    BY <1>1, <1>3, <1>5, <1>6, <2>1 DEF WordsApart
  <2>3. \A u, v \in Threads : u # v /\ word'[u] # 0 => word'[u] # word'[v]
    BY <1>3, <1>4, <1>5, <1>6, <2>1 DEF WordsApart
  <2>4. stage \in [Threads -> {"idle", "read", "removed", "spliced"}]
    BY <1>3 DEF WordsApart
  <2>5. QED
    BY <1>2, <1>6, <2>2, <2>3, <2>4 DEF WordsApart, Threads
<1>8. \A u \in Threads : Touched(u)' = Touched(u)
  BY <1>2 DEF Touched
<1>9. \A u \in Threads : stage'[u] # "idle" =>
         stage'[u] = stage[u] /\ word'[u] = word[u] /\ held'[u] = held[u]
  BY <1>2, <1>5, <1>6
<1>10. positions' \in Seq(Position) /\ DOMAIN held' = Threads /\ phase' = "surgery"
  BY <1>2, <1>4
<1>11. UNCHANGED <<splits, chain, vocabulary, book, queue, best>>
  BY <1>2
<1>12. QED
  BY <1>2, <1>7, <1>8, <1>9, <1>10, <1>11, QuietKept

LEMMA ReadInv == \A t \in Threads : LInv /\ Read(t) => LInv'
<1> SUFFICES ASSUME NEW t \in Threads, LInv, Read(t) PROVE LInv'
  OBVIOUS
<1> DEFINE Found(k) == Loop!pair_is_at(positions[k], Loop!left_token, Loop!right_token)
<1>1. /\ phase = "surgery" /\ stage[t] = "idle"
      /\ UNCHANGED <<splits, chain, vocabulary, book, queue, phase, best, positions, word, active_words>>
  BY DEF Read
<1>2. PICK k \in Loop!Remaining(t) :
         IF Found(k)
         THEN LET n == Loop!Neighbours(positions[k])
              IN  /\ held' = [held EXCEPT ![t] = [slots |-> n, ev |-> Loop!MergeEvent(n)]]
                  /\ stage' = [stage EXCEPT ![t] = "read"]
         ELSE UNCHANGED <<held, stage>>
  BY DEF Read
<1>3. StateTyped /\ ChainSound /\ WordsApart
  BY DEF LInv
<1>4. /\ DOMAIN splits \subseteq Nat \ {0} /\ positions \in Seq(Position) /\ DOMAIN held = Threads
      /\ \A q \in Position : q[1] \in DOMAIN splits
  BY WordsTyped
<1> PICK p : p = positions[k]
  OBVIOUS
<1>5. p \in Position /\ p[1] = word[t] /\ word[t] # 0
  <2>1. k \in DOMAIN positions /\ positions[k][1] = word[t]
    BY DEF Loop!Remaining
  <2>2. QED
    BY <1>4, <2>1
<1>6. CASE Found(k)
  <2>1. /\ held' = [held EXCEPT ![t] = [slots |-> Loop!Neighbours(p),
                                        ev |-> Loop!MergeEvent(Loop!Neighbours(p))]]
        /\ stage' = [stage EXCEPT ![t] = "read"]
    BY <1>2, <1>6, Zenon
  <2> HIDE DEF Found
  <2>2. /\ stage' \in [Threads -> {"idle", "read", "removed", "spliced"}]
        /\ stage'[t] = "read" /\ \A u \in Threads : u # t => stage'[u] = stage[u] /\ held'[u] = held[u]
        /\ DOMAIN held' = Threads
    BY <1>3, <1>4, <2>1 DEF WordsApart
  <2>3. WordsApart'
    BY <1>1, <1>3, <1>5, <2>2 DEF WordsApart, Threads
  <2>4. \A u \in Threads : Touched(u)' = Touched(u)
    BY <1>1, <2>2 DEF Touched
  <2>5. ReadFresh(t)'
    <3>1. Continues(book, book')
      BY <1>1 DEF Continues
    <3>2. /\ Loop!left_token' = Loop!left_token /\ Loop!right_token' = Loop!right_token
          /\ Position' = Position
      BY <1>1, <3>1, TokensKept, PositionsFixed
    <3>3. /\ token' = token /\ alive' = alive /\ next' = next /\ previous' = previous
      BY <1>1 DEF chain
    <3>4. Loop!pair_is_at(p, Loop!left_token, Loop!right_token)'
      <4>1. Loop!pair_is_at(p, Loop!left_token, Loop!right_token)
        BY <1>6 DEF Found
      <4>2. QED
        BY ONLY <3>2, <3>3, <4>1 DEF Loop!pair_is_at, Loop!is_live
    <3>5. Loop!Neighbours(p)' = Loop!Neighbours(p)
      BY ONLY <3>3 DEF Loop!Neighbours
    <3>6. Loop!MergeEvent(Loop!Neighbours(p))' = Loop!MergeEvent(Loop!Neighbours(p))
      BY ONLY <3>3, <3>5 DEF Loop!MergeEvent, Loop!is_live
    <3>7. held'[t] = [slots |-> Loop!Neighbours(p)', ev |-> Loop!MergeEvent(Loop!Neighbours(p))']
      BY <1>4, <2>1, <3>5, <3>6
    <3>8. held'[t].slots.position = p
      BY <3>5, <3>7 DEF Loop!Neighbours
    <3>9. p \in Position' /\ p[1] = word'[t]
      BY <1>1, <1>5, <3>2
    <3>10. QED
      BY <3>4, <3>7, <3>8, <3>9, Zenon DEF ReadFresh
  <2>6. \A u \in Threads : stage'[u] # "idle" =>
           \/ stage'[u] = stage[u] /\ word'[u] = word[u] /\ held'[u] = held[u]
           \/ stage'[u] = "read" /\ ReadFresh(u)'
    <3> TAKE u \in Threads
    <3>1. CASE u = t
      BY <2>2, <2>5, <3>1
    <3>2. CASE u # t
      BY <1>1, <2>2, <3>2
    <3>3. QED
      BY <3>1, <3>2
  <2>7. positions' \in Seq(Position) /\ phase' = "surgery"
    BY <1>1, <1>4
  <2>8. UNCHANGED <<splits, chain, vocabulary, book, queue, best>>
    BY <1>1
  <2>9. QED
    BY <1>1, <2>2, <2>3, <2>4, <2>6, <2>7, <2>8, QuietKept
<1>7. CASE ~Found(k)
  <2>1. UNCHANGED <<held, stage>>
    BY <1>2, <1>7
  <2> HIDE DEF Found
  <2>2. WordsApart' /\ \A u \in Threads : Touched(u)' = Touched(u)
    BY <1>1, <1>3, <2>1 DEF WordsApart, Touched, Threads
  <2>3. positions' \in Seq(Position) /\ phase' = "surgery" /\ DOMAIN held' = Threads
    BY <1>1, <1>4, <2>1
  <2>4. UNCHANGED <<splits, chain, vocabulary, book, queue, best>> /\ word' = word
    BY <1>1
  <2>5. QED
    BY <1>1, <2>1, <2>2, <2>3, <2>4, QuietKept
<1>8. QED
  BY <1>6, <1>7

LEMMA FinishWordInv == \A t \in Threads : LInv /\ FinishWord(t) => LInv'
<1> SUFFICES ASSUME NEW t \in Threads, LInv, FinishWord(t) PROVE LInv'
  OBVIOUS
<1>1. /\ word[t] # 0 /\ stage[t] = "idle" /\ word' = [word EXCEPT ![t] = 0]
      /\ UNCHANGED <<splits, chain, vocabulary, book, queue, phase, best, positions, held,
                     active_words, stage>>
  BY DEF FinishWord
<1>2. WordsApart
  BY DEF LInv
<1>3. positions \in Seq(Position) /\ DOMAIN held = Threads
  BY WordsTyped
<1>4. phase = "surgery"
  BY <1>1, <1>2 DEF WordsApart
<1>5. /\ word' \in [Threads -> Nat] /\ word'[t] = 0
      /\ \A u \in Threads : u # t => word'[u] = word[u]
  BY <1>1, <1>2 DEF WordsApart
<1>6. WordsApart'
  BY <1>1, <1>2, <1>5 DEF WordsApart, Threads
<1>7. \A u \in Threads : Touched(u)' = Touched(u)
  BY <1>1 DEF Touched
<1>8. \A u \in Threads : stage'[u] # "idle" =>
         stage'[u] = stage[u] /\ word'[u] = word[u] /\ held'[u] = held[u]
  BY <1>1, <1>5
<1>9. positions' \in Seq(Position) /\ DOMAIN held' = Threads /\ phase' = "surgery"
  BY <1>1, <1>3, <1>4
<1>10. UNCHANGED <<splits, chain, vocabulary, book, queue, best>>
  BY <1>1
<1>11. QED
  BY <1>4, <1>6, <1>7, <1>8, <1>9, <1>10, QuietKept

LEMMA JoinInv == LInv /\ Join /\ UNCHANGED stage => LInv'
<1> SUFFICES ASSUME LInv, Join, UNCHANGED stage PROVE LInv'
  OBVIOUS
<1>1. /\ phase = "surgery" /\ phase' = "replay" /\ positions' = << >>
      /\ \A t \in Threads : word[t] = 0
      /\ UNCHANGED <<splits, chain, vocabulary, book, queue, best, word, held, active_words, stage>>
  BY DEF Join
<1>2. WordsApart
  BY DEF LInv
<1>3. DOMAIN held = Threads
  BY WordsTyped
<1>4. \A u \in Threads : stage[u] = "idle"
  BY <1>1, <1>2 DEF WordsApart
<1>5. WordsApart'
  BY <1>1, <1>2, <1>4 DEF WordsApart, Threads
<1>6. \A u \in Threads : Touched(u)' = Touched(u) /\ stage'[u] = "idle"
  BY <1>1, <1>4 DEF Touched
<1>7. positions' \in Seq(Position) /\ DOMAIN held' = Threads
  BY <1>1, <1>3
<1>8. UNCHANGED <<splits, chain, vocabulary, book, queue, best>>
  BY <1>1
<1>9. QED
  BY <1>1, <1>5, <1>6, <1>7, <1>8, QuietKept

-----------------------------------------------------------------------------
(* The critical sections.                                                  *)

\* The first takes the two or three old occurrences out of the registry.
LEMMA WithoutEvent ==
    ASSUME splits \in Corpora, NEW V \in Nat, NEW b, BookTyped(b, V),
           NEW R \in SUBSET Position, NEW K, Describes(b, R, K), NEW ev,
           Loop!left_token \in 1..V, Loop!right_token \in 1..V,
           ev.position \in R, K[ev.position] = <<Loop!left_token, Loop!right_token>>,
           ev.right # ev.position, no_position \notin Position,
           ev.left # no_position =>
              /\ ev.left \in R /\ ev.left # ev.position /\ ev.left # ev.right
              /\ ev.left[1] = ev.position[1] /\ ev.left_token \in 1..V
              /\ K[ev.left] = <<ev.left_token, Loop!left_token>>,
           ev.after # no_position =>
              /\ ev.right \in R /\ ev.right[1] = ev.position[1] /\ ev.after_token \in 1..V
              /\ K[ev.right] = <<Loop!right_token, ev.after_token>>,
           ev.after = no_position => ev.right \notin R,
           NEW d, d = Without(b, ev)
    PROVE  BookTyped(d, V) /\ Describes(d, R \ {ev.left, ev.position, ev.right}, K) /\ Continues(b, d)
<1> DEFINE f  == Loop!Frequency(ev.position)
           w  == ev.position[1]
           b1 == IF ev.left = no_position THEN b
                 ELSE remove_edge_v2(b, ev.left_token, Loop!left_token, w, f)
           b2 == remove_edge_v2(b1, Loop!left_token, Loop!right_token, w, f)
           R1 == R \ {ev.left}
           R2 == R1 \ {ev.position}
<1>1. d = IF ev.after = no_position THEN b2
          ELSE remove_edge_v2(b2, Loop!right_token, ev.after_token, w, f)
  BY Zenon DEF Without
<1>2. BookTyped(b1, V) /\ Describes(b1, R1, K) /\ Continues(b, b1)
  <2>1. CASE ev.left = no_position
    <3>1. R1 = R
      BY <2>1
    <3>2. b1 = b
      BY <2>1
    <3> HIDE DEF b1, R1
    <3>3. QED
      BY <3>1, <3>2 DEF Continues
  <2>2. CASE ev.left # no_position
    <3> PICK p : p = ev.left
      OBVIOUS
    <3> PICK l : l = ev.left_token
      OBVIOUS
    <3> PICK r : r = Loop!left_token
      OBVIOUS
    <3>1. b1 = remove_edge_v2(b, l, r, w, f)
      BY <2>2
    <3> HIDE DEF b1
    <3>2. f = Loop!Frequency(p) /\ w = p[1]
      BY <2>2 DEF Loop!Frequency
    <3> HIDE DEF f, w, R1
    <3>3. /\ splits \in Corpora /\ V \in Nat /\ BookTyped(b, V) /\ R \in SUBSET Position
          /\ Describes(b, R, K) /\ p \in R /\ l \in 1..V /\ r \in 1..V /\ K[p] = <<l, r>>
      BY <2>2
    <3>4. BookTyped(b1, V) /\ Describes(b1, R \ {p}, K) /\ Continues(b, b1)
      BY ONLY <3>1, <3>2, <3>3, RemoveOne
    <3>5. QED
      BY <3>4 DEF R1
  <2>3. QED
    BY <2>1, <2>2
<1> HIDE DEF b1
<1>3. BookTyped(b2, V) /\ Describes(b2, R2, K) /\ Continues(b1, b2)
  <2> PICK p : p = ev.position
    OBVIOUS
  <2> PICK l : l = Loop!left_token
    OBVIOUS
  <2> PICK r : r = Loop!right_token
    OBVIOUS
  <2>1. b2 = remove_edge_v2(b1, l, r, w, f) /\ f = Loop!Frequency(p) /\ w = p[1]
    OBVIOUS
  <2>2. p \in R1 /\ R1 \in SUBSET Position
    OBVIOUS
  <2> HIDE DEF b2, f, w, R1
  <2>3. /\ splits \in Corpora /\ V \in Nat /\ BookTyped(b1, V) /\ R1 \in SUBSET Position
        /\ Describes(b1, R1, K) /\ p \in R1 /\ l \in 1..V /\ r \in 1..V /\ K[p] = <<l, r>>
    BY <1>2, <2>2
  <2>4. BookTyped(b2, V) /\ Describes(b2, R1 \ {p}, K) /\ Continues(b1, b2)
    BY ONLY <2>1, <2>3, RemoveOne
  <2>5. QED
    BY <2>4
<1> HIDE DEF b2
<1>4. Continues(b, b2)
  BY <1>2, <1>3 DEF Continues
<1>5. CASE ev.after = no_position
  <2>1. R2 = R \ {ev.left, ev.position, ev.right}
    BY <1>5
  <2>2. d = b2
    BY <1>1, <1>5
  <2> HIDE DEF R2
  <2>3. QED
    BY <1>3, <1>4, <2>1, <2>2
<1>6. CASE ev.after # no_position
  <2> PICK p : p = ev.right
    OBVIOUS
  <2> PICK l : l = Loop!right_token
    OBVIOUS
  <2> PICK r : r = ev.after_token
    OBVIOUS
  <2>1. p \in R2 /\ R2 \in SUBSET Position
    <3>1. p \in R /\ p # ev.position /\ p # ev.left
      BY <1>6
    <3>2. QED
      BY <3>1
  <2>2. d = remove_edge_v2(b2, l, r, w, f)
    BY <1>1, <1>6
  <2>3. f = Loop!Frequency(p) /\ w = p[1]
    BY <1>6 DEF Loop!Frequency
  <2>4. R2 \ {p} = R \ {ev.left, ev.position, ev.right}
    OBVIOUS
  <2> HIDE DEF f, w, R2
  <2>5. /\ splits \in Corpora /\ V \in Nat /\ BookTyped(b2, V) /\ R2 \in SUBSET Position
        /\ Describes(b2, R2, K) /\ p \in R2 /\ l \in 1..V /\ r \in 1..V /\ K[p] = <<l, r>>
    BY <1>3, <1>6, <2>1
  <2>6. BookTyped(d, V) /\ Describes(d, R2 \ {p}, K) /\ Continues(b2, d)
    BY ONLY <2>2, <2>3, <2>5, RemoveOne
  <2>7. Continues(b, d)
    BY <1>4, <2>6 DEF Continues
  <2>8. QED
    BY <2>4, <2>6, <2>7
<1>7. QED
  BY <1>5, <1>6

\* The second enters the new ones.
LEMMA WithEvent ==
    ASSUME splits \in Corpora, NEW V \in Nat, NEW b, BookTyped(b, V),
           NEW R \in SUBSET Position, NEW K, Describes(b, R, K), NEW ev,
           Loop!merged_token \in 1..V,
           ev.position \in Position \ R,
           ev.left # no_position =>
              /\ ev.left \in Position \ R /\ ev.left # ev.position
              /\ ev.left[1] = ev.position[1] /\ ev.left_token \in 1..V
              /\ K[ev.left] = <<ev.left_token, Loop!merged_token>>,
           ev.after # no_position =>
              /\ ev.after_token \in 1..V
              /\ K[ev.position] = <<Loop!merged_token, ev.after_token>>,
           NEW d, d = With(b, ev),
           NEW R1, R1 = IF ev.left = no_position THEN R ELSE R \cup {ev.left},
           NEW R2, R2 = IF ev.after = no_position THEN R1 ELSE R1 \cup {ev.position}
    PROVE  BookTyped(d, V) /\ Describes(d, R2, K) /\ Continues(b, d)
<1> DEFINE f  == Loop!Frequency(ev.position)
           w  == ev.position[1]
           b1 == IF ev.left = no_position THEN b
                 ELSE add_edge_v2(b, ev.left_token, Loop!merged_token, w, ev.left, f)
<1>1. d = IF ev.after = no_position THEN b1
          ELSE add_edge_v2(b1, Loop!merged_token, ev.after_token, w, ev.position, f)
  BY Zenon DEF With
<1>2. BookTyped(b1, V) /\ Describes(b1, R1, K) /\ Continues(b, b1)
  <2>1. CASE ev.left = no_position
    BY <2>1 DEF Continues
  <2>2. CASE ev.left # no_position
    <3> PICK p : p = ev.left
      OBVIOUS
    <3> PICK l : l = ev.left_token
      OBVIOUS
    <3> PICK r : r = Loop!merged_token
      OBVIOUS
    <3>1. b1 = add_edge_v2(b, l, r, w, p, f)
      BY <2>2
    <3> HIDE DEF b1
    <3>2. f = Loop!Frequency(p) /\ w = p[1]
      BY <2>2 DEF Loop!Frequency
    <3> HIDE DEF f, w
    <3>3. /\ splits \in Corpora /\ V \in Nat /\ BookTyped(b, V) /\ R \in SUBSET Position
          /\ Describes(b, R, K) /\ p \in Position /\ p \notin R
          /\ l \in 1..V /\ r \in 1..V /\ K[p] = <<l, r>>
      BY <2>2
    <3>4. BookTyped(b1, V) /\ Describes(b1, R \cup {p}, K) /\ Continues(b, b1)
      BY ONLY <3>1, <3>2, <3>3, AddOne
    <3>5. R1 = R \cup {p}
      BY <2>2
    <3>6. QED
      BY <3>4, <3>5
  <2>3. QED
    BY <2>1, <2>2
<1> HIDE DEF b1
<1>3. CASE ev.after = no_position
  BY <1>1, <1>2, <1>3
<1>4. CASE ev.after # no_position
  <2> PICK p : p = ev.position
    OBVIOUS
  <2> PICK l : l = Loop!merged_token
    OBVIOUS
  <2> PICK r : r = ev.after_token
    OBVIOUS
  <2>1. p \in Position /\ p \notin R1 /\ R1 \in SUBSET Position
    OBVIOUS
  <2>2. d = add_edge_v2(b1, l, r, w, p, f)
    BY <1>1, <1>4
  <2>3. f = Loop!Frequency(p) /\ w = p[1]
    OBVIOUS
  <2> HIDE DEF f, w
  <2>4. /\ splits \in Corpora /\ V \in Nat /\ BookTyped(b1, V) /\ R1 \in SUBSET Position
        /\ Describes(b1, R1, K) /\ p \in Position /\ p \notin R1
        /\ l \in 1..V /\ r \in 1..V /\ K[p] = <<l, r>>
    BY <1>2, <1>4, <2>1
  <2>5. BookTyped(d, V) /\ Describes(d, R1 \cup {p}, K) /\ Continues(b1, d)
    BY ONLY <2>2, <2>3, <2>4, AddOne
  <2>6. Continues(b, d)
    BY <1>2, <2>5 DEF Continues
  <2>7. R2 = R1 \cup {p}
    BY <1>4
  <2>8. QED
    BY <2>5, <2>6, <2>7
<1>5. QED
  BY <1>3, <1>4

\* An occurrence in the word of one thread is in no other thread's hand.
LEMMA HandsApart ==
    ASSUME LInv, NEW t \in Threads, word[t] # 0, NEW p \in Live, p[1] = word[t]
    PROVE  \A u \in Threads : u # t => p \notin Touched(u)
<1> TAKE u \in Threads
<1> HAVE u # t
<1>1. StateTyped /\ ChainSound /\ WordsApart /\ HeldSound
  BY DEF LInv
<1>2. ASSUME p \in Touched(u) PROVE FALSE
  <2>1. p[1] = word[u] /\ word[u] # 0
    BY <1>1, <1>2, TouchedWord
  <2>2. QED
    BY <1>1, <2>1 DEF WordsApart
<1>3. QED
  BY <1>2

\* Thread t goes from one stage to the next.
LEMMA StageStep ==
    ASSUME LInv, NEW t \in Threads, stage[t] # "idle",
           NEW s \in {"idle", "read", "removed", "spliced"},
           stage' = [stage EXCEPT ![t] = s], UNCHANGED <<splits, phase, word, active_words>>
    PROVE  /\ WordsApart' /\ phase = "surgery" /\ word[t] # 0
           /\ stage'[t] = s /\ \A u \in Threads : u # t => stage'[u] = stage[u]
<1>1. WordsApart
  BY DEF LInv
<1>2. word[t] # 0 /\ phase = "surgery"
  BY <1>1 DEF WordsApart
<1>3. /\ stage' \in [Threads -> {"idle", "read", "removed", "spliced"}]
      /\ stage'[t] = s /\ \A u \in Threads : u # t => stage'[u] = stage[u]
  BY <1>1 DEF WordsApart
<1>4. WordsApart'
  <2>1. \A u \in Threads : stage'[u] # "idle" => word[u] # 0
    BY <1>1, <1>2, <1>3 DEF WordsApart
  <2>2. QED
    BY <1>1, <1>3, <2>1 DEF WordsApart, Threads
<1>5. QED
  BY <1>2, <1>3, <1>4

LEMMA RemoveCriticalInv == \A t \in Threads : LInv /\ RemoveCritical(t) /\ phase # "aborted" => LInv'
<1> SUFFICES ASSUME NEW t \in Threads, LInv, RemoveCritical(t) PROVE LInv'
  OBVIOUS
<1>1. /\ stage[t] = "read" /\ book' = Without(book, held[t].ev)
      /\ phase' = IF book'.aborted THEN "aborted" ELSE phase
      /\ stage' = [stage EXCEPT ![t] = "removed"]
      /\ UNCHANGED <<splits, chain, vocabulary, queue, best, positions, word, held, active_words>>
  BY DEF RemoveCritical
<1>2. /\ StateTyped /\ ChainSound /\ WordsApart /\ HeldSound
      /\ BookTyped(book, Len(vocabulary)) /\ Describes(book, Registered, Key)
  BY DEF LInv, BookSound
<1>3. ReadFresh(t) /\ word[t] # 0 /\ phase = "surgery"
  BY <1>1, <1>2 DEF HeldSound, WordsApart
<1> PICK p : p = held[t].slots.position
  OBVIOUS
<1> PICK ev : ev = held[t].ev
  OBVIOUS
<1> PICK V : V = Len(vocabulary)
  OBVIOUS
<1> PICK R : R = Registered
  OBVIOUS
<1> PICK K : K = Key
  OBVIOUS
<1>4. /\ p \in Live /\ p[1] = word[t] /\ next[p][1] = p[1] /\ p[2] < next[p][2]
      /\ token[p] = Loop!left_token /\ token[next[p]] = Loop!right_token
      /\ ev.position = p /\ ev.right = next[p]
      /\ ev.left # no_position =>
            /\ ev.left \in Live /\ next[ev.left] = p /\ ev.left[1] = p[1]
            /\ ev.left[2] < p[2] /\ ev.left_token = token[ev.left]
      /\ alive[next[next[p]]] => /\ ev.after = next[next[p]] /\ next[p] \in Live
                                 /\ ev.after_token = token[next[next[p]]]
      /\ ~alive[next[next[p]]] => ev.after = no_position /\ next[p] \notin Live
  <2>1. /\ StateTyped /\ ChainSound /\ t \in Threads /\ ReadFresh(t)
        /\ p = held[t].slots.position /\ ev = held[t].ev
    BY <1>2, <1>3
  <2>2. /\ p \in Live /\ p[1] = word[t] /\ next[p][1] = p[1] /\ p[2] < next[p][2]
        /\ token[p] = Loop!left_token /\ token[next[p]] = Loop!right_token
        /\ ev.position = p /\ ev.right = next[p]
    BY ONLY <2>1, ReadFacts
  <2>3. ev.left # no_position =>
           /\ ev.left \in Live /\ next[ev.left] = p /\ ev.left[1] = p[1]
           /\ ev.left[2] < p[2] /\ ev.left_token = token[ev.left]
    BY ONLY <2>1, ReadFacts
  <2>4. ASSUME alive[next[next[p]]]
        PROVE  /\ ev.after = next[next[p]] /\ next[p] \in Live
               /\ ev.after_token = token[next[next[p]]]
    <3>1. ev = Loop!MergeEvent(Loop!Neighbours(p)) /\ p \in Live /\ alive[next[p]] /\ next[p] \in Live
      <4>1. held[t] = [slots |-> Loop!Neighbours(held[t].slots.position),
                       ev |-> Loop!MergeEvent(Loop!Neighbours(held[t].slots.position))]
        BY <1>3, Zenon DEF ReadFresh
      <4>2. p \in Live
        BY ONLY <2>1, ReadFacts
      <4>3. next[p] \in Live
        BY ONLY <2>1, <2>4, ReadFacts
      <4>4. alive[next[p]]
        BY <1>2, <4>2, LiveFacts
      <4>5. QED
        BY <4>1, <4>2, <4>3, <4>4
    <3> PICK n : n = Loop!Neighbours(p)
      OBVIOUS
    <3>2. n.left = previous[p] /\ n.after = next[next[p]]
      BY DEF Loop!Neighbours
    <3>3. p \in Position /\ alive[p]
      BY <1>2, <3>1, LiveFacts
    <3>4. /\ StateTyped /\ ChainSound /\ p \in Position /\ alive[p] /\ n.left = previous[p]
          /\ n.after = next[p] \/ (alive[next[p]] /\ n.after = next[next[p]])
          /\ ev = Loop!MergeEvent(n)
      BY <1>2, <3>1, <3>2, <3>3
    <3>5. alive[n.after] => ev.after = n.after /\ ev.after_token = token[n.after]
      BY ONLY <3>4, EventFacts
    <3>6. QED
      BY <2>4, <3>1, <3>2, <3>5
  <2>5. ASSUME ~alive[next[next[p]]]
        PROVE  ev.after = no_position /\ next[p] \notin Live
    BY ONLY <2>1, <2>5, ReadFacts
  <2>6. QED
    BY ONLY <2>2, <2>3, <2>4, <2>5
<1>5. /\ \A q \in Live : /\ q \in Position /\ Key[q] = <<token[q], token[next[q]]>>
                         /\ token[q] \in 1..V /\ token[next[q]] \in 1..V
      /\ R \in SUBSET Position /\ no_position \notin Position
  BY <1>2, LiveFacts
<1>6. ASSUME NEW q \in Live, q[1] = word[t] PROVE q \in R
  <2>1. Touched(t) = {}
    BY <1>1 DEF Touched
  <2>2. \A u \in Threads : q \notin Touched(u)
    BY <1>3, <1>6, <2>1, HandsApart
  <2>3. QED
    BY <1>3, <2>2 DEF Registered, Behind
<1>7. R \subseteq Live
  BY DEF Registered
<1>8. p[2] \in Nat /\ next[p][2] \in Nat /\ \A q \in Live : q[2] \in Nat
  <2>1. \A q \in Position : q[2] \in Nat
    BY <1>2, PositionsTyped DEF StateTyped
  <2>2. next[p] \in Position
    BY <1>2, <1>4, LiveFacts
  <2>3. QED
    BY <1>4, <1>5, <2>1, <2>2
<1>9. /\ BookTyped(book', V) /\ Describes(book', R \ {ev.left, ev.position, ev.right}, K)
      /\ Continues(book, book')
  <2>1. /\ ev.position \in R /\ K[ev.position] = <<Loop!left_token, Loop!right_token>>
        /\ ev.right # ev.position
    <3>1. next[p] # p
      <4>1. p[2] < next[p][2] /\ p[2] \in Nat
        BY <1>4, <1>8
      <4>2. QED
        BY ONLY <4>1
    <3>2. p \in R
      BY <1>4, <1>6
    <3>3. QED
      BY <1>4, <1>5, <3>1, <3>2
  <2>2. ev.left # no_position =>
           /\ ev.left \in R /\ ev.left # ev.position /\ ev.left # ev.right
           /\ ev.left[1] = ev.position[1] /\ ev.left_token \in 1..V
           /\ K[ev.left] = <<ev.left_token, Loop!left_token>>
    <3> HAVE ev.left # no_position
    <3>1. ev.left \in Live /\ ev.left[1] = word[t] /\ ev.left[2] < p[2] /\ ev.left[2] \in Nat
      BY <1>4, <1>8
    <3>2. ev.left \in R
      BY <1>6, <3>1
    <3>3. ev.left # p /\ ev.left # next[p]
      <4>1. /\ ev.left[2] < p[2] /\ p[2] < next[p][2]
            /\ ev.left[2] \in Nat /\ p[2] \in Nat /\ next[p][2] \in Nat
        BY <1>4, <1>8, <3>1
      <4>2. QED
        BY ONLY <4>1
    <3>4. QED
      BY <1>4, <1>5, <3>1, <3>2, <3>3
  <2>3. /\ ev.after # no_position =>
              /\ ev.right \in R /\ ev.right[1] = ev.position[1] /\ ev.after_token \in 1..V
              /\ K[ev.right] = <<Loop!right_token, ev.after_token>>
        /\ ev.after = no_position => ev.right \notin R
    <3>1. CASE alive[next[next[p]]]
      <4>1. next[p] \in Live /\ next[next[p]] \in Position
        BY <1>2, <1>4, <3>1, LiveFacts
      <4>2. ev.after # no_position
        BY <1>4, <1>5, <3>1, <4>1
      <4>3. next[p] \in R
        BY <1>4, <1>6, <4>1
      <4>4. QED
        BY <1>4, <1>5, <3>1, <4>1, <4>2, <4>3
    <3>2. CASE ~alive[next[next[p]]]
      BY <1>4, <1>7, <3>2
    <3>3. QED
      BY <3>1, <3>2
  <2>4. Loop!left_token \in 1..V /\ Loop!right_token \in 1..V
    BY <1>4, <1>5
  <2> PICK b : b = book
    OBVIOUS
  <2> PICK d : d = book'
    OBVIOUS
  <2>5. /\ splits \in Corpora /\ V \in Nat /\ BookTyped(b, V) /\ R \in SUBSET Position
        /\ Describes(b, R, K) /\ no_position \notin Position /\ d = Without(b, ev)
    BY <1>1, <1>2, <1>5 DEF StateTyped
  <2>6. BookTyped(d, V) /\ Describes(d, R \ {ev.left, ev.position, ev.right}, K) /\ Continues(b, d)
    BY ONLY <2>1, <2>2, <2>3, <2>4, <2>5, WithoutEvent
  <2>7. QED
    BY <2>6
<1>10. phase' = phase
  BY <1>1, <1>9 DEF BookTyped
<1>11. /\ WordsApart' /\ stage'[t] = "removed" /\ \A u \in Threads : u # t => stage'[u] = stage[u]
  <2>1. UNCHANGED <<splits, phase, word, active_words>>
    BY <1>1, <1>10
  <2>2. QED
    BY <1>1, <2>1, StageStep
<1>12. Position' = Position /\ Live' = Live /\ Key' = Key /\ ChainSound' /\ Links' = Links
  BY <1>1, <1>2, ChainKept, PositionsFixed
<1>13. /\ token' = token /\ alive' = alive /\ next' = next /\ previous' = previous
       /\ splits' = splits
  BY <1>1 DEF chain
<1>14. StateTyped'
  BY <1>1, <1>2, <1>10, <1>12, <1>13 DEF StateTyped, Threads
<1>15. HeldSound'
  <2>1. ASSUME NEW u \in Threads, stage'[u] # "idle"
        PROVE  (ReadFresh(u) => ReadFresh(u)') /\ (WriteFresh(u) => WriteFresh(u)')
    <3> DEFINE w == 0
    <3>1. word[u] # w
      BY <1>2, <1>3, <1>11, <2>1 DEF WordsApart
    <3>2. /\ Loop!left_token' = Loop!left_token /\ Loop!right_token' = Loop!right_token
          /\ Loop!merged_token' = Loop!merged_token
      BY <1>1, <1>3, <1>9, TokensKept
    <3>3. /\ \A q \in Position : alive'[q] => alive[q]
          /\ \A q \in Position : q[1] # w =>
                /\ token'[q] = token[q] /\ alive'[q] = alive[q]
                /\ next'[q] = next[q] /\ previous'[q] = previous[q]
      BY <1>13
    <3>4. word'[u] = word[u] /\ held'[u] = held[u] /\ UNCHANGED splits
      BY <1>1
    <3>5. QED
      BY <1>2, <3>1, <3>2, <3>3, <3>4, FreshKept
  <2>2. ASSUME NEW u \in Threads
        PROVE  /\ stage'[u] \in {"read", "removed"} => ReadFresh(u)'
               /\ stage'[u] = "spliced" => WriteFresh(u)'
    <3>1. CASE u = t
      BY <1>3, <1>11, <2>1, <3>1
    <3>2. CASE u # t
      BY <1>2, <1>11, <2>1, <3>2 DEF HeldSound
    <3>3. QED
      BY <3>1, <3>2
  <2>3. QED
    BY <2>2 DEF HeldSound, Threads
<1>16. Registered' = R \ {ev.left, ev.position, ev.right}
  <2>1. \A q : Behind(q)' /\ Behind(q)
    BY <1>3, <1>10 DEF Behind
  <2>2. Touched(t) = {} /\ Touched(t)' = {ev.left, ev.position, ev.right}
    BY <1>1, <1>11 DEF Touched
  <2>3. \A u \in Threads : u # t => Touched(u)' = Touched(u)
    BY <1>1, <1>11 DEF Touched
  <2>4. Registered' = {q \in Live : \A u \in Threads : q \notin Touched(u)'}
    BY <1>12, <2>1 DEF Registered, Threads
  <2>5. Registered = {q \in Live : \A u \in Threads : q \notin Touched(u)}
    BY <2>1 DEF Registered
  <2>6. \A q \in Live : (\A u \in Threads : q \notin Touched(u)')
           <=> (\A u \in Threads : q \notin Touched(u)) /\ q \notin {ev.left, ev.position, ev.right}
    BY <2>2, <2>3
  <2>7. QED
    BY <2>4, <2>5, <2>6
<1>17. BookSound'
  <2> PICK S : S = R \ {ev.left, ev.position, ev.right}
    OBVIOUS
  <2>1. /\ UNCHANGED splits /\ BookTyped(book', V) /\ Describes(book', S, K)
        /\ Len(vocabulary)' = V /\ Registered' = S /\ \A q \in S : Key'[q] = K[q]
    BY <1>1, <1>9, <1>12, <1>13, <1>16
  <2>2. QED
    BY ONLY <2>1, BookSoundNext
<1>18. QED
  BY <1>1, <1>3, <1>9, <1>10, <1>11, <1>12, <1>14, <1>15, <1>17, RegionKept

-----------------------------------------------------------------------------
(* The surgery, in no critical section.                                    *)

LEMMA SlotNumbers ==
    ASSUME StateTyped
    PROVE  \A q \in Position : q[2] \in Nat
<1>1. splits \in Corpora
  BY DEF StateTyped
<1>2. \A q \in Position : /\ q[1] \in DOMAIN splits
                         /\ q[2] \in 1..(Len(splits[q[1]].chars) + 1)
  BY <1>1, PositionsTyped
<1>3. \A m : \A i \in 1..m : i \in Nat
  OBVIOUS
<1>4. QED
  BY <1>2, <1>3

\* The chain after it: r is out, p and a are neighbours.
LEMMA ChainSpliced ==
    ASSUME StateTyped, ChainSound, NEW p \in Live, NEW r, r = next[p], NEW a, a = next[r],
           NEW n, n.position = p, n.right = r, n.after = a,
           NEW merged, Loop!Splice(n, merged)
    PROVE  /\ r \in Position /\ a \in Position /\ r[1] = p[1] /\ a[1] = p[1]
           /\ p # r /\ p # a /\ r # a
           /\ token' = [token EXCEPT ![p] = merged] /\ alive' = [alive EXCEPT ![r] = FALSE]
           /\ next' = [next EXCEPT ![p] = a, ![r] = no_position]
           /\ previous' = [previous EXCEPT ![a] = p, ![r] = no_position]
           /\ \A q \in Position :
                 /\ token'[q] = IF q = p THEN merged ELSE token[q]
                 /\ alive'[q] <=> alive[q] /\ q # r
                 /\ q # r => alive'[q] = alive[q]
                 /\ q # r => next'[q] = IF q = p THEN a ELSE next[q]
                 /\ q # r => previous'[q] = IF q = a THEN p ELSE previous[q]
           /\ previous[r] = p /\ previous[a] = r
<1>1. p \in Position /\ alive[p] /\ r \in Position /\ alive[r] /\ no_position \notin Position
  BY LiveFacts
<1>2. /\ r[1] = p[1] /\ p[2] < r[2] /\ previous[r] = p
      /\ a \in Position /\ a[1] = r[1] /\ r[2] < a[2] /\ previous[a] = r
  BY <1>1 DEF ChainSound
<1>3. p # r /\ p # a /\ r # a
  <2>1. p[2] \in Nat /\ r[2] \in Nat /\ a[2] \in Nat
    BY <1>1, <1>2, SlotNumbers
  <2>2. p[2] < r[2] /\ r[2] < a[2]
    BY <1>2
  <2>3. QED
    BY ONLY <2>1, <2>2
<1>4. /\ token' = [token EXCEPT ![p] = merged] /\ alive' = [alive EXCEPT ![r] = FALSE]
      /\ next' = [next EXCEPT ![p] = a, ![r] = no_position]
      /\ previous' = [previous EXCEPT ![a] = p, ![r] = no_position]
  BY <1>1, <1>2 DEF Loop!Splice
<1>5. /\ token \in [Position -> Nat] /\ alive \in [Position -> BOOLEAN]
      /\ next \in [Position -> Links] /\ previous \in [Position -> Links]
  BY DEF StateTyped
<1>6. ASSUME NEW q \in Position
      PROVE  /\ token'[q] = IF q = p THEN merged ELSE token[q]
             /\ alive'[q] <=> alive[q] /\ q # r
             /\ q # r => alive'[q] = alive[q]
             /\ q # r => next'[q] = IF q = p THEN a ELSE next[q]
             /\ q # r => previous'[q] = IF q = a THEN p ELSE previous[q]
  <2>1. token'[q] = IF q = p THEN merged ELSE token[q]
    BY ONLY <1>1, <1>4, <1>5, <1>6
  <2>2. (alive'[q] <=> alive[q] /\ q # r) /\ (q # r => alive'[q] = alive[q])
    BY ONLY <1>1, <1>4, <1>5, <1>6
  <2>3. q # r => next'[q] = IF q = p THEN a ELSE next[q]
    BY ONLY <1>1, <1>3, <1>4, <1>5, <1>6
  <2>4. q # r => previous'[q] = IF q = a THEN p ELSE previous[q]
    BY ONLY <1>1, <1>2, <1>3, <1>4, <1>5, <1>6
  <2>5. QED
    BY <2>1, <2>2, <2>3, <2>4
<1>7. QED
  BY <1>1, <1>2, <1>3, <1>4, <1>6

LEMMA ChainSoundSpliced ==
    ASSUME StateTyped, ChainSound, UNCHANGED splits, NEW p \in Live, NEW r, r = next[p],
           NEW a, a = next[r],
           NEW n, n.position = p, n.right = r, n.after = a,
           NEW merged, Loop!Splice(n, merged)
    PROVE  ChainSound'
<1>1. /\ r \in Position /\ a \in Position /\ r[1] = p[1] /\ a[1] = p[1]
      /\ p # r /\ p # a /\ r # a
      /\ \A q \in Position :
            /\ alive'[q] <=> alive[q] /\ q # r
            /\ q # r => next'[q] = IF q = p THEN a ELSE next[q]
            /\ q # r => previous'[q] = IF q = a THEN p ELSE previous[q]
      /\ previous[r] = p /\ previous[a] = r
  BY ChainSpliced
<1>2. p \in Position /\ alive[p] /\ alive[r] /\ no_position \notin Position /\ Position' = Position
  BY LiveFacts, PositionsFixed
<1>3. p[2] < r[2] /\ r[2] < a[2] /\ p[2] \in Nat /\ r[2] \in Nat /\ a[2] \in Nat
  <2>1. p[2] \in Nat /\ r[2] \in Nat /\ a[2] \in Nat
    BY <1>1, <1>2, SlotNumbers
  <2>2. p[2] < r[2] /\ r[2] < a[2]
    BY <1>1, <1>2 DEF ChainSound
  <2>3. QED
    BY <2>1, <2>2
<1>4. ASSUME NEW q \in Position, alive'[q]
      PROVE  /\ next'[q] \in Position /\ next'[q][1] = q[1] /\ q[2] < next'[q][2]
             /\ previous'[next'[q]] = q
  <2>1. alive[q] /\ q # r
    BY <1>1, <1>4
  <2>2. CASE q = p
    <3>1. next'[q] = a /\ previous'[a] = p
      BY <1>1, <2>1, <2>2
    <3>2. p[2] < a[2]
      BY ONLY <1>3
    <3>3. QED
      BY <1>1, <2>2, <3>1, <3>2
  <2>3. CASE q # p
    <3>1. next'[q] = next[q]
      BY <1>1, <2>1, <2>3
    <3>2. /\ next[q] \in Position /\ next[q][1] = q[1] /\ q[2] < next[q][2]
          /\ previous[next[q]] = q
      BY <2>1 DEF ChainSound
    <3>3. next[q] # r /\ next[q] # a
      BY <1>1, <2>1, <2>3, <3>2
    <3>4. previous'[next[q]] = q
      BY <1>1, <3>2, <3>3
    <3>5. QED
      BY <3>1, <3>2, <3>4
  <2>4. QED
    BY <2>2, <2>3
<1>5. ASSUME NEW q \in Position, alive'[q], previous'[q] # no_position
      PROVE  previous'[q] \in Position /\ alive'[previous'[q]] /\ next'[previous'[q]] = q
  <2>1. alive[q] /\ q # r
    BY <1>1, <1>5
  <2>2. CASE q = a
    BY <1>1, <1>2, <2>1, <2>2
  <2>3. CASE q # a
    <3>1. previous'[q] = previous[q]
      BY <1>1, <2>1, <2>3
    <3>2. previous[q] \in Position /\ alive[previous[q]] /\ next[previous[q]] = q
      BY <1>5, <2>1, <3>1 DEF ChainSound
    <3>3. previous[q] # r /\ previous[q] # p
      BY <2>1, <2>3, <3>2
    <3>4. QED
      BY <1>1, <3>1, <3>2, <3>3
  <2>4. QED
    BY <2>2, <2>3
<1>6. QED
  BY <1>2, <1>4, <1>5 DEF ChainSound

LEMMA SurgeryInv == \A t \in Threads : LInv /\ Surgery(t) => LInv'
<1> SUFFICES ASSUME NEW t \in Threads, LInv, Surgery(t) PROVE LInv'
  OBVIOUS
<1>1. /\ stage[t] = "removed" /\ Loop!Splice(held[t].slots, Loop!merged_token)
      /\ stage' = [stage EXCEPT ![t] = "spliced"]
      /\ UNCHANGED <<splits, vocabulary, book, queue, phase, best, positions, word, held, active_words>>
  BY DEF Surgery
<1>2. /\ StateTyped /\ ChainSound /\ WordsApart /\ HeldSound
      /\ BookTyped(book, Len(vocabulary)) /\ Describes(book, Registered, Key)
  BY DEF LInv, BookSound
<1>3. ReadFresh(t) /\ word[t] # 0 /\ phase = "surgery"
  BY <1>1, <1>2 DEF HeldSound, WordsApart
<1> PICK p : p = held[t].slots.position
  OBVIOUS
<1> PICK ev : ev = held[t].ev
  OBVIOUS
<1> PICK r : r = next[p]
  OBVIOUS
<1> PICK a : a = next[r]
  OBVIOUS
<1> PICK merged : merged = Loop!merged_token
  OBVIOUS
<1> PICK n : n = held[t].slots
  OBVIOUS
<1>4. /\ held[t] = [slots |-> Loop!Neighbours(p), ev |-> Loop!MergeEvent(Loop!Neighbours(p))]
  <2>1. held[t] = [slots |-> Loop!Neighbours(held[t].slots.position),
                   ev |-> Loop!MergeEvent(Loop!Neighbours(held[t].slots.position))]
    BY <1>3, Zenon DEF ReadFresh
  <2>2. QED
    BY <2>1
<1>5. /\ n = [position |-> p, right |-> r, left |-> previous[p], after |-> a]
      /\ ev = Loop!MergeEvent(n)
  <2>1. n = Loop!Neighbours(p) /\ ev = Loop!MergeEvent(Loop!Neighbours(p))
    BY <1>4
  <2>2. Loop!Neighbours(p) = [position |-> p, right |-> r, left |-> previous[p], after |-> a]
    BY DEF Loop!Neighbours
  <2>3. QED
    BY ONLY <2>1, <2>2
<1>6. n.position = p /\ n.right = r /\ n.left = previous[p] /\ n.after = a
  BY <1>5
<1>7. /\ p \in Live /\ p[1] = word[t] /\ ev.position = p /\ ev.right = r /\ ev.left = previous[p]
  <2>1. /\ StateTyped /\ ChainSound /\ t \in Threads /\ ReadFresh(t)
        /\ p = held[t].slots.position /\ ev = held[t].ev
    BY <1>2, <1>3
  <2>2. p \in Live /\ p[1] = word[t] /\ ev.position = p /\ ev.right = next[p]
    BY ONLY <2>1, ReadFacts
  <2>3. ev.left = previous[p]
    BY ONLY <2>1, ReadFacts
  <2>4. QED
    BY <2>2, <2>3
<1>8. /\ r \in Position /\ a \in Position /\ r[1] = p[1] /\ a[1] = p[1]
      /\ p # r /\ p # a /\ r # a
      /\ \A q \in Position :
            /\ token'[q] = IF q = p THEN merged ELSE token[q]
            /\ alive'[q] <=> alive[q] /\ q # r
            /\ q # r => alive'[q] = alive[q]
            /\ q # r => next'[q] = IF q = p THEN a ELSE next[q]
            /\ q # r => previous'[q] = IF q = a THEN p ELSE previous[q]
      /\ previous[r] = p /\ previous[a] = r
  <2>1. /\ StateTyped /\ ChainSound /\ p \in Live /\ r = next[p] /\ a = next[r]
        /\ n.position = p /\ n.right = r /\ n.after = a /\ Loop!Splice(n, merged)
    BY <1>1, <1>2, <1>6, <1>7
  <2>2. QED
    BY ONLY <2>1, ChainSpliced
<1>9. ChainSound'
  <2>1. /\ StateTyped /\ ChainSound /\ UNCHANGED splits /\ p \in Live /\ r = next[p] /\ a = next[r]
        /\ n.position = p /\ n.right = r /\ n.after = a /\ Loop!Splice(n, merged)
    BY <1>1, <1>2, <1>6, <1>7
  <2>2. QED
    BY ONLY <2>1, ChainSoundSpliced
<1>10. p \in Position /\ alive[p] /\ alive[r] /\ no_position \notin Position
       /\ Position' = Position /\ Links' = Links
  BY <1>1, <1>2, <1>7, LiveFacts, PositionsFixed
<1>11. merged \in 1..Len(vocabulary) /\ merged \in Nat
  <2>1. token[p] \in 1..Len(vocabulary) /\ Len(vocabulary) \in Nat
    BY <1>2, <1>10 DEF StateTyped
  <2>2. merged = Len(vocabulary)
    BY DEF Loop!merged_token
  <2>3. QED
    BY <2>1, <2>2
<1>12. StateTyped'
  <2>1. /\ token' = [token EXCEPT ![p] = merged] /\ alive' = [alive EXCEPT ![r] = FALSE]
        /\ next' = [next EXCEPT ![p] = a, ![r] = no_position]
        /\ previous' = [previous EXCEPT ![a] = p, ![r] = no_position]
    <3>1. /\ StateTyped /\ ChainSound /\ p \in Live /\ r = next[p] /\ a = next[r]
          /\ n.position = p /\ n.right = r /\ n.after = a /\ Loop!Splice(n, merged)
      BY <1>1, <1>2, <1>6, <1>7
    <3>2. QED
      BY ONLY <3>1, ChainSpliced
  <2>2. token' \in [Position -> Nat] /\ alive' \in [Position -> BOOLEAN]
    BY ONLY <1>2, <1>11, <2>1 DEF StateTyped
  <2>3. next' \in [Position -> Links] /\ previous' \in [Position -> Links]
    BY ONLY <1>2, <1>8, <1>10, <2>1 DEF StateTyped, Links
  <2>4. \A q \in Position : alive'[q] => token'[q] \in 1..Len(vocabulary)
    BY <1>2, <1>8, <1>11 DEF StateTyped
  <2>5. QED
    BY <1>1, <1>2, <1>10, <2>2, <2>3, <2>4 DEF StateTyped, Threads
<1>13. /\ WordsApart' /\ stage'[t] = "spliced" /\ \A u \in Threads : u # t => stage'[u] = stage[u]
  <2>1. UNCHANGED <<splits, phase, word, active_words>>
    BY <1>1
  <2>2. QED
    BY <1>1, <2>1, StageStep
<1>14. Continues(book, book')
  BY <1>1 DEF Continues
<1>15. WriteFresh(t)'
  <2> DEFINE near == [position |-> p, right |-> ev.right, left |-> previous[p], after |-> next[p]]
  <2>1. previous'[p] = previous[p] /\ next'[p] = a
    BY <1>8, <1>10
  <2>2. near' = n
    BY <1>5, <1>7, <2>1
  <2> HIDE DEF near
  <2>3. n.left = no_position \/ (token'[n.left] = token[n.left] /\ alive'[n.left] = alive[n.left])
    <3>1. ASSUME previous[p] # no_position PROVE token'[n.left] = token[n.left] /\ alive'[n.left] = alive[n.left]
      <4>1. previous[p] \in Position /\ next[previous[p]] = p /\ alive[previous[p]]
        BY <1>2, <1>10, <3>1 DEF ChainSound
      <4>2. previous[p] # p /\ previous[p] # r
        <5>1. previous[p][2] < p[2] /\ p[2] < r[2]
          BY <1>2, <1>10, <4>1 DEF ChainSound
        <5>2. previous[p][2] \in Nat /\ p[2] \in Nat /\ r[2] \in Nat
          BY <1>2, <1>8, <1>10, <4>1, SlotNumbers
        <5>3. QED
          BY ONLY <5>1, <5>2
      <4>3. token'[previous[p]] = token[previous[p]]
        BY <1>8, <4>1, <4>2
      <4>4. alive'[previous[p]] = alive[previous[p]]
        BY <1>8, <4>1, <4>2
      <4>5. QED
        BY <1>6, <4>3, <4>4
    <3>2. QED
      BY <1>6, <3>1
  <2>4. token'[n.after] = token[n.after] /\ alive'[n.after] = alive[n.after]
    <3>1. token'[a] = token[a]
      BY <1>8
    <3>2. alive'[a] = alive[a]
      BY <1>8
    <3>3. QED
      BY <1>6, <3>1, <3>2
  <2>5. Loop!MergeEvent(n)' = Loop!MergeEvent(n)
    BY ONLY <2>3, <2>4 DEF Loop!MergeEvent, Loop!is_live
  <2>6. Loop!MergeEvent(near)' = Loop!MergeEvent(n)'
    BY ONLY <2>2 DEF Loop!MergeEvent, Loop!is_live
  <2>7. ev = Loop!MergeEvent([position |-> p, right |-> ev.right, left |-> previous[p], after |-> next[p]])'
    BY <1>5, <2>5, <2>6 DEF near
  <2>8. held'[t].ev = ev /\ ev.position = p /\ p \in Position' /\ p[1] = word'[t]
    BY <1>1, <1>7, <1>10
  <2>9. alive'[p] /\ token'[p] = Loop!merged_token'
    <3>1. Loop!merged_token' = merged
      BY <1>1 DEF Loop!merged_token
    <3>2. QED
      BY <1>8, <1>10, <3>1
  <2>10. ev.right \in Position' => ~alive'[ev.right]
    BY <1>7, <1>8
  <2>11. QED
    BY <2>7, <2>8, <2>9, <2>10, Zenon DEF WriteFresh
<1>16. HeldSound'
  <2>1. ASSUME NEW u \in Threads, u # t, stage'[u] # "idle"
        PROVE  (ReadFresh(u) => ReadFresh(u)') /\ (WriteFresh(u) => WriteFresh(u)')
    <3> PICK w : w = word[t]
      OBVIOUS
    <3>1. word[u] # w
      BY <1>2, <1>3, <2>1 DEF WordsApart
    <3>2. /\ Loop!left_token' = Loop!left_token /\ Loop!right_token' = Loop!right_token
          /\ Loop!merged_token' = Loop!merged_token
      BY <1>1, <1>3, <1>14, TokensKept
    <3>3. \A q \in Position : alive'[q] => alive[q]
      BY <1>8
    <3>4. ASSUME NEW q \in Position, q[1] # w
          PROVE  /\ token'[q] = token[q] /\ alive'[q] = alive[q]
                 /\ next'[q] = next[q] /\ previous'[q] = previous[q]
      <4>1. q # p /\ q # r /\ q # a
        BY <1>7, <1>8, <3>4
      <4>2. alive'[q] = alive[q]
        BY <1>8, <3>4, <4>1
      <4>3. QED
        BY <1>8, <4>1, <4>2
    <3>5. word'[u] = word[u] /\ held'[u] = held[u] /\ UNCHANGED splits
      BY <1>1
    <3>6. QED
      BY <1>2, <3>1, <3>2, <3>3, <3>4, <3>5, FreshKept
  <2>2. ASSUME NEW u \in Threads
        PROVE  /\ stage'[u] \in {"read", "removed"} => ReadFresh(u)'
               /\ stage'[u] = "spliced" => WriteFresh(u)'
    <3>1. CASE u = t
      BY <1>13, <1>15, <3>1
    <3>2. CASE u # t
      BY <1>2, <1>13, <2>1, <3>2 DEF HeldSound
    <3>3. QED
      BY <3>1, <3>2
  <2>3. QED
    BY <2>2 DEF HeldSound, Threads
<1>17. ASSUME NEW q \in Position, q \notin {previous[p], p, r}
       PROVE  /\ q \in Live' <=> q \in Live
              /\ q \in Live => Key'[q] = Key[q]
  <2>1. next'[q] = next[q] /\ (alive'[q] <=> alive[q])
    BY <1>8, <1>17
  <2>2. q \in Live' <=> alive'[q] /\ next'[q] # no_position /\ alive'[next'[q]]
    BY <1>10, <1>17 DEF Live, Loop!is_live
  <2>3. q \in Live <=> alive[q] /\ alive[next[q]]
    BY <1>2, LiveFacts
  <2>4. ASSUME alive[q]
        PROVE  next[q] \in Position /\ next[q] # r /\ next[q] # p
    <3>1. next[q] \in Position /\ previous[next[q]] = q
      BY <1>2, <2>4 DEF ChainSound
    <3>2. previous[r] = p /\ q # p /\ q # previous[p]
      BY <1>8, <1>17
    <3>3. QED
      BY ONLY <3>1, <3>2
  <2>5. q \in Live' <=> q \in Live
    <3>1. CASE alive[q]
      <4>1. next[q] # no_position /\ (alive'[next[q]] <=> alive[next[q]])
        BY <1>8, <1>10, <2>4, <3>1
      <4>2. QED
        BY ONLY <2>1, <2>2, <2>3, <3>1, <4>1
    <3>2. CASE ~alive[q]
      BY ONLY <2>1, <2>2, <2>3, <3>2
    <3>3. QED
      BY <3>1, <3>2
  <2>6. ASSUME q \in Live PROVE Key'[q] = Key[q]
    <3>1. Key'[q] = <<token'[q], token'[next'[q]]>>
      BY <2>5, <2>6 DEF Key
    <3>2. Key[q] = <<token[q], token[next[q]]>>
      BY <2>6 DEF Key
    <3>3. token'[q] = token[q] /\ token'[next[q]] = token[next[q]]
      BY <1>8, <1>17, <2>3, <2>4, <2>6
    <3>4. QED
      BY <2>1, <3>1, <3>2, <3>3
  <2>7. QED
    BY <2>5, <2>6
<1>18. Registered' = Registered
  <2>1. \A q : Behind(q)' /\ Behind(q)
    BY <1>1, <1>3 DEF Behind
  <2>2. Touched(t) = {previous[p], p, r} /\ Touched(t)' = {previous[p], p, r}
    BY <1>1, <1>7, <1>13 DEF Touched
  <2>3. \A u \in Threads : u # t => Touched(u)' = Touched(u)
    BY <1>1, <1>13 DEF Touched
  <2>4. Registered' = {q \in Live' : \A u \in Threads : q \notin Touched(u)'}
    BY <2>1 DEF Registered, Threads
  <2>5. Registered = {q \in Live : \A u \in Threads : q \notin Touched(u)}
    BY <2>1 DEF Registered
  <2>6. \A q : (\A u \in Threads : q \notin Touched(u)') <=> (\A u \in Threads : q \notin Touched(u))
    BY <2>2, <2>3
  <2>7. Live \subseteq Position /\ Live' \subseteq Position
    BY <1>10 DEF Live
  <2>8. \A q : (\A u \in Threads : q \notin Touched(u)) => q \notin {previous[p], p, r}
    BY <2>2
  <2>9. QED
    BY <1>17, <2>4, <2>5, <2>6, <2>7, <2>8
<1>19. BookSound'
  <2> PICK V : V = Len(vocabulary)
    OBVIOUS
  <2> PICK K : K = Key
    OBVIOUS
  <2> PICK R : R = Registered
    OBVIOUS
  <2>1. \A q \in R : Key'[q] = K[q]
    <3> TAKE q \in R
    <3>1. q \in Live /\ q \notin Touched(t) /\ q \in Position
      BY <1>2, LiveFacts DEF Registered
    <3>2. q \notin {previous[p], p, r}
      BY <1>1, <1>7, <3>1 DEF Touched
    <3>3. QED
      BY <1>17, <3>1, <3>2
  <2>2. /\ UNCHANGED splits /\ BookTyped(book', V) /\ Describes(book', R, K)
        /\ Len(vocabulary)' = V /\ Registered' = R
    BY <1>1, <1>2, <1>18
  <2>3. QED
    BY ONLY <2>1, <2>2, BookSoundNext
<1>20. QED
  BY <1>1, <1>3, <1>9, <1>12, <1>13, <1>14, <1>16, <1>19, RegionKept

LEMMA AddCriticalInv == \A t \in Threads : LInv /\ AddCritical(t) => LInv'
<1> SUFFICES ASSUME NEW t \in Threads, LInv, AddCritical(t) PROVE LInv'
  OBVIOUS
<1>1. /\ stage[t] = "spliced" /\ book' = With(book, held[t].ev)
      /\ held' = [held EXCEPT ![t] = no_position]
      /\ stage' = [stage EXCEPT ![t] = "idle"]
      /\ UNCHANGED <<splits, chain, vocabulary, queue, phase, best, positions, word, active_words>>
  BY DEF AddCritical
<1>2. /\ StateTyped /\ ChainSound /\ WordsApart /\ HeldSound
      /\ BookTyped(book, Len(vocabulary)) /\ Describes(book, Registered, Key)
  BY DEF LInv, BookSound
<1>3. WriteFresh(t) /\ word[t] # 0 /\ phase = "surgery"
  BY <1>1, <1>2 DEF HeldSound, WordsApart
<1> PICK ev : ev = held[t].ev
  OBVIOUS
<1> PICK p : p = ev.position
  OBVIOUS
<1> PICK V : V = Len(vocabulary)
  OBVIOUS
<1> PICK R : R = Registered
  OBVIOUS
<1> PICK K : K = Key
  OBVIOUS
<1> PICK R1 : R1 = IF ev.left = no_position THEN R ELSE R \cup {ev.left}
  OBVIOUS
<1> PICK R2 : R2 = IF ev.after = no_position THEN R1 ELSE R1 \cup {ev.position}
  OBVIOUS
<1>4. /\ p \in Position /\ alive[p] /\ p[1] = word[t] /\ token[p] = Loop!merged_token
      /\ ev.right \notin Live /\ next[p] \in Position
      /\ ev.left # no_position =>
            /\ ev.left \in Live /\ next[ev.left] = p /\ ev.left[1] = p[1]
            /\ ev.left[2] < p[2] /\ ev.left_token = token[ev.left]
      /\ alive[next[p]] => ev.after = next[p] /\ p \in Live /\ ev.after_token = token[next[p]]
      /\ ~alive[next[p]] => ev.after = no_position /\ p \notin Live
  <2>1. /\ StateTyped /\ ChainSound /\ t \in Threads /\ WriteFresh(t)
        /\ ev = held[t].ev /\ p = ev.position
    BY <1>2, <1>3
  <2>2. /\ p \in Position /\ alive[p] /\ p[1] = word[t] /\ token[p] = Loop!merged_token
        /\ ev.right \notin Live /\ next[p] \in Position
    BY ONLY <2>1, WriteFacts
  <2>3. ev.left # no_position =>
           /\ ev.left \in Live /\ next[ev.left] = p /\ ev.left[1] = p[1]
           /\ ev.left[2] < p[2] /\ ev.left_token = token[ev.left]
    BY ONLY <2>1, WriteFacts
  <2>4. alive[next[p]] => ev.after = next[p] /\ p \in Live /\ ev.after_token = token[next[p]]
    BY ONLY <2>1, WriteFacts
  <2>5. ~alive[next[p]] => ev.after = no_position /\ p \notin Live
    BY ONLY <2>1, WriteFacts
  <2>6. QED
    BY ONLY <2>2, <2>3, <2>4, <2>5
<1>5. /\ \A q \in Live : /\ q \in Position /\ Key[q] = <<token[q], token[next[q]]>>
                         /\ token[q] \in 1..V /\ token[next[q]] \in 1..V
      /\ R \in SUBSET Position /\ no_position \notin Position
  BY <1>2, LiveFacts
<1>6. Touched(t) = {ev.left, p, ev.right}
  BY <1>1 DEF Touched
<1>7. /\ ev.left # no_position => ev.left # p
      /\ ev.after # no_position => p \in Live /\ ev.after = next[p] /\ ev.after_token = token[next[p]]
      /\ p \in Live => ev.after # no_position
  <2>1. ev.left # no_position => ev.left # p
    <3> HAVE ev.left # no_position
    <3>1. ev.left[2] < p[2] /\ p[2] \in Nat
      BY <1>2, <1>4, SlotNumbers
    <3>2. QED
      BY ONLY <3>1
  <2>2. QED
    BY <1>4, <1>5, <2>1
<1>8. BookTyped(book', V) /\ Describes(book', R2, K) /\ Continues(book, book')
  <2>1. ev.position \in Position \ R
    BY <1>4, <1>6 DEF Registered
  <2>2. ev.left # no_position =>
           /\ ev.left \in Position \ R /\ ev.left # ev.position
           /\ ev.left[1] = ev.position[1] /\ ev.left_token \in 1..V
           /\ K[ev.left] = <<ev.left_token, Loop!merged_token>>
    <3> HAVE ev.left # no_position
    <3>1. ev.left \notin R
      BY <1>6 DEF Registered
    <3>2. QED
      BY <1>4, <1>5, <1>7, <3>1
  <2>3. ev.after # no_position =>
           /\ ev.after_token \in 1..V
           /\ K[ev.position] = <<Loop!merged_token, ev.after_token>>
    BY <1>4, <1>5, <1>7
  <2>4. Loop!merged_token \in 1..V
    BY <1>2, <1>4 DEF StateTyped
  <2> PICK b : b = book
    OBVIOUS
  <2> PICK d : d = book'
    OBVIOUS
  <2>5. /\ splits \in Corpora /\ V \in Nat /\ BookTyped(b, V) /\ R \in SUBSET Position
        /\ Describes(b, R, K) /\ d = With(b, ev)
        /\ R1 = (IF ev.left = no_position THEN R ELSE R \cup {ev.left})
        /\ R2 = (IF ev.after = no_position THEN R1 ELSE R1 \cup {ev.position})
    BY <1>1, <1>2, <1>5 DEF StateTyped
  <2>6. BookTyped(d, V) /\ Describes(d, R2, K) /\ Continues(b, d)
    BY ONLY <2>1, <2>2, <2>3, <2>4, <2>5, WithEvent
  <2>7. QED
    BY <2>6
<1>9. /\ WordsApart' /\ stage'[t] = "idle" /\ \A u \in Threads : u # t => stage'[u] = stage[u]
  <2>1. UNCHANGED <<splits, phase, word, active_words>>
    BY <1>1
  <2>2. QED
    BY <1>1, <2>1, StageStep
<1>10. Position' = Position /\ Live' = Live /\ Key' = Key /\ ChainSound' /\ Links' = Links
  BY <1>1, <1>2, ChainKept, PositionsFixed
<1>11. /\ token' = token /\ alive' = alive /\ next' = next /\ previous' = previous
       /\ splits' = splits
  BY <1>1 DEF chain
<1>12. /\ DOMAIN held' = Threads /\ \A u \in Threads : u # t => held'[u] = held[u]
  BY <1>1, <1>2 DEF StateTyped
<1>13. StateTyped'
  BY <1>1, <1>2, <1>10, <1>11, <1>12 DEF StateTyped, Threads
<1>14. HeldSound'
  <2>1. ASSUME NEW u \in Threads, u # t, stage'[u] # "idle"
        PROVE  (ReadFresh(u) => ReadFresh(u)') /\ (WriteFresh(u) => WriteFresh(u)')
    <3> DEFINE w == 0
    <3>1. word[u] # w
      BY <1>2, <1>9, <2>1 DEF WordsApart
    <3>2. /\ Loop!left_token' = Loop!left_token /\ Loop!right_token' = Loop!right_token
          /\ Loop!merged_token' = Loop!merged_token
      BY <1>1, <1>3, <1>8, TokensKept
    <3>3. /\ \A q \in Position : alive'[q] => alive[q]
          /\ \A q \in Position : q[1] # w =>
                /\ token'[q] = token[q] /\ alive'[q] = alive[q]
                /\ next'[q] = next[q] /\ previous'[q] = previous[q]
      BY <1>11
    <3>4. word'[u] = word[u] /\ held'[u] = held[u] /\ UNCHANGED splits
      BY <1>1, <1>12, <2>1
    <3>5. QED
      BY <1>2, <3>1, <3>2, <3>3, <3>4, FreshKept
  <2>2. ASSUME NEW u \in Threads
        PROVE  /\ stage'[u] \in {"read", "removed"} => ReadFresh(u)'
               /\ stage'[u] = "spliced" => WriteFresh(u)'
    <3>1. CASE u = t
      BY <1>9, <3>1
    <3>2. CASE u # t
      BY <1>2, <1>9, <2>1, <3>2 DEF HeldSound
    <3>3. QED
      BY <3>1, <3>2
  <2>3. QED
    BY <2>2 DEF HeldSound, Threads
<1>15. Registered' = R2
  <2>1. \A q : Behind(q)' /\ Behind(q)
    BY <1>1, <1>3 DEF Behind
  <2>2. Touched(t)' = {}
    BY <1>9 DEF Touched
  <2>3. \A u \in Threads : u # t => Touched(u)' = Touched(u)
    BY <1>9, <1>12 DEF Touched
  <2>4. Registered' = {q \in Live : \A u \in Threads : q \notin Touched(u)'}
    BY <1>10, <2>1 DEF Registered, Threads
  <2>5. R = {q \in Live : \A u \in Threads : q \notin Touched(u)}
    BY <2>1 DEF Registered
  <2>6. ASSUME NEW q \in Live, q \in {ev.left, p}
        PROVE  \A u \in Threads : u # t => q \notin Touched(u)
    <3>1. q[1] = word[t]
      BY <1>4, <1>5, <2>6
    <3>2. QED
      BY <1>3, <3>1, HandsApart
  <2>7. \A q \in Live : (\A u \in Threads : q \notin Touched(u)') <=> q \in R2
    <3> TAKE q \in Live
    <3>1. (\A u \in Threads : q \notin Touched(u)') <=> (\A u \in Threads : u # t => q \notin Touched(u))
      BY <2>2, <2>3
    <3>2. (\A u \in Threads : u # t => q \notin Touched(u)) <=> q \in R \/ q \in {ev.left, p}
      <4>1. q # ev.right
        BY <1>4
      <4>2. q \in R <=> (\A u \in Threads : u # t => q \notin Touched(u)) /\ q \notin {ev.left, p}
        BY <1>6, <2>5, <4>1
      <4>3. QED
        BY <2>6, <4>2
    <3>3. q \in R2 <=> q \in R \/ q \in {ev.left, p}
      BY <1>5, <1>7
    <3>4. QED
      BY <3>1, <3>2, <3>3
  <2>8. R2 \subseteq Live
    BY <1>4, <1>7, <2>5
  <2>9. QED
    BY <2>4, <2>7, <2>8
<1>16. BookSound'
  <2>1. /\ UNCHANGED splits /\ BookTyped(book', V) /\ Describes(book', R2, K)
        /\ Len(vocabulary)' = V /\ Registered' = R2 /\ \A q \in R2 : Key'[q] = K[q]
    BY <1>1, <1>8, <1>10, <1>11, <1>15
  <2>2. QED
    BY ONLY <2>1, BookSoundNext
<1>17. QED
  BY <1>1, <1>3, <1>8, <1>9, <1>10, <1>13, <1>14, <1>16, RegionKept

-----------------------------------------------------------------------------
(* The theorem.                                                            *)

LEMMA StutterInv == LInv /\ UNCHANGED vars => LInv'
<1> SUFFICES ASSUME LInv, UNCHANGED vars PROVE LInv'
  OBVIOUS
<1>1. UNCHANGED <<splits, token, alive, next, previous, token_count, vocabulary, book, queue, phase,
                  cursor, best, positions, word, index, held, active_words, stage>>
  BY DEF vars, chain
<1>2. /\ StateTyped /\ ChainSound /\ WordsApart /\ HeldSound /\ BuildSound
      /\ StatesKnown /\ BookSound
  BY DEF LInv
<1>3. Position' = Position /\ Links' = Links
  BY <1>1, PositionsFixed
<1>4. StateTyped' /\ ChainSound' /\ WordsApart' /\ BuildSound' /\ StatesKnown'
  <2>1. StateTyped'
    BY <1>1, <1>2, <1>3 DEF StateTyped, Threads
  <2>2. ChainSound'
    BY <1>1, <1>2, <1>3 DEF ChainSound
  <2>3. WordsApart'
    BY <1>1, <1>2 DEF WordsApart, Threads
  <2>4. BuildSound'
    BY <1>1, <1>2, <1>3 DEF BuildSound
  <2>5. StatesKnown'
    BY <1>1, <1>2 DEF StatesKnown
  <2>6. QED
    BY <2>1, <2>2, <2>3, <2>4, <2>5
<1>5. Live' = Live /\ Key' = Key
  <2>1. UNCHANGED <<splits, chain>>
    BY <1>1 DEF chain
  <2>2. QED
    BY <2>1, ChainKept
<1>6. HeldSound'
  <2>1. ASSUME NEW u \in Threads, stage[u] # "idle"
        PROVE  (ReadFresh(u) => ReadFresh(u)') /\ (WriteFresh(u) => WriteFresh(u)')
    <3> DEFINE w == 0
    <3>1. word[u] # w
      BY <1>2, <2>1 DEF WordsApart
    <3>2. /\ Loop!left_token' = Loop!left_token /\ Loop!right_token' = Loop!right_token
          /\ Loop!merged_token' = Loop!merged_token
      BY <1>1 DEF Loop!left_token, Loop!right_token, Loop!merged_token
    <3>3. /\ \A q \in Position : alive'[q] => alive[q]
          /\ \A q \in Position : q[1] # w =>
                /\ token'[q] = token[q] /\ alive'[q] = alive[q]
                /\ next'[q] = next[q] /\ previous'[q] = previous[q]
      BY <1>1
    <3>4. word'[u] = word[u] /\ held'[u] = held[u] /\ UNCHANGED splits
      BY <1>1
    <3>5. QED
      BY <1>2, <3>1, <3>2, <3>3, <3>4, FreshKept
  <2>2. ASSUME NEW u \in Threads
        PROVE  /\ stage'[u] \in {"read", "removed"} => ReadFresh(u)'
               /\ stage'[u] = "spliced" => WriteFresh(u)'
    BY <1>1, <1>2, <2>1 DEF HeldSound
  <2>3. QED
    BY <2>2 DEF HeldSound, Threads
<1>7. BookSound'
  <2> PICK V : V = Len(vocabulary)
    OBVIOUS
  <2> PICK R : R = Registered
    OBVIOUS
  <2> PICK K : K = Key
    OBVIOUS
  <2>1. Registered' = R
    <3>1. \A q : Behind(q)' <=> Behind(q)
      BY <1>1 DEF Behind
    <3>2. \A u \in Threads : Touched(u)' = Touched(u)
      BY <1>1 DEF Touched
    <3>3. QED
      BY <1>5, <3>1, <3>2 DEF Registered, Threads
  <2>2. /\ UNCHANGED splits /\ BookTyped(book', V) /\ Describes(book', R, K)
        /\ Len(vocabulary)' = V /\ Registered' = R /\ \A q \in R : Key'[q] = K[q]
    BY <1>1, <1>2, <1>5, <2>1 DEF BookSound
  <2>3. QED
    BY ONLY <2>2, BookSoundNext
<1>8. QED
  BY <1>4, <1>6, <1>7 DEF LInv

LEMMA NextInv == LInv /\ [Next]_vars => LInv'
<1> SUFFICES ASSUME LInv, [Next]_vars PROVE LInv'
  OBVIOUS
<1>1. CASE MainStep /\ UNCHANGED stage
  <2>1. Loop!Terminated => UNCHANGED vars
    BY <1>1 DEF Loop!Terminated, Loop!vars, Loop!chain, Loop!thread, vars, chain
  <2>2. QED
    BY <1>1, <2>1, BuildPositionInv, BuildNextWordInv, StartMergingInv, PopIneligibleInv,
       PopOutdatedInv, PopBestInv, FinishInv, JoinInv, EndRoundInv, StutterInv DEF MainStep
<1>2. ASSUME phase # "aborted", NEW t \in AtWork, ThreadStep(t) PROVE LInv'
  <2>1. t \in Threads
    BY ThreadAssumption DEF AtWork, Threads
  <2>2. QED
    BY <1>2, <2>1, TakeWordInv, ReadInv, RemoveCriticalInv, SurgeryInv, AddCriticalInv,
       FinishWordInv DEF ThreadStep
<1>3. CASE UNCHANGED vars
  BY <1>3, StutterInv
<1>4. QED
  BY <1>1, <1>2, <1>3 DEF Next

\* However the critical sections interleave, what the registry holds of a word is exact
\* at every moment at which no thread is between its two critical sections in that word,
\* its totals are those of its words, and std::abort() is never reached.
THEOREM RegistryStaysExact == Spec => []RegistryKeepsUp
<1>1. Spec => []LInv
  BY InitInv, NextInv, PTL DEF Spec
<1>2. QED
  BY <1>1, InvKeepsUp, PTL

\* A thread works in a word of its own, and what it read there before the first critical
\* section, or wrote there after it, is still so when it enters the next one.
THEOREM ThreadsHoldFresh == Spec => [](WordsApart /\ HeldSound)
<1>1. Spec => []LInv
  BY InitInv, NextInv, PTL DEF Spec
<1>2. LInv => WordsApart /\ HeldSound
  BY DEF LInv
<1>3. QED
  BY <1>1, <1>2, PTL
=============================================================================
