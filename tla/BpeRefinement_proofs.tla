------------------------ MODULE BpeRefinement_proofs -------------------------
(***************************************************************************)
(* Incremental counting is exact, and ParallelTask2 implements GreedyBPE.  *)
(*                                                                         *)
(* First the book, for every corpus and every number of threads: between   *)
(* rounds the registered pairs, their counts, groups and lists are those   *)
(* of the chain, and in a round they are those of the chain as it was      *)
(* before the merges whose events are still to be replayed.  The invariant *)
(* that says so, EInv, is stated in ParallelTask2_proofs with its first    *)
(* steps; here are those that change the registry, and what it implies.    *)
(*                                                                         *)
(* Then the refinement.  The book speaks of pairs of tokens, greedy BPE of *)
(* pairs of texts.  The two agree because no two tokens have the same      *)
(* text, and that rests on how left-to-right merging treats equal          *)
(* stretches of bytes:                                                     *)
(*                                                                         *)
(*   - where two stretches between cuts read alike they are cut alike,     *)
(*     through every round (MergedAlike);                                  *)
(*   - so a text that has become a token somewhere is one token wherever   *)
(*     it stands between cuts (MergedWhole, MergedStaysWhole), and what a  *)
(*     pair merges to, still in two parts, is none of the old texts        *)
(*     (MergedNew).                                                        *)
(*                                                                         *)
(* A word is represented as in GreedyBPE, by its bytes and the set of the  *)
(* places at which a token begins.  Within a round the cuts are those the  *)
(* round will end with (GreedyCuts): a step that merges an occurrence      *)
(* leaves them alone, whatever the order of the occurrences of different   *)
(* words, as long as those of one word are merged from left to right       *)
(* (OneMerged).                                                            *)
(***************************************************************************)
EXTENDS ParallelTask2_proofs, BpeRefinement

(* Eligible pairs.                                                         *)

WordsIn(E) == {p[1] : p \in E}

\* A pair's word count is the number of words its edges are in.
LEMMA WordCounts ==
    ASSUME NEW P, Slots(P), NEW b, BookOK(b, P), NEW F, Exact(b, F), NEW s \in DOMAIN b.pairs
    PROVE  /\ b.pairs[s].word_count = Cardinality(WordsIn(EdgesOf(b, s)))
           /\ IsFiniteSet(WordsIn(EdgesOf(b, s)))
<1> DEFINE E == EdgesOf(b, s)
           G == GroupsOf(b, s)
           W == WordsIn(E)
           some(g) == CHOOSE p \in E : b.edge_group[p] = g
           f == [g \in G |-> some(g)[1]]
<1>1. /\ DOMAIN b.edge_group = P /\ no_position \notin Nat
      /\ \A p \in P : b.edge_group[p] # no_position => b.edge_group[p] \in Used(b)
      /\ \A g \in Used(b) : g \in DOMAIN b.group_count
      /\ E \in SUBSET P /\ IsFiniteSet(E) /\ IsFiniteSet(G)
  <2>1. IsFiniteSet(P)
    BY DEF Slots
  <2>2. QED
    BY <2>1, GroupFacts
<1>2. \A g \in Used(b) : g # no_position
  <2>1. b.group_count \in Seq(Nat \cup {no_position})
    BY DEF BookOK, BookTypeOK
  <2>2. DOMAIN b.group_count \subseteq Nat
    BY <2>1
  <2>3. QED
    BY <1>1, <2>2
<1>3. \A p \in E : p \in P /\ b.edge_group[p] \in G
  BY <1>1 DEF EdgesOf, GroupsOf
<1>4. \A g \in G : \E p \in E : b.edge_group[p] = g
  BY <1>2 DEF GroupsOf, EdgesOf, Used, Members
<1>5. \A p, q \in E : b.edge_group[p] = b.edge_group[q] <=> p[1] = q[1]
  BY DEF Exact, GroupsPerWord, EdgesOf
<1>6. \A p \in E : p[1] \in W
  BY DEF WordsIn
<1>7. \A w \in W : \E p \in E : p[1] = w
  BY DEF WordsIn
<1>8. b.pairs[s].word_count = Cardinality(G)
  BY DEF Exact, CountsSound
<1> HIDE DEF E, G, W
<1>9. \A g \in G : some(g) \in E /\ b.edge_group[some(g)] = g
  BY <1>4
<1> HIDE DEF some
<1>10. f \in [G -> W]
  BY <1>6, <1>9
<1>11. \A g, h \in G : f[g] = f[h] => g = h
  BY <1>5, <1>9
<1>12. \A w \in W : \E g \in G : f[g] = w
  <2> TAKE w \in W
  <2>1. PICK p \in E : p[1] = w
    BY <1>7
  <2>2. b.edge_group[p] \in G
    BY <1>3
  <2>3. some(b.edge_group[p])[1] = p[1]
    BY <1>5, <1>9, <2>2
  <2>4. QED
    BY <2>1, <2>2, <2>3
<1> HIDE DEF f
<1>13. f \in Bijection(G, W)
  BY <1>10, <1>11, <1>12 DEF Bijection, Injection, Surjection, IsInjective
<1>14. ExistsBijection(G, W)
  BY <1>13 DEF ExistsBijection
<1>15. IsFiniteSet(W) /\ Cardinality(W) = Cardinality(G)
  BY <1>1, <1>14, FS_Bijection
<1>16. QED
  BY <1>8, <1>15 DEF W, E

\* A pair can be chosen: it occurs in two words, and counts for something.
EligibleIn(b, s) == b.pairs[s].word_count >= 2 /\ b.pairs[s].count # 0

\* A pair that can be chosen with fewer edges could be chosen with more.
LEMMA EligibleBefore ==
    ASSUME NEW P, Slots(P), NEW F \in [P -> Nat], NEW b, NEW S, Sound(b, P, F, S),
           NEW c, NEW T, Sound(c, P, F, T), NEW s \in DOMAIN b.pairs, s \in DOMAIN c.pairs,
           EdgesOf(c, s) \subseteq EdgesOf(b, s), EligibleIn(c, s)
    PROVE  EligibleIn(b, s)
<1> DEFINE D == EdgesOf(c, s)
           E == EdgesOf(b, s)
<1>1. BookOK(b, P) /\ BookOK(c, P) /\ Exact(b, F) /\ Exact(c, F)
  BY DEF Sound
<1>2. D \in SUBSET P /\ E \in SUBSET P /\ IsFiniteSet(D) /\ IsFiniteSet(E) /\ D \subseteq E
  <2>1. IsFiniteSet(P)
    BY DEF Slots
  <2>2. QED
    BY <1>1, <2>1, GroupFacts
<1>3. /\ b.pairs[s].word_count = Cardinality(WordsIn(E)) /\ IsFiniteSet(WordsIn(E))
      /\ c.pairs[s].word_count = Cardinality(WordsIn(D)) /\ IsFiniteSet(WordsIn(D))
  BY <1>1, WordCounts
<1>4. b.pairs[s].count = Weight(E, F) /\ c.pairs[s].count = Weight(D, F)
  BY <1>1 DEF Exact, CountsSound
<1> HIDE DEF D, E
<1>5. WordsIn(D) \subseteq WordsIn(E)
  BY <1>2 DEF WordsIn
<1>6. /\ Cardinality(WordsIn(D)) <= Cardinality(WordsIn(E))
      /\ Cardinality(WordsIn(D)) \in Nat /\ Cardinality(WordsIn(E)) \in Nat
  BY <1>3, <1>5, FS_Subset, FS_CardinalityType
<1>7. Weight(D, F) <= Weight(E, F) /\ Weight(D, F) \in Nat /\ Weight(E, F) \in Nat
  <2>1. /\ IsFiniteSet(Weighted(D, F)) /\ Weight(D, F) \in Nat
        /\ IsFiniteSet(Weighted(E, F)) /\ Weight(E, F) \in Nat
    BY <1>2, WeightedFinite
  <2>2. Weighted(D, F) \subseteq Weighted(E, F)
    BY <1>2 DEF Weighted
  <2>3. QED
    BY <2>1, <2>2, FS_Subset DEF Weight
<1>8. QED
  BY <1>3, <1>4, <1>6, <1>7 DEF EligibleIn

-----------------------------------------------------------------------------
(* A merge is worked off.                                                  *)

\* What the lemmas on books and chains ask for, in a round.
LEMMA RoundReady ==
    ASSUME IInv, RInv, EInv, InRound
    PROVE  /\ splits \in Corpora /\ Sound(book, Position, Frequencies, Listed)
           /\ NewbornsListed(book, Listed)
           /\ DOMAIN vocabulary \in SUBSET Nat /\ merged_token \in DOMAIN vocabulary
           /\ merged_token \in Nat /\ left_token \in Nat /\ right_token \in Nat
           /\ left_token # merged_token /\ right_token # merged_token
           /\ KeysIn(book, DOMAIN vocabulary) /\ StampsSound(book, merged_token)
           /\ KeysSound(book, merged_token) /\ best \in DOMAIN book.pairs
<1>1. /\ splits \in Corpora /\ DOMAIN vocabulary \in SUBSET Nat
      /\ merged_token \in DOMAIN vocabulary /\ KeysIn(book, DOMAIN vocabulary)
  BY RoundFacts
<1>2. Len(vocabulary) \in Nat
  BY InvFacts
<1>3. /\ left_token \in 1..(Len(vocabulary) - 1) /\ right_token \in 1..(Len(vocabulary) - 1)
      /\ best \in DOMAIN book.pairs
  BY DEF IInv, PairsKnown
<1>4. merged_token \in Nat /\ left_token # merged_token /\ right_token # merged_token
  BY <1>1, <1>2, <1>3 DEF merged_token
<1>5. StampsSound(book, merged_token)
  BY DEF RInv, StampsInTime
<1>6. KeysSound(book, merged_token)
  BY DEF EInv, KeysKnown, KeysSound
<1>7. NewbornsListed(book, Listed)
  BY DEF EInv, BestApart, NewbornsListed, Listed, InRound
<1>8. Sound(book, Position, Frequencies, Listed)
  BY DEF EInv, BookExact
<1>9. QED
  BY <1>1, <1>2, <1>3, <1>4, <1>5, <1>6, <1>7, <1>8

\* The parts of the invariant that only depend on the book.
LEMMA WorkedOff ==
    ASSUME IInv, RInv, EInv, InRound, phase' = phase,
           splits' = splits, UNCHANGED <<vocabulary, queue, best>>,
           Stepped(book, book', Listed, DOMAIN vocabulary, merged_token)
    PROVE  /\ NeverAborted' /\ BookExact' /\ KeysKnown' /\ QueueComplete' /\ BestApart'
           /\ left_token' = left_token /\ right_token' = right_token
           /\ merged_token' = merged_token
<1> DEFINE V == DOMAIN vocabulary
           S == WithNew(Listed, book, book')
<1>1. /\ Sound(book', Position, Frequencies, S) /\ KeysSound(book', merged_token)
      /\ Ages(book, book', V, merged_token) /\ book'.aborted = book.aborted
      /\ \A k \in DOMAIN book.pairs : ~Newborn(book, k) => EdgesOf(book', k) \subseteq EdgesOf(book, k)
  BY DEF Stepped
<1>2. Kept(book, book', V) /\ Grows(book, book')
  BY <1>1 DEF Ages
<1>3. left_token' = left_token /\ right_token' = right_token /\ merged_token' = merged_token
  BY <1>2, RoundKept
<1>4. /\ best \in DOMAIN book.pairs /\ NewbornsListed(book, Listed)
      /\ Sound(book, Position, Frequencies, Listed)
  BY RoundReady
<1>5. DOMAIN book.pairs \subseteq DOMAIN book'.pairs
  BY <1>2 DEF Grows
<1>6. \A s \in DOMAIN book.pairs : Newborn(book', s) => Newborn(book, s)
  BY <1>2 DEF Grows
<1>7. NewbornsListed(book', S)
  BY <1>1, <1>4, NewbornsStayListed
<1>8. Listed' \subseteq S
  <2> SUFFICES ASSUME NEW s \in Listed' PROVE s \in S
    OBVIOUS
  <2>1. /\ s \in DOMAIN book'.pairs /\ s # best
        /\ phase = "build" \/ Team = Threads \/ Queued(s) \/ Newborn(book', s)
    BY DEF Listed, Queued
  <2>2. CASE s \in DOMAIN book.pairs
    BY <1>6, <2>1, <2>2 DEF Listed, WithNew
  <2>3. CASE s \notin DOMAIN book.pairs
    BY <2>1, <2>3 DEF WithNew
  <2>4. QED
    BY <2>2, <2>3
<1>9. Position' = Position /\ Frequencies' = Frequencies
  BY SameInput
<1>10. BookExact'
  <2> HIDE DEF S
  <2>1. BookOK(book', Position)
    BY <1>1 DEF Sound
  <2>2. Sound(book', Position, Frequencies, Listed')
    BY <1>1, <1>8, <2>1, SoundSame
  <2>3. QED
    BY <1>9, <2>2 DEF BookExact
<1>11. KeysKnown'
  BY <1>1, <1>3 DEF KeysKnown, KeysSound
<1>12. NeverAborted'
  BY <1>1 DEF EInv, NeverAborted
<1>13. \A s : Queued(s)' <=> Queued(s)
  BY DEF Queued
<1>14. QueueComplete'
  <2> SUFFICES ASSUME Team = Threads, NEW s \in DOMAIN book'.pairs, EligibleIn(book', s),
                      s # best, ~Newborn(book', s)
               PROVE  Queued(s)
    BY <1>13 DEF QueueComplete, Eligible, EligibleIn
  <2>1. s \in DOMAIN book.pairs
    <3>1. \A k \in DOMAIN book'.pairs \ DOMAIN book.pairs : Newborn(book', k)
      BY DEF Stepped
    <3>2. QED
      BY <3>1
  <2>2. ~Newborn(book, s)
    BY <1>2 DEF Grows
  <2>3. EdgesOf(book', s) \subseteq EdgesOf(book, s)
    BY <1>1, <2>1, <2>2
  <2>4. Slots(Position) /\ Frequencies \in [Position -> Nat]
    BY ExactFacts
  <2> HIDE DEF S
  <2>5. EligibleIn(book, s)
    BY <1>1, <1>4, <2>1, <2>3, <2>4, EligibleBefore
  <2>6. phase # "build"
    BY DEF InRound
  <2>7. QED
    BY <2>1, <2>2, <2>5, <2>6 DEF EInv, QueueComplete, Eligible, EligibleIn
<1>15. BestApart'
  <2> SUFFICES ASSUME NEW s \in DOMAIN book'.pairs, Queued(s) \/ Newborn(book', s)
               PROVE  s # best
    BY <1>13 DEF BestApart
  <2>1. phase # "build"
    BY DEF InRound
  <2>2. CASE s \in DOMAIN book.pairs
    BY <1>6, <2>1, <2>2 DEF EInv, BestApart
  <2>3. CASE s \notin DOMAIN book.pairs
    BY <1>4, <2>3
  <2>4. QED
    BY <2>2, <2>3
<1>16. QED
  BY <1>3, <1>10, <1>11, <1>12, <1>14, <1>15

\* The book after Rewire, when nothing aborts.
LEMMA RewireRuns ==
    ASSUME NEW ev, Rewire(ev), RemoveEdges(book, ev).aborted = book.aborted, EInv
    PROVE  book' = AddEdges(RemoveEdges(book, ev), ev, merged_token) /\ phase' = phase
BY DEF Rewire, EInv, NeverAborted

\* An occurrence that the sequential loop merges can be worked off.
LEMMA OccurrenceWorkable ==
    ASSUME IInv, EInv, phase = "sequential", NEW p \in Position, Unmerged(p),
           NEW n, n = Neighbours(p), NEW ev, ev = MergeEvent(n)
    PROVE  Workable(book, ev, DOMAIN vocabulary)
<1> DEFINE V == DOMAIN vocabulary
<1>1. InRound
  BY DEF InRound
<1>2. alive[p] /\ alive[next[p]]
  BY DEF Unmerged, pair_is_at, is_live
<1>3. /\ splits \in Corpora /\ ChainTyped /\ ChainOrdered /\ ChainLinked
  BY <1>1, RoundFacts
<1>4. /\ n.right = next[p] /\ n.right \in Position /\ alive[n.right]
      /\ n.after = next[n.right] /\ n.after \in Position
      /\ n.left \in Optional(Position) /\ n.left # p
  BY <1>2, <1>3, NeighbourFacts
<1>5. /\ ev.position = p /\ ev.right = n.right /\ ev.left = n.left
      /\ ev.after = IF alive[n.after] THEN n.after ELSE no_position
      /\ ev.left # no_position => ev.left_token \in V
      /\ ev.after # no_position => ev.after_token \in V
  BY <1>2, MergeEventFacts
<1>6. PendingEvents = {}
  BY DEF IInv, ThreadsIdle, PendingEvents
<1> HIDE DEF V
<1>7. ASSUME ev.after = no_position PROVE book.edge_group[ev.right] = no_position
  <2>1. no_position \notin Position
    BY <1>3, PositionsTyped
  <2>2. ~alive[next[n.right]]
    BY <1>4, <1>5, <1>7, <2>1
  <2>3. QED
    BY <1>4, <1>5, <1>6, <2>2 DEF IInv, EndsFree
<1>8. ev.after \in Optional(Position)
  BY <1>4, <1>5 DEF Optional
<1>9. QED
  BY <1>4, <1>5, <1>7, <1>8 DEF Workable, V

\* The first position of the sequential list is the leftmost of its word.
LEMMA TodoHead ==
    ASSUME IInv, EInv, phase = "sequential", positions # << >>
    PROVE  /\ Todo \subseteq Position /\ positions[1] \in Todo
           /\ \A x \in Todo : x[1] = positions[1][1] /\ x # positions[1]
                                 => positions[1][2] < x[2]
<1>1. positions \in Seq(Position) /\ InOrder(positions)
  BY DEF IInv, TypeOK, EInv, PositionsInOrder
<1>2. Todo = {positions[i] : i \in DOMAIN positions}
  BY DEF Todo
<1>3. 1 \in DOMAIN positions /\ \A i \in DOMAIN positions : positions[i] \in Position
  BY <1>1
<1>4. \A i \in DOMAIN positions : i # 1 /\ positions[i][1] = positions[1][1]
                                     => positions[1][2] < positions[i][2]
  BY <1>1, HeadFirst
<1>5. Todo \subseteq Position /\ positions[1] \in Todo
  BY <1>2, <1>3
<1>6. QED
  BY <1>2, <1>4, <1>5

\* What is left of it when its first position is done with.
LEMMA TodoTail ==
    ASSUME IInv, EInv, phase = "sequential", phase' = "sequential",
           positions # << >>, positions' = Tail(positions)
    PROVE  /\ Todo' \subseteq Todo \ {positions[1]}
           /\ \A w : CurrentWord(w)' /\ w # positions[1][1]
                        => \A x \in Todo' : x[1] # positions[1][1]
           /\ PositionsInOrder'
<1>1. positions \in Seq(Position)
  BY DEF IInv, TypeOK
<1>2. InOrder(positions)
  BY DEF EInv, PositionsInOrder
<1>3. /\ \A i \in DOMAIN positions' : /\ i \in Nat \ {0} /\ i + 1 \in DOMAIN positions
                                      /\ positions'[i] = positions[i + 1]
      /\ \A i \in DOMAIN positions : i \in Nat \ {0} /\ positions[i] \in Position
  BY <1>1, TailFacts
<1>4. /\ Todo = {positions[i] : i \in DOMAIN positions}
      /\ Todo' = {positions'[i] : i \in DOMAIN positions'}
  BY DEF Todo
<1>5. ASSUME NEW i \in DOMAIN positions, i # 1, positions[i][1] = positions[1][1]
      PROVE  /\ positions[1][2] < positions[i][2]
             /\ Tail(positions) # << >> /\ Tail(positions)[1][1] = positions[1][1]
  BY <1>1, <1>2, <1>5, HeadFirst
<1>6. \A i \in DOMAIN positions : positions[i][2] \in Nat
  <2>1. Position \subseteq Nat \X Nat
    BY ExactFacts
  <2>2. QED
    BY <1>3, <2>1
<1>7. \A i \in DOMAIN positions : i # 1 => positions[i] # positions[1]
  BY <1>3, <1>5, <1>6
<1>8. Todo' \subseteq Todo \ {positions[1]}
  <2> SUFFICES ASSUME NEW i \in DOMAIN positions' PROVE positions'[i] \in Todo \ {positions[1]}
    BY <1>4
  <2>1. i + 1 \in DOMAIN positions /\ i + 1 # 1 /\ positions'[i] = positions[i + 1]
    BY <1>3
  <2>2. QED
    BY <1>4, <1>7, <2>1
<1>9. ASSUME NEW w, CurrentWord(w)', w # positions[1][1], NEW x \in Todo'
      PROVE  x[1] # positions[1][1]
  <2>1. positions' # << >> /\ positions'[1][1] = w
    BY <1>9 DEF CurrentWord
  <2>2. PICK i \in DOMAIN positions' : x = positions'[i]
    BY <1>4
  <2>3. i + 1 \in DOMAIN positions /\ i + 1 # 1 /\ x = positions[i + 1]
    BY <1>3, <2>2
  <2>4. QED
    BY <1>5, <1>9, <2>1, <2>3
<1>10. PositionsInOrder'
  <2>1. InOrder(Tail(positions))
    BY <1>1, <1>2, TailInOrder
  <2>2. QED
    BY <2>1 DEF PositionsInOrder
<1>11. QED
  BY <1>8, <1>9, <1>10

LEMMA NoEventsFit ==
    ASSUME NEW ch, NEW P, NEW l, NEW merged, NEW p
    PROVE  Fits(ch, {}, P, l, merged) /\ Follow({}, p)
BY DEF Fits, EventsApart, Follow

LEMMA MergePositionExact ==
    ASSUME IInv, IInv', ChainIntact, ChainIntact', RInv, EInv, MergePosition
    PROVE  EInv'
<1>p. PICK p : p = Head(positions)
  OBVIOUS
<1>n. PICK n : n = Neighbours(p)
  OBVIOUS
<1>e. PICK ev : ev = MergeEvent(n)
  OBVIOUS
<1> DEFINE V == DOMAIN vocabulary
           T == Todo
           S == Listed
<1>1. /\ splits' = splits /\ UNCHANGED <<vocabulary, queue, best, thread, events>>
      /\ phase = "sequential" /\ positions # << >> /\ positions' = Tail(positions)
      /\ Unmerged(p) /\ Rewire(ev) /\ Splice(n, merged_token)
  BY <1>p, <1>n, <1>e DEF MergePosition, Unmerged
<1>2. InRound
  BY <1>1 DEF InRound
<1>3. p = positions[1] /\ p \in Position
  <2>1. positions \in Seq(Position)
    BY DEF IInv, TypeOK
  <2>2. QED
    BY <1>1, <1>p, <2>1, TailFacts
<1>4. /\ splits \in Corpora /\ Sound(book, Position, Frequencies, S) /\ NewbornsListed(book, S)
      /\ V \in SUBSET Nat /\ merged_token \in V /\ merged_token \in Nat
      /\ left_token \in Nat /\ right_token \in Nat
      /\ left_token # merged_token /\ right_token # merged_token
      /\ KeysIn(book, V) /\ StampsSound(book, merged_token) /\ KeysSound(book, merged_token)
  BY <1>2, RoundReady
<1>5. PendingEvents = {} /\ PendingEvents' = {}
  BY <1>1, SamePending DEF IInv, ThreadsIdle, PendingEvents
<1>6. /\ Occurs(Chain, Position, p, n.right, n.after, left_token, right_token)
      /\ EventOf(Chain, ev, p, n.right, n.after)
      /\ ev.position = p /\ ev.right = n.right /\ ev \in EventSet
  BY <1>1, <1>3, <1>n, <1>e, OccurrenceFacts
<1>7. SplicedTo(Chain, Chain', Position, p, n.right, n.after, merged_token)
  BY <1>1, <1>3, <1>4, <1>n, OccurrenceSpliced
<1>8. Position' = Position
  BY <1>1, SameInput
<1>9. ChainOK(Chain, Position) /\ ChainOK(Chain', Position)
  BY <1>8, ChainFacts, ChainFactsNext
<1>10. Slots(Position) /\ DOMAIN book.edge_group = Position /\ no_position \notin Position
  BY ExactFacts
<1>11. /\ Fits(Chain, {}, Position, left_token, merged_token) /\ Follow({}, p)
  BY NoEventsFit
<1>12. Describes(book, Chain, {}, left_token, right_token)
  BY <1>1, <1>5 DEF EInv, BookDescribes
<1>13. {} \cup {ev} = {ev}
  OBVIOUS
<1>14. Describes(book, Chain', {ev}, left_token, right_token)
  <2>1. Describes(book, Chain', {} \cup {ev}, left_token, right_token)
    BY <1>6, <1>7, <1>9, <1>10, <1>11, <1>12, ApplyDescribes
  <2>2. QED
    BY <1>13, <2>1
<1>15. Fits(Chain', {ev}, Position, left_token, merged_token)
  <2>1. Fits(Chain', {} \cup {ev}, Position, left_token, merged_token)
    BY <1>6, <1>7, <1>9, <1>10, <1>11, ApplyFits
  <2>2. QED
    BY <1>13, <2>1
<1>16. Workable(book, ev, V)
  BY <1>1, <1>3, <1>n, <1>e, OccurrenceWorkable
<1>17. NewbornsBehind(book, T, p[1])
  <2>1. p[1] \in DOMAIN splits
    BY <1>3, <1>4, PositionsTyped
  <2>2. QED
    BY <1>1, <1>3, <2>1 DEF EInv, NewbornsInOrder, CurrentWord
<1>18. T \subseteq Position /\ p \in T
       /\ \A x \in T : x[1] = p[1] /\ x # p => p[2] < x[2]
  BY <1>1, <1>3, TodoHead
<1>19. TodoFrom(T, Position, ev) /\ FirstOfWord({ev}, ev) /\ ev \in {ev}
  BY <1>6, <1>18 DEF TodoFrom, FirstOfWord
<1>20. LET c == RemoveEdges(book, ev)
       IN  /\ c.aborted = book.aborted
           /\ Replayed(book, AddEdges(c, ev, merged_token), S, V, Chain', {ev},
                       left_token, right_token, merged_token, ev, T)
  <2> HIDE DEF S, T, V
  <2>1. NewbornsBehind(book, T, ev.position[1])
    BY <1>6, <1>17
  <2>2. QED
    BY <1>4, <1>9, <1>14, <1>15, <1>16, <1>19, <2>1, ReplayMerge
<1>21. book' = AddEdges(RemoveEdges(book, ev), ev, merged_token) /\ phase' = phase
  BY <1>1, <1>20, RewireRuns
<1>22. Replayed(book, book', S, V, Chain', {ev}, left_token, right_token, merged_token, ev, T)
  BY <1>20, <1>21
<1>23. /\ Stepped(book, book', S, V, merged_token)
       /\ Describes(book', Chain', {}, left_token, right_token)
       /\ NewbornsBehind(book', T \ {p}, p[1])
  <2>1. {ev} \ {ev} = {}
    OBVIOUS
  <2>2. QED
    BY <1>6, <1>22, <2>1 DEF Replayed
<1>24. /\ NeverAborted' /\ BookExact' /\ KeysKnown' /\ QueueComplete' /\ BestApart'
       /\ left_token' = left_token /\ right_token' = right_token
       /\ merged_token' = merged_token
  BY <1>1, <1>2, <1>21, <1>23, WorkedOff
<1>25. phase' = "sequential"
  BY <1>1, <1>21
<1>26. BookDescribes'
  BY <1>5, <1>23, <1>24 DEF BookDescribes
<1>27. BuildExact' /\ EventsFit' /\ Region' /\ WalkExact'
  BY <1>25 DEF BuildExact, EventsFit, Region, WalkExact
<1>28. EventsInOrder' /\ Idle'
  BY <1>1, <1>25 DEF EInv, EventsInOrder, Idle, thread
<1>29. /\ T' \subseteq T \ {p} /\ PositionsInOrder'
       /\ \A w : CurrentWord(w)' /\ w # p[1] => \A x \in T' : x[1] # p[1]
  BY <1>1, <1>3, <1>25, TodoTail
<1>30. NewbornsInOrder'
  <2> SUFFICES ASSUME NEW w \in DOMAIN splits, CurrentWord(w)'
               PROVE  NewbornsBehind(book', T', w)
    BY <1>1 DEF NewbornsInOrder
  <2>1. NewbornsBehind(book', T', p[1])
    BY <1>23, <1>29, BehindFewer
  <2>2. w # p[1] => \A x \in T' : x[1] # p[1]
    BY <1>29
  <2>3. QED
    BY <2>1, <2>2, NextWordBehind
<1>31. AllCovered'
  <2> SUFFICES ASSUME NEW q \in Position, Unmerged(q)'
               PROVE  \E i \in DOMAIN positions' : positions'[i] = q
    BY <1>8, <1>25 DEF AllCovered
  <2>1. n.right # p
    BY <1>6, <1>9, <1>10, OccursFacts
  <2>2. Unmerged(q) /\ q # p
    BY <1>4, <1>7, <1>9, <1>10, <1>24, <2>1, UnmergedFewer
  <2>3. PICK i \in DOMAIN positions : positions[i] = q
    BY <1>1, <2>2 DEF EInv, AllCovered
  <2>4. positions \in Seq(Position)
    BY DEF IInv, TypeOK
  <2>5. i \in Nat \ {0} /\ i - 1 \in DOMAIN positions'
    BY <1>1, <1>3, <2>2, <2>3, <2>4, TailFacts
  <2>6. positions'[i - 1] = positions[(i - 1) + 1]
    BY <1>1, <2>4, <2>5, TailFacts
  <2>7. (i - 1) + 1 = i
    BY <2>5
  <2>8. QED
    BY <2>3, <2>5, <2>6, <2>7
<1>32. QED
  BY <1>24, <1>26, <1>27, <1>28, <1>29, <1>30, <1>31 DEF EInv

\* An event of the replay can be worked off.
LEMMA EventWorkable ==
    ASSUME IInv, phase = "replay", NEW ev \in PendingEvents, ev \in EventSet
    PROVE  Workable(book, ev, DOMAIN vocabulary)
<1>1. InRound
  BY DEF InRound
<1>2. no_position \notin Position
  BY <1>1, RoundFacts, PositionsTyped
<1>3. /\ ev.left # no_position => ev.left # ev.position /\ ev.left_token \in DOMAIN vocabulary
      /\ ev.after # no_position => ev.after_token \in DOMAIN vocabulary
      /\ ev.after = no_position => book.edge_group[ev.right] = no_position
  BY DEF IInv, EventsSound
<1>4. QED
  BY <1>2, <1>3 DEF Workable, EventSet

\* If the word w is not the next one to be replayed, no event of it is left.
WordDone(w) ==
    \A u \in Threads : /\ events[u] # << >> /\ events[u][1].position[1] # w
                       /\ \A v \in Threads : v < u => events[v] = << >>
                       => \A e \in PendingEvents : e.position[1] # w

\* The next event, and what is left when it has been taken from its thread's list.
LEMMA EventTaken ==
    ASSUME IInv, EInv, phase = "replay", NEW t \in Threads, events[t] # << >>,
           \A u \in Threads : u < t => events[u] = << >>,
           events' = [events EXCEPT ![t] = Tail(@)], NEW ev, ev = events[t][1]
    PROVE  /\ ev \in PendingEvents /\ ev \in EventSet /\ FirstOfWord(PendingEvents, ev)
           /\ PendingEvents' = PendingEvents \ {ev}
           /\ EventsInOrder' /\ WordDone(ev.position[1])'
<1>1. events \in [Threads -> Seq(EventSet)] /\ events[t] \in Seq(EventSet)
  BY DEF IInv, TypeOK
<1>2. /\ events'[t] = Tail(events[t]) /\ \A u \in Threads \ {t} : events'[u] = events[u]
  BY <1>1
<1>3. /\ 1 \in DOMAIN events[t] /\ ev \in EventSet
      /\ \A i \in DOMAIN events'[t] : /\ i \in Nat \ {0} /\ i + 1 \in DOMAIN events[t]
                                      /\ events'[t][i] = events[t][i + 1]
      /\ \A i \in DOMAIN events[t] : i \in Nat \ {0} /\ (i # 1 => i - 1 \in DOMAIN events'[t])
  BY <1>1, <1>2, TailFacts
<1>4. ev \in PendingEvents
  BY <1>3 DEF PendingEvents
<1> DEFINE x == [i \in DOMAIN events[t] |-> events[t][i].position]
<1>5. InOrder(x)
  BY DEF EInv, EventsInOrder
<1>6. DOMAIN x = DOMAIN events[t] /\ \A i \in DOMAIN events[t] : x[i] = events[t][i].position
  OBVIOUS
<1> HIDE DEF x
<1>7. \A e \in EventSet : e.position[2] \in Nat
  <2>1. Position \subseteq Nat \X Nat
    BY ExactFacts
  <2>2. QED
    BY <2>1 DEF EventSet
\* Within its thread the event is the leftmost of its word, whose events come first.
<1>8. ASSUME NEW i \in DOMAIN events[t], i # 1, events[t][i].position[1] = ev.position[1]
      PROVE  /\ ev.position[2] < events[t][i].position[2]
             /\ 2 \in DOMAIN events[t] => events[t][2].position[1] = ev.position[1]
  <2>1. x[1] = ev.position /\ x[i] = events[t][i].position /\ 1 < i /\ i \in Nat
    BY <1>3, <1>6, <1>8
  <2>a. 1 \in DOMAIN x /\ i \in DOMAIN x /\ x[1][1] = x[i][1]
    BY <1>3, <1>6, <1>8, <2>1
  <2>b. x[1][2] < x[i][2] /\ \A k \in 1..i : x[k][1] = x[1][1]
    BY <1>5, <2>1, <2>a DEF InOrder
  <2>2. ev.position[2] < events[t][i].position[2] /\ \A k \in 1..i : x[k][1] = x[1][1]
    BY <2>1, <2>b
  <2>3. 2 \in 1..i
    BY <2>1
  <2>4. QED
    BY <1>6, <2>1, <2>2, <2>3
\* Other threads have no events of its word.
<1>9. \A u \in Threads : \A i \in DOMAIN events[u] :
         events[u][i].position[1] = ev.position[1] => u = t
  <2>1. \A u \in Threads : \A i \in DOMAIN events[u] : Owner(events[u][i].position[1]) = u
    BY DEF IInv, ThreadsOwn
  <2>2. QED
    BY <1>3, <2>1
<1>10. \A u \in Threads : \A i \in DOMAIN events[u] : (u = t /\ i = 1) \/ events[u][i] # ev
  <2>1. ev.position[2] \in Nat
    BY <1>3, <1>7
  <2>2. QED
    BY <1>8, <1>9, <2>1
<1>11. FirstOfWord(PendingEvents, ev)
  <2> SUFFICES ASSUME NEW u \in Threads, NEW i \in DOMAIN events[u], events[u][i] # ev,
                      events[u][i].position[1] = ev.position[1]
               PROVE  ev.position[2] < events[u][i].position[2]
    BY DEF FirstOfWord, PendingEvents
  <2>1. u = t
    BY <1>9
  <2>2. i # 1
    BY <2>1
  <2>3. QED
    BY <1>8, <2>1, <2>2
<1>12. PendingEvents' = PendingEvents \ {ev}
  <2>1. ASSUME NEW u \in Threads, NEW i \in DOMAIN events'[u]
        PROVE  events'[u][i] \in PendingEvents \ {ev}
    <3>1. CASE u = t
      <4>1. i + 1 \in DOMAIN events[t] /\ i + 1 # 1 /\ events'[t][i] = events[t][i + 1]
        BY <1>3, <2>1, <3>1
      <4>2. QED
        BY <1>10, <3>1, <4>1 DEF PendingEvents
    <3>2. CASE u # t
      BY <1>2, <1>10, <2>1, <3>2 DEF PendingEvents
    <3>3. QED
      BY <3>1, <3>2
  <2>2. ASSUME NEW u \in Threads, NEW i \in DOMAIN events[u], events[u][i] # ev
        PROVE  events[u][i] \in PendingEvents'
    <3>1. CASE u = t
      <4>1. i # 1
        BY <2>2, <3>1
      <4>2. i - 1 \in DOMAIN events'[t] /\ i \in Nat
        BY <1>3, <2>2, <3>1, <4>1
      <4>3. events'[t][i - 1] = events[t][(i - 1) + 1] /\ (i - 1) + 1 = i
        BY <1>3, <4>2
      <4>4. events[u][i] = events'[t][i - 1]
        BY <3>1, <4>3
      <4>5. QED
        BY <4>2, <4>4 DEF PendingEvents
    <3>2. CASE u # t
      BY <1>2, <2>2, <3>2 DEF PendingEvents
    <3>3. QED
      BY <3>1, <3>2
  <2>3. \A e \in PendingEvents' : e \in PendingEvents \ {ev}
    BY <2>1 DEF PendingEvents
  <2>4. \A e \in PendingEvents \ {ev} : e \in PendingEvents'
    BY <2>2 DEF PendingEvents
  <2>5. QED
    BY <2>3, <2>4
<1>13. EventsInOrder'
  <2> SUFFICES ASSUME NEW u \in Threads
               PROVE  InOrder([i \in DOMAIN events'[u] |-> events'[u][i].position])
    BY DEF EventsInOrder
  <2>1. CASE u # t
    BY <1>2, <2>1 DEF EInv, EventsInOrder
  <2>2. CASE u = t
    <3> DEFINE y == [i \in DOMAIN events'[t] |-> events'[t][i].position]
    <3>1. /\ DOMAIN y = DOMAIN events'[t]
          /\ \A i \in DOMAIN y : y[i] = x[i + 1] /\ i + 1 \in DOMAIN x /\ i \in Nat
      BY <1>3, <1>6
    <3> HIDE DEF y
    <3>2. ASSUME NEW i \in DOMAIN y, NEW j \in DOMAIN y, i < j, y[i][1] = y[j][1]
          PROVE  y[i][2] < y[j][2] /\ \A k \in i..j : y[k][1] = y[i][1]
      <4>1. /\ y[i] = x[i + 1] /\ y[j] = x[j + 1] /\ i + 1 < j + 1 /\ i \in Nat /\ j \in Nat
            /\ i + 1 \in DOMAIN x /\ j + 1 \in DOMAIN x
        BY <3>1, <3>2
      <4>2. x[i + 1][2] < x[j + 1][2] /\ \A k \in (i + 1)..(j + 1) : x[k][1] = x[i + 1][1]
        BY <1>5, <3>2, <4>1 DEF InOrder
      <4>3. ASSUME NEW k \in i..j PROVE y[k][1] = y[i][1]
        <5>1. DOMAIN y = 1..Len(events'[t]) /\ Len(events'[t]) \in Nat
          <6>1. events'[t] \in Seq(EventSet)
            BY <1>1, <1>2
          <6>2. QED
            BY <3>1, <6>1
        <5>2. k \in DOMAIN y /\ k + 1 \in (i + 1)..(j + 1)
          BY <3>2, <4>1, <4>3, <5>1
        <5>3. y[k] = x[k + 1]
          BY <3>1, <5>2
        <5>4. QED
          BY <4>1, <4>2, <5>2, <5>3
      <4>4. QED
        BY <4>1, <4>2, <4>3
    <3>3. InOrder(y)
      BY <3>2 DEF InOrder
    <3>4. [i \in DOMAIN events'[u] |-> events'[u][i].position] = y
      BY <2>2 DEF y
    <3>5. QED
      BY <3>3, <3>4
  <2>3. QED
    BY <2>1, <2>2
<1>14. ASSUME NEW u \in Threads, events'[u] # << >>,
              \A v \in Threads : v < u => events'[v] = << >>,
              events'[u][1].position[1] # ev.position[1],
              NEW e \in PendingEvents', e.position[1] = ev.position[1]
       PROVE  FALSE
  <2>0. PICK v \in Threads : \E i \in DOMAIN events'[v] : e = events'[v][i]
    BY <1>14 DEF PendingEvents
  <2>1. PICK i \in DOMAIN events'[v] : e = events'[v][i]
    BY <2>0
  <2>2. v = t
    <3>1. v # t => events'[v] = events[v]
      BY <1>2
    <3>2. QED
      BY <1>9, <1>14, <2>1, <3>1
  <2>3. /\ i + 1 \in DOMAIN events[t] /\ i + 1 # 1 /\ events'[t][i] = events[t][i + 1] /\ i \in Nat \ {0}
    BY <1>3, <2>1, <2>2
  <2>4. 2 \in DOMAIN events[t] /\ 1 \in DOMAIN events'[t]
    <3>1. /\ DOMAIN events[t] = 1..Len(events[t]) /\ Len(events[t]) \in Nat
      BY <1>1
    <3>2. 2 \in DOMAIN events[t]
      BY <2>3, <3>1
    <3>3. 2 # 1 /\ 2 - 1 = 1
      OBVIOUS
    <3>4. QED
      BY <1>3, <3>2, <3>3
  <2>5. events'[t][1].position[1] = ev.position[1]
    <3>1. events'[t][1] = events[t][2]
      BY <1>3, <2>4
    <3>2. QED
      BY <1>8, <1>14, <2>1, <2>2, <2>3, <2>4, <3>1
  <2>6. u = t
    <3>1. u \in Nat /\ t \in Nat
      BY ThreadAssumption DEF Threads
    <3>2. events'[t] # << >>
      BY <2>4
    <3>3. ~(t < u)
      BY <1>14, <3>2
    <3>4. ~(u < t)
      BY <1>2, <1>14, <3>1
    <3>5. QED
      BY <3>1, <3>3, <3>4
  <2>7. QED
    BY <1>14, <2>5, <2>6
<1>15. WordDone(ev.position[1])'
  BY <1>14 DEF WordDone
<1>16. QED
  BY <1>3, <1>4, <1>11, <1>12, <1>13, <1>15

LEMMA ReplayEventExact ==
    ASSUME IInv, IInv', ChainIntact, RInv, EInv, ReplayEvent
    PROVE  EInv'
<1>t. PICK t \in Threads : /\ events[t] # << >> /\ Rewire(Head(events[t]))
                           /\ \A u \in Threads : u < t => events[u] = << >>
                           /\ events' = [events EXCEPT ![t] = Tail(@)]
  BY DEF ReplayEvent
<1>e. PICK ev : ev = events[t][1]
  OBVIOUS
<1> DEFINE V == DOMAIN vocabulary
           E == PendingEvents
           T == Todo
           S == Listed
<1>1. /\ splits' = splits /\ UNCHANGED <<chain, vocabulary, queue, best, positions, thread>>
      /\ phase = "replay"
  BY DEF ReplayEvent
<1>2. InRound
  BY <1>1 DEF InRound
<1>3. Rewire(ev)
  <2>1. events[t] \in Seq(EventSet) /\ events[t] # << >>
    BY <1>t DEF IInv, TypeOK
  <2>2. Head(events[t]) = events[t][1]
    BY <2>1
  <2>3. QED
    BY <1>t, <1>e, <2>2
<1>4. /\ splits \in Corpora /\ Sound(book, Position, Frequencies, S) /\ NewbornsListed(book, S)
      /\ V \in SUBSET Nat /\ merged_token \in V /\ merged_token \in Nat
      /\ left_token \in Nat /\ right_token \in Nat
      /\ left_token # merged_token /\ right_token # merged_token
      /\ KeysIn(book, V) /\ StampsSound(book, merged_token) /\ KeysSound(book, merged_token)
  BY <1>2, RoundReady
<1>5. /\ ev \in E /\ ev \in EventSet /\ FirstOfWord(E, ev) /\ PendingEvents' = E \ {ev}
      /\ EventsInOrder' /\ WordDone(ev.position[1])'
  BY <1>1, <1>t, <1>e, EventTaken
<1>6. Fits(Chain, E, Position, left_token, merged_token)
  BY <1>1, PendingFit
<1>7. ChainOK(Chain, Position) /\ Chain' = Chain
  BY <1>1, ChainFacts DEF Chain, chain
<1>8. Position' = Position
  BY <1>1, SameInput
<1>9. Describes(book, Chain, E, left_token, right_token)
  BY <1>1 DEF EInv, BookDescribes
<1>10. Workable(book, ev, V)
  BY <1>1, <1>5, EventWorkable
<1>11. T = Mergeds(E) /\ T' = Mergeds(PendingEvents)'
  <2>1. phase' # "sequential"
    BY <1>1, <1>3 DEF Rewire
  <2>2. QED
    BY <1>1, <2>1 DEF Todo
<1>12. NewbornsBehind(book, T, ev.position[1])
  <2>1. ev.position[1] \in DOMAIN splits
    BY <1>4, <1>5, PositionsTyped DEF EventSet
  <2>2. CurrentWord(ev.position[1])
    BY <1>1, <1>t, <1>e DEF CurrentWord
  <2>3. QED
    BY <1>1, <2>1, <2>2 DEF EInv, NewbornsInOrder
<1> HIDE DEF E, T, S, V
<1>13. TodoFrom(T, Position, ev)
  BY <1>5, <1>6, <1>11 DEF TodoFrom, Fits, FirstOfWord, Mergeds
<1>14. LET c == RemoveEdges(book, ev)
       IN  /\ c.aborted = book.aborted
           /\ Replayed(book, AddEdges(c, ev, merged_token), S, V, Chain, E,
                       left_token, right_token, merged_token, ev, T)
  BY <1>4, <1>5, <1>6, <1>7, <1>9, <1>10, <1>12, <1>13, ReplayMerge
<1>15. book' = AddEdges(RemoveEdges(book, ev), ev, merged_token) /\ phase' = phase
  BY <1>3, <1>14, RewireRuns
<1>16. /\ Stepped(book, book', S, V, merged_token)
       /\ Describes(book', Chain, E \ {ev}, left_token, right_token)
       /\ NewbornsBehind(book', T \ {ev.position}, ev.position[1])
  BY <1>14, <1>15 DEF Replayed
<1>17. /\ NeverAborted' /\ BookExact' /\ KeysKnown' /\ QueueComplete' /\ BestApart'
       /\ left_token' = left_token /\ right_token' = right_token
       /\ merged_token' = merged_token
  BY <1>1, <1>2, <1>15, <1>16, WorkedOff DEF S, V
<1>18. BookDescribes'
  BY <1>5, <1>7, <1>16, <1>17 DEF BookDescribes
<1>19. BuildExact' /\ Region' /\ WalkExact'
  BY <1>1, <1>15 DEF BuildExact, Region, WalkExact
<1>20. PositionsInOrder' /\ Idle'
  BY <1>1, <1>15 DEF EInv, PositionsInOrder, Idle, thread
\* No event's right neighbour is the occurrence of this one.
<1>21. EventsFit'
  <2>1. EventsApart(E \ {ev})
    BY <1>6 DEF Fits, EventsApart
  <2>2. ASSUME NEW e \in E \ {ev}
        PROVE  EventFits(Chain, E \ {ev}, left_token, merged_token, e)
    <3>1. EventFits(Chain, E, left_token, merged_token, e) /\ e.position \in Position
      BY <1>6 DEF Fits
    <3>2. ASSUME e.after # no_position PROVE e.after # ev.position
      <4>1. e.after = Chain.next[e.position] /\ Chain.alive[e.position]
        BY <3>1, <3>2 DEF EventFits
      <4>2. e.after[1] = e.position[1] /\ e.position[2] < e.after[2] /\ e.after \in Position
        BY <1>7, <3>1, <4>1 DEF ChainOK
      <4>3. ev.position[1] = e.position[1] => ev.position[2] < e.position[2]
        BY <1>5 DEF FirstOfWord
      <4>4. e.position[2] \in Nat /\ e.after[2] \in Nat
        BY <3>1, <4>2, ExactFacts
      <4>5. QED
        BY <4>2, <4>3, <4>4
    <3>3. e.after # no_position =>
             OldToken(Chain, E \ {ev}, left_token, e.after) = OldToken(Chain, E, left_token, e.after)
      BY <3>2 DEF OldToken, Mergeds
    <3>4. QED
      BY <3>1, <3>3 DEF EventFits
  <2>3. \A e \in E \ {ev} : e.after # no_position => e.after_token # merged_token
    BY <1>1 DEF EInv, EventsFit, E
  <2>4. QED
    BY <1>5, <1>7, <1>17, <2>1, <2>2, <2>3 DEF EventsFit
<1>22. NewbornsInOrder'
  <2> SUFFICES ASSUME NEW w \in DOMAIN splits, CurrentWord(w)'
               PROVE  NewbornsBehind(book', T', w)
    BY <1>1 DEF NewbornsInOrder, T
  <2>1. T' \in SUBSET (T \ {ev.position})
    BY <1>5, <1>6, <1>11 DEF Mergeds, Fits, EventsApart
  <2>2. NewbornsBehind(book', T', ev.position[1])
    BY <1>16, <2>1, BehindFewer
  <2>3. PICK u \in Threads : /\ events'[u] # << >> /\ events'[u][1].position[1] = w
                             /\ \A v \in Threads : v < u => events'[v] = << >>
    BY <1>1, <1>15 DEF CurrentWord
  <2>4. w # ev.position[1] => \A x \in T' : x[1] # ev.position[1]
    BY <1>5, <1>11, <2>3 DEF Mergeds, WordDone
  <2>5. QED
    BY <2>2, <2>4, NextWordBehind
<1>23. AllCovered'
  <2>1. \A p : Unmerged(p)' <=> Unmerged(p)
    BY <1>1, <1>17 DEF Unmerged, pair_is_at, is_live, chain
  <2>2. QED
    BY <1>1, <1>8, <1>15, <2>1 DEF EInv, AllCovered
<1>24. QED
  BY <1>5, <1>17, <1>18, <1>19, <1>20, <1>21, <1>22, <1>23 DEF EInv

-----------------------------------------------------------------------------
(* Between rounds.                                                         *)

LEMMA BornForgotten ==
    ASSUME NEW P, NEW b, BookOK(b, P), NEW c, c = [b EXCEPT !.born = << >>]
    PROVE  /\ BookOK(c, P) /\ c.pairs = b.pairs /\ c.edge_group = b.edge_group
           /\ c.group_state = b.group_state /\ c.group_count = b.group_count
           /\ c.pos_next = b.pos_next /\ c.pos_prev = b.pos_prev
           /\ c.aborted = b.aborted /\ c.born = << >>
           /\ \A s : ~Newborn(c, s)
<1>1. BookOK(c, P) /\ c.pairs = b.pairs /\ c.edge_group = b.edge_group
  BY ForgetBorn
<1>2. /\ c.group_state = b.group_state /\ c.group_count = b.group_count
      /\ c.pos_next = b.pos_next /\ c.pos_prev = b.pos_prev
      /\ c.aborted = b.aborted /\ c.born = << >>
  BY DEF BookOK, BookTypeOK
<1>3. \A s : ~Newborn(c, s)
  BY <1>2, EmptyList DEF Newborn
<1>4. QED
  BY <1>1, <1>2, <1>3

\* The pairs of S are queued.
LEMMA QueuedMore ==
    ASSUME NEW S, NEW Q, queue' = Q \cup {Entry(s) : s \in S}
    PROVE  \A s : Queued(s)' <=> (\E e \in Q : e.state = s) \/ s \in S
<1>1. \A s : Entry(s).state = s
  BY DEF Entry
<1>2. QED
  BY <1>1 DEF Queued

\* Without edges a pair cannot be chosen.
LEMMA NoEdges ==
    ASSUME NEW P, Slots(P), NEW b, BookOK(b, P), NEW F, Exact(b, F), NEW s \in DOMAIN b.pairs,
           EdgesOf(b, s) = {}
    PROVE  ~EligibleIn(b, s)
<1>1. b.pairs[s].word_count = Cardinality(WordsIn(EdgesOf(b, s)))
  BY WordCounts
<1>2. WordsIn({}) = {}
  BY DEF WordsIn
<1>3. QED
  BY <1>1, <1>2, FS_EmptySet DEF EligibleIn

\* The chosen pair is used up when the round is over.
LEMMA PairUsedUp ==
    ASSUME IInv, EInv, Team = Threads, RoundProcessed
    PROVE  EdgesOf(book, best) = {}
<1>1. InRound /\ phase # "build" /\ PendingEvents = {}
  BY DEF RoundProcessed, InRound, IInv, ThreadsIdle, PendingEvents
<1>2. best \in DOMAIN book.pairs
  BY <1>1 DEF IInv, PairsKnown
<1>3. \A p \in Position : ~Unmerged(p)
  BY DEF RoundProcessed, EInv, AllCovered
<1>4. EdgesOf(book, best) =
         {p \in Position : pair_is_at(p, book.pairs[best].key[1], book.pairs[best].key[2])}
  BY <1>1, <1>2, EdgesDescribed
<1>5. QED
  BY <1>3, <1>4 DEF Unmerged, left_token, right_token

LEMMA EndRoundExact == IInv /\ EInv /\ EndRound => EInv'
<1> SUFFICES ASSUME IInv, EInv, EndRound PROVE EInv'
  OBVIOUS
<1>1. /\ splits' = splits /\ UNCHANGED <<chain, vocabulary, positions, thread, events>>
      /\ RoundProcessed /\ best' = no_position /\ phase' = "pop"
      /\ book' = [book EXCEPT !.born = << >>]
  BY DEF EndRound
<1>2. \A s : Queued(s)' <=> Queued(s) \/ (s \in DOMAIN book.pairs /\ Newborn(book, s) /\ Eligible(s))
  <2> DEFINE S == {k \in DOMAIN book.pairs : (\E i \in DOMAIN book.born : book.born[i] = k) /\ Eligible(k)}
  <2>1. queue' = queue \cup {Entry(s) : s \in S}
    BY DEF EndRound
  <2>2. \A s : s \in S <=> s \in DOMAIN book.pairs /\ Newborn(book, s) /\ Eligible(s)
    BY DEF Newborn
  <2> HIDE DEF S
  <2>3. \A s : Queued(s)' <=> (\E e \in queue : e.state = s) \/ s \in S
    BY <2>1, QueuedMore
  <2>4. QED
    BY <2>2, <2>3 DEF Queued
<1>3. /\ InRound /\ phase \in {"sequential", "replay"} /\ PendingEvents = {}
      /\ PendingEvents' = {} /\ positions = << >>
  BY <1>1, SamePending DEF RoundProcessed, InRound, IInv, ThreadsIdle, PendingEvents, EInv, Idle
<1>4. /\ BookOK(book', Position) /\ book'.pairs = book.pairs /\ book'.edge_group = book.edge_group
      /\ book'.group_state = book.group_state /\ book'.group_count = book.group_count
      /\ book'.pos_next = book.pos_next /\ book'.pos_prev = book.pos_prev
      /\ book'.aborted = book.aborted /\ book'.born = << >>
      /\ \A s : ~Newborn(book', s)
  BY <1>1, InvFacts, BornForgotten
<1>5. /\ BookOK(book, Position) /\ Slots(Position) /\ DOMAIN book.edge_group = Position
      /\ Sound(book, Position, Frequencies, Listed) /\ Exact(book, Frequencies)
      /\ \A k \in DOMAIN book.pairs : k # no_position
  BY ExactFacts DEF Sound
<1>6. best \in DOMAIN book.pairs /\ Team = Threads => EdgesOf(book, best) = {}
  BY <1>1, <1>3, PairUsedUp DEF IInv, PairsKnown
<1>7. \A s \in DOMAIN book.pairs : Queued(s) \/ Newborn(book, s) => s # best
  BY <1>3 DEF EInv, BestApart
<1>8. \A s \in Listed' : s \in Listed \/ EdgesOf(book, s) = {}
  <2> TAKE s \in Listed'
  <2>1. s \in DOMAIN book.pairs /\ (Team = Threads \/ Queued(s)')
    BY <1>1, <1>4 DEF Listed, Queued
  <2>2. CASE s = best
    BY <1>2, <1>6, <1>7, <2>1, <2>2
  <2>3. CASE s # best
    BY <1>2, <2>1, <2>3 DEF Listed
  <2>4. QED
    BY <2>2, <2>3
<1> HIDE DEF Listed
<1>9. /\ Sound(book', Position, Frequencies, Listed')
      /\ \A k : EdgesOf(book', k) = EdgesOf(book, k)
      /\ \A p : KeyOf(book', p) = KeyOf(book, p)
  BY <1>4, <1>5, <1>8, SoundSame
<1>10. Position' = Position /\ Frequencies' = Frequencies
  BY <1>1, SameInput
<1>11. NeverAborted' /\ BookExact' /\ KeysKnown'
  BY <1>1, <1>4, <1>9, <1>10 DEF EInv, NeverAborted, BookExact, KeysKnown, KeysUnique, InRound
<1>12. BookDescribes'
  <2>1. Describes(book, Chain, {}, left_token, right_token)
    BY <1>3 DEF EInv, BookDescribes
  <2>2. Chain' = Chain
    BY <1>1 DEF Chain, chain
  <2>3. Describes(book', Chain', {}, left_token', right_token')
    BY <1>4, <1>9, <2>1, <2>2, DescribesIdle
  <2>4. QED
    BY <1>3, <2>3 DEF BookDescribes
<1>13. /\ BuildExact' /\ EventsFit' /\ Region' /\ WalkExact' /\ NewbornsInOrder' /\ AllCovered'
  BY <1>1 DEF BuildExact, EventsFit, Region, WalkExact, NewbornsInOrder, AllCovered
<1>14. EventsInOrder' /\ PositionsInOrder'
  BY <1>1 DEF EInv, EventsInOrder, PositionsInOrder
<1>15. Idle'
  BY <1>1, <1>3, <1>4 DEF EInv, Idle, thread
<1>16. QueueComplete'
  <2> SUFFICES ASSUME Team = Threads, NEW s \in DOMAIN book.pairs, Eligible(s)
               PROVE  Queued(s)'
    BY <1>1, <1>4 DEF QueueComplete, Eligible
  <2>1. s # best
    <3>1. ASSUME s = best PROVE FALSE
      <4>1. ~EligibleIn(book, s)
        BY <1>5, <1>6, <3>1, NoEdges
      <4>2. QED
        BY <4>1 DEF Eligible, EligibleIn
    <3>2. QED
      BY <3>1
  <2>2. CASE Newborn(book, s)
    BY <1>2, <2>2
  <2>3. CASE ~Newborn(book, s)
    BY <1>2, <1>3, <2>1, <2>3 DEF EInv, QueueComplete
  <2>4. QED
    BY <2>2, <2>3
<1>17. BestApart'
  BY <1>1, <1>4, <1>5 DEF BestApart
<1>18. QED
  BY <1>11, <1>12, <1>13, <1>14, <1>15, <1>16, <1>17 DEF EInv

\* When build_state has come to the end, every slot is behind its cursor.
LEMMA PastAll == IInv /\ EInv /\ StartMerging => \A p \in Position : Past(p)
<1> SUFFICES ASSUME IInv, EInv, StartMerging PROVE \A p \in Position : Past(p)
  OBVIOUS
<1>1. phase = "build" /\ cursor[1] \notin DOMAIN splits /\ splits \in Corpora
  BY InvFacts DEF StartMerging
<1>2. cursor[1] \in Nat /\ cursor[1] > 0
  BY <1>1 DEF IInv, BuildAhead, EInv, BuildExact
<1>3. \A p \in Position : p[1] \in DOMAIN splits
  BY <1>1, PositionsTyped
<1>4. DOMAIN splits = 1..Len(splits) /\ Len(splits) \in Nat
  BY <1>1, CorpusAssumption
<1>5. QED
  BY <1>1, <1>2, <1>3, <1>4 DEF Past

LEMMA StartMergingExact == IInv /\ EInv /\ StartMerging => EInv'
<1> SUFFICES ASSUME IInv, EInv, StartMerging PROVE EInv'
  OBVIOUS
<1>1. /\ splits' = splits /\ UNCHANGED <<chain, vocabulary, best, positions, thread, events>>
      /\ phase = "build" /\ phase' = "pop" /\ cursor[1] \notin DOMAIN splits
      /\ book' = [book EXCEPT !.born = << >>]
  BY DEF StartMerging
<1>2. \A s \in DOMAIN book.pairs : book.pairs[s].word_count >= 2 => Queued(s)'
  <2> DEFINE S == {k \in DOMAIN book.pairs : book.pairs[k].word_count >= 2}
         none == {}
  <2>1. queue' = none \cup {Entry(s) : s \in S}
    BY DEF StartMerging
  <2> HIDE DEF S, none
  <2>2. \A s : Queued(s)' <=> (\E e \in none : e.state = s) \/ s \in S
    BY <2>1, QueuedMore
  <2>3. QED
    BY <2>2 DEF S
<1>3. /\ PendingEvents = {} /\ PendingEvents' = {} /\ positions = << >> /\ best = no_position
  BY <1>1, SamePending DEF IInv, ThreadsIdle, PendingEvents, EInv, Idle
<1>4. /\ BookOK(book', Position) /\ book'.pairs = book.pairs /\ book'.edge_group = book.edge_group
      /\ book'.group_state = book.group_state /\ book'.group_count = book.group_count
      /\ book'.pos_next = book.pos_next /\ book'.pos_prev = book.pos_prev
      /\ book'.aborted = book.aborted /\ book'.born = << >>
      /\ \A s : ~Newborn(book', s)
  BY <1>1, InvFacts, BornForgotten
<1>5. /\ splits \in Corpora /\ DOMAIN book.edge_group = Position
      /\ Sound(book, Position, Frequencies, Listed)
      /\ \A k \in DOMAIN book.pairs : k # no_position
  BY ExactFacts
<1>6. \A s \in Listed' : s \in Listed
  BY <1>1, <1>3, <1>4 DEF Listed
<1> HIDE DEF Listed
<1>7. /\ Sound(book', Position, Frequencies, Listed')
      /\ \A p : KeyOf(book', p) = KeyOf(book, p)
  BY <1>4, <1>5, <1>6, SoundSame
<1>8. Position' = Position /\ Frequencies' = Frequencies
  BY <1>1, SameInput
<1>9. NeverAborted' /\ BookExact' /\ KeysKnown'
  BY <1>1, <1>4, <1>7, <1>8 DEF EInv, NeverAborted, BookExact, KeysKnown, KeysUnique, InRound
<1>10. \A p \in Position : Past(p)
  BY PastAll
<1>11. Chain' = Chain
  BY <1>1 DEF Chain, chain
<1>12. BookDescribes'
  <2>1. \A p \in Position : KeyOf(book, p) = IF alive[p] /\ alive[next[p]]
                                              THEN <<token[p], token[next[p]]>> ELSE no_position
    BY <1>1, <1>10 DEF EInv, BuildExact
  <2>2. Mergeds({}) = {} /\ Rights({}) = {}
    BY DEF Mergeds, Rights
  <2>3. Describes(book', Chain, {}, left_token', right_token')
    BY <1>4, <1>5, <1>7, <2>1, <2>2 DEF Describes, EdgeKey, OldToken, Chain
  <2>4. QED
    BY <1>3, <1>11, <2>3 DEF BookDescribes
<1>13. /\ BuildExact' /\ EventsFit' /\ Region' /\ WalkExact' /\ NewbornsInOrder' /\ AllCovered'
  BY <1>1 DEF BuildExact, EventsFit, Region, WalkExact, NewbornsInOrder, AllCovered
<1>14. EventsInOrder' /\ PositionsInOrder'
  BY <1>1 DEF EInv, EventsInOrder, PositionsInOrder
<1>15. Idle'
  BY <1>1, <1>3, <1>4 DEF EInv, Idle, thread
<1>16. QueueComplete' /\ BestApart'
  BY <1>1, <1>2, <1>3, <1>4, <1>5 DEF QueueComplete, BestApart, Eligible
<1>17. QED
  BY <1>9, <1>12, <1>13, <1>14, <1>15, <1>16 DEF EInv

-----------------------------------------------------------------------------
(* build_state.                                                            *)

\* Steps of build_state leave the rest of the invariant alone.
LEMMA BuildQuiet ==
    ASSUME IInv, EInv, splits' = splits, phase = "build", phase' = "build",
           UNCHANGED <<queue, best, positions, thread, events>>,
           NeverAborted', BookExact', KeysUnique(book'), BuildExact'
    PROVE  EInv'
<1>1. KeysKnown'
  BY DEF KeysKnown, InRound
<1>2. /\ BookDescribes' /\ EventsFit' /\ Region' /\ WalkExact' /\ NewbornsInOrder'
      /\ AllCovered' /\ QueueComplete'
  BY DEF BookDescribes, EventsFit, Region, WalkExact, NewbornsInOrder, AllCovered, QueueComplete
<1>3. EventsInOrder' /\ PositionsInOrder'
  BY DEF EInv, EventsInOrder, PositionsInOrder
<1>4. Idle'
  BY DEF EInv, Idle, thread
<1>5. BestApart'
  <2>1. best = no_position
    BY DEF EInv, BuildExact
  <2>2. \A s \in DOMAIN book'.pairs : s \in Nat
    <3>1. BookTypeOK(book', Position)
      BY SameInput DEF BookExact, Sound, BookOK
    <3>2. QED
      BY <3>1, CountsTyped
  <2>3. QED
    BY <2>1, <2>2, NoPositionAssumption DEF BestApart
<1>6. QED
  BY <1>1, <1>2, <1>3, <1>4, <1>5 DEF EInv

\* A step to the next word moves no slot that is alive behind the cursor.
LEMMA PastStays ==
    ASSUME IInv, EInv, BuildNextWord, NEW p \in Position
    PROVE  alive[p] => (Past(p)' <=> Past(p))
<1>1. /\ phase = "build" /\ cursor[1] \in DOMAIN splits /\ ~alive[cursor]
      /\ cursor' = <<cursor[1] + 1, 1>>
  BY DEF BuildNextWord
<1>2. \A q \in Position : alive[q] <=> ~IsEnd(q)
  BY <1>1 DEF EInv, BuildExact
<1>3. cursor \in Position /\ cursor[1] \in Nat
  BY <1>1 DEF IInv, BuildAhead
<1>4. splits \in Corpora /\ Position \subseteq Nat \X Nat
  BY ExactFacts
<1>5. \A q \in Position : /\ q[2] \in 1..(Len(splits[q[1]].chars) + 1)
                          /\ Len(splits[q[1]].chars) \in Nat /\ q[1] \in Nat
                          /\ q = <<q[1], q[2]>>
  BY <1>4, PositionsTyped
<1>6. cursor[2] = Len(splits[cursor[1]].chars) + 1
  BY <1>1, <1>2, <1>3 DEF IsEnd
<1>7. alive[p] => p[2] # Len(splits[p[1]].chars) + 1
  BY <1>2 DEF IsEnd
<1>8. p[2] < 1 <=> FALSE
  BY <1>5
<1>9. alive[p] /\ p[1] = cursor[1] => p[2] < cursor[2]
  BY <1>5, <1>6, <1>7
<1>10. Past(p)' <=> p[1] < cursor[1] + 1
  BY <1>1, <1>8 DEF Past
<1>11. p[1] \in Nat
  BY <1>5
<1>12. QED
  BY <1>3, <1>9, <1>10, <1>11 DEF Past

LEMMA BuildNextWordExact == IInv /\ EInv /\ BuildNextWord => EInv'
<1> SUFFICES ASSUME IInv, EInv, BuildNextWord PROVE EInv'
  OBVIOUS
<1>1. /\ splits' = splits /\ UNCHANGED <<chain, book, queue, best, positions, thread, events>>
      /\ phase = "build" /\ phase' = "build" /\ cursor[1] \in DOMAIN splits
      /\ ~alive[cursor] /\ cursor' = <<cursor[1] + 1, 1>>
  BY DEF BuildNextWord
<1>2. Listed' = Listed
  BY <1>1 DEF Listed, Queued
<1>3. NeverAborted' /\ BookExact' /\ KeysUnique(book')
  BY <1>1, <1>2, ListedFewer DEF EInv, NeverAborted, KeysKnown
<1>4. /\ best = no_position /\ cursor[1] > 0
      /\ \A p \in Position :
            /\ alive[p] <=> ~IsEnd(p)
            /\ KeyOf(book, p) = IF alive[p] /\ alive[next[p]] /\ Past(p)
                                THEN <<token[p], token[next[p]]>> ELSE no_position
  BY <1>1 DEF EInv, BuildExact
<1>5. cursor \in Position /\ cursor[1] \in Nat
  BY <1>1 DEF IInv, BuildAhead
<1>6. splits \in Corpora /\ Position \subseteq Nat \X Nat /\ IsFiniteSet(Position) /\ BookOK(book, Position)
  BY ExactFacts DEF Slots
<1>7. \A p \in Position : /\ p[2] \in 1..(Len(splits[p[1]].chars) + 1)
                          /\ Len(splits[p[1]].chars) \in Nat /\ p[1] \in Nat
                          /\ p = <<p[1], p[2]>>
  BY <1>6, CorpusAssumption DEF Position
<1>8. \A p \in Position : alive[p] => (Past(p)' <=> Past(p))
  BY <1>1, PastStays
<1>9. \A s \in DOMAIN book.pairs : \A q \in EdgesOf(book, s) : q[1] # cursor[1] + 1
  <2> SUFFICES ASSUME NEW s \in DOMAIN book.pairs, NEW q \in EdgesOf(book, s)
               PROVE  q[1] # cursor[1] + 1
    OBVIOUS
  <2>1. q \in Position /\ KeyOf(book, q) # no_position
    BY <1>6, Unregistered
  <2>2. Past(q)
    BY <1>4, <2>1
  <2>3. QED
    BY <1>5, <1>7, <2>1, <2>2 DEF Past
<1>10. Position' = Position /\ \A p : IsEnd(p)' <=> IsEnd(p)
  BY <1>1, SameInput DEF IsEnd
<1>11. BuildExact'
  <2>1. /\ alive' = alive /\ next' = next /\ token' = token /\ book' = book
        /\ best' = best /\ cursor'[1] = cursor[1] + 1
    BY <1>1 DEF chain
  <2>2. cursor'[1] > 0
    BY <1>5, <2>1
  <2>3. \A p \in Position : KeyOf(book, p) = IF alive[p] /\ alive[next[p]] /\ Past(p)'
                                THEN <<token[p], token[next[p]]>> ELSE no_position
    BY <1>4, <1>8
  <2>4. QED
    BY <1>4, <1>9, <1>10, <2>1, <2>2, <2>3 DEF BuildExact
<1>12. QED
  BY <1>1, <1>3, <1>11, BuildQuiet

\* The edge at the cursor is put into its pair.
LEMMA EdgeBuiltExact ==
    ASSUME IInv, EInv, phase = "build", cursor \in Position, alive[cursor],
           is_live(next[cursor]), NEW key, key = <<token[cursor], token[next[cursor]]>>
    PROVE  LET d == build_edge(book, cursor, key, cursor[1], Frequency(cursor))
               c == BuildBook(book, key)
               s == BuildPair(book, key)
           IN  /\ Sound(d, Position, Frequencies, Listed \cup {s})
               /\ EdgeBuilt(book, c, d, cursor, s, key)
               /\ KeysUnique(d) /\ d.aborted = book.aborted
<1> DEFINE V == DOMAIN vocabulary
<1>1. /\ splits \in Corpora /\ BookOK(book, Position) /\ Slots(Position)
      /\ Frequencies \in [Position -> Nat] /\ Sound(book, Position, Frequencies, Listed)
      /\ Position \subseteq Nat \X Nat
      /\ \A k \in DOMAIN book.pairs : k # no_position
  BY ExactFacts
<1>2. V \in SUBSET Nat /\ KeysIn(book, V) /\ KeysUnique(book)
  BY InvFacts DEF IInv, PairsKnown, EInv, KeysKnown
<1>3. key \in V \X V
  <2>1. next[cursor] \in Position
    BY <1>1 DEF is_live, IInv, TypeOK, Optional
  <2>2. QED
    BY <2>1 DEF is_live, IInv, TokensKnown
<1>4. DOMAIN book.pairs \subseteq Listed
  BY <1>1 DEF Listed, EInv, BuildExact
<1>5. cursor[1] \in DOMAIN splits /\ cursor[1] \in Nat /\ cursor[2] \in Nat
  BY <1>1, PositionsTyped
<1>6. book.edge_group[cursor] = no_position
  BY <1>5 DEF IInv, BuildAhead
<1>7. \A s \in DOMAIN book.pairs : Appendable(book, s, cursor)
  <2> SUFFICES ASSUME NEW s \in DOMAIN book.pairs, NEW q \in EdgesOf(book, s), q[1] = cursor[1]
               PROVE  q[2] < cursor[2] /\ book.pairs[s].last_word = cursor[1]
    BY DEF Appendable
  <2>1. IsFiniteSet(Position)
    BY <1>1 DEF Slots
  <2>2. q \in Position /\ KeyOf(book, q) # no_position
    BY <1>1, <2>1, Unregistered
  <2>3. Past(q)
    BY <2>2 DEF EInv, BuildExact
  <2>4. q[2] < cursor[2]
    BY <1>5, <2>3 DEF Past
  <2>5. QED
    BY <2>4 DEF EInv, BuildExact
<1>8. Frequencies[cursor] = Frequency(cursor)
  BY DEF Frequencies
<1> DEFINE w == cursor[1]
           f == Frequency(cursor)
<1>9. Buildable(book, Position, Frequencies, Listed, V, key, cursor, w, f)
  BY <1>1, <1>2, <1>3, <1>4, <1>6, <1>7, <1>8 DEF Buildable
<1> HIDE DEF V, w, f
<1> DEFINE d == build_edge(book, cursor, key, w, f)
<1>10. d = build_edge(book, cursor, key, w, f)
  OBVIOUS
<1> HIDE DEF d
<1>11. /\ Sound(d, Position, Frequencies, Listed \cup {BuildPair(book, key)})
       /\ EdgeBuilt(book, BuildBook(book, key), d, cursor, BuildPair(book, key), key)
       /\ KeysUnique(d) /\ d.aborted = book.aborted
  BY <1>9, <1>10, PutBuildEdge
<1>12. QED
  BY <1>11 DEF d, w, f

\* What that means, pair by pair.
LEMMA BuiltFacts ==
    ASSUME NEW b, NEW c, NEW d, NEW start, NEW s, NEW key, NEW P, BookOK(b, P),
           EdgeBuilt(b, c, d, start, s, key)
    PROVE  /\ \A k \in DOMAIN d.pairs : k \in DOMAIN b.pairs \/ k = s
           /\ \A p \in P : KeyOf(d, p) = IF p = start THEN key ELSE KeyOf(b, p)
           /\ d.pairs[s].last_word = start[1]
           /\ \A k \in DOMAIN b.pairs : k # s => /\ d.pairs[k].last_word = b.pairs[k].last_word
                                                 /\ EdgesOf(d, k) = EdgesOf(b, k)
<1>1. /\ GotPair(b, [book |-> c, state |-> s], key) /\ Alike(b, c)
      /\ s \in DOMAIN c.pairs /\ c.pairs[s].key = key /\ EdgePut(c, d, start, s)
  BY DEF EdgeBuilt
<1>2. \A k \in DOMAIN c.pairs : k \in DOMAIN b.pairs \/ k = s
  <2> DEFINE g == [book |-> c, state |-> s]
  <2>1. g.book = c /\ g.state = s
    OBVIOUS
  <2> HIDE DEF g
  <2>2. GotPair(b, g, key)
    BY <1>1 DEF g
  <2>3. QED
    BY <2>1, <2>2, GotNew
<1>3. DOMAIN b.edge_group = P /\ DOMAIN c.edge_group = P
  BY <1>1 DEF BookOK, BookTypeOK, Alike
<1>4. DOMAIN d.pairs = DOMAIN c.pairs
  BY <1>1 DEF EdgePut
<1>5. \A p \in P : KeyOf(d, p) = IF p = start THEN key ELSE KeyOf(b, p)
  BY <1>1, <1>3 DEF EdgePut, Alike
<1>6. d.pairs[s].last_word = start[1]
  BY <1>1 DEF EdgePut
<1>7. \A k \in DOMAIN b.pairs : k # s => /\ d.pairs[k].last_word = b.pairs[k].last_word
                                         /\ EdgesOf(d, k) = EdgesOf(b, k)
  BY <1>1 DEF EdgePut, Alike
<1>8. QED
  BY <1>2, <1>4, <1>5, <1>6, <1>7

\* The cursor moves on by one slot that is alive.
LEMMA PastMoves ==
    IInv /\ ChainIntact /\ BuildPosition =>
        /\ cursor \in Position /\ ~Past(cursor)
        /\ \A p \in Position : alive[p] => (Past(p)' <=> Past(p) \/ p = cursor)
<1> SUFFICES ASSUME IInv, ChainIntact, BuildPosition
             PROVE  /\ cursor \in Position /\ ~Past(cursor)
                    /\ \A p \in Position : alive[p] => (Past(p)' <=> Past(p) \/ p = cursor)
  OBVIOUS
<1>1. phase = "build" /\ cursor[1] \in DOMAIN splits /\ alive[cursor] /\ cursor' = next[cursor]
  BY DEF BuildPosition
<1>2. /\ cursor \in Position /\ no_position \notin Position
      /\ \A p \in Position : p[1] \in Nat /\ p[2] \in Nat /\ p = <<p[1], p[2]>>
  BY <1>1, InvFacts, PositionsTyped DEF IInv, BuildAhead
<1>3. /\ next[cursor] \in Position /\ next[cursor][1] = cursor[1] /\ next[cursor][2] > cursor[2]
  BY <1>1, <1>2 DEF IInv, ChainOrdered, TypeOK, Optional
<1>4. Follows(cursor, next[cursor])
  BY <1>2, <1>3 DEF ChainIntact
<1>5. ASSUME NEW p \in Position, alive[p] PROVE Past(p)' <=> Past(p) \/ p = cursor
  <2>1. ~(p[1] = cursor[1] /\ cursor[2] < p[2] /\ p[2] < next[cursor][2])
    BY <1>4, <1>5 DEF Follows
  <2>2. Past(p)' <=> p[1] < cursor[1] \/ (p[1] = cursor[1] /\ p[2] < next[cursor][2])
    BY <1>1, <1>3 DEF Past
  <2>3. p[1] = cursor[1] => (p[2] < next[cursor][2] <=> p[2] < cursor[2] \/ p[2] = cursor[2])
    BY <1>2, <1>3, <2>1
  <2>4. p = cursor <=> p[1] = cursor[1] /\ p[2] = cursor[2]
    BY <1>2
  <2>5. QED
    BY <2>2, <2>3, <2>4 DEF Past
<1>6. ~Past(cursor)
  BY <1>2 DEF Past
<1>7. QED
  BY <1>2, <1>5, <1>6

LEMMA BuildPositionExact == IInv /\ ChainIntact /\ EInv /\ BuildPosition => EInv'
<1> SUFFICES ASSUME IInv, ChainIntact, EInv, BuildPosition PROVE EInv'
  OBVIOUS
<1>1. /\ splits' = splits /\ UNCHANGED <<chain, queue, best, positions, thread, events>>
      /\ phase = "build" /\ phase' = "build" /\ cursor[1] \in DOMAIN splits
      /\ alive[cursor] /\ cursor' = next[cursor]
  BY DEF BuildPosition
<1> DEFINE key == <<token[cursor], token[next[cursor]]>>
<1>2. book' = IF is_live(next[cursor])
              THEN build_edge(book, cursor, key, cursor[1], Frequency(cursor)) ELSE book
  BY DEF BuildPosition
<1>3. /\ splits \in Corpora /\ Position \subseteq Nat \X Nat /\ IsFiniteSet(Position)
      /\ BookOK(book, Position) /\ no_position \notin Position
  BY ExactFacts DEF Slots
<1>4. cursor \in Position
  BY <1>1 DEF IInv, BuildAhead
<1>5. /\ next[cursor] \in Position /\ next[cursor][1] = cursor[1] /\ next[cursor][2] > cursor[2]
  BY <1>1, <1>3, <1>4 DEF IInv, ChainOrdered, TypeOK, Optional
<1>6. /\ best = no_position /\ cursor[1] > 0
      /\ \A p \in Position :
            /\ alive[p] <=> ~IsEnd(p)
            /\ KeyOf(book, p) = IF alive[p] /\ alive[next[p]] /\ Past(p)
                                THEN <<token[p], token[next[p]]>> ELSE no_position
      /\ \A s \in DOMAIN book.pairs : \A q \in EdgesOf(book, s) :
            q[1] = cursor[1] => book.pairs[s].last_word = q[1]
  BY <1>1 DEF EInv, BuildExact
<1>7. \A p \in Position : alive[p] => (Past(p)' <=> Past(p) \/ p = cursor)
  BY <1>1, PastMoves
<1>8. ~Past(cursor)
  BY <1>1, PastMoves
<1>9. /\ Position' = Position /\ Frequencies' = Frequencies /\ \A p : IsEnd(p)' <=> IsEnd(p)
      /\ alive' = alive /\ next' = next /\ token' = token
  BY <1>1, SameInput DEF IsEnd, chain
<1>10. /\ NeverAborted' /\ BookExact' /\ KeysUnique(book')
       /\ \A p \in Position : KeyOf(book', p) = IF p = cursor /\ is_live(next[cursor])
                                                THEN key ELSE KeyOf(book, p)
       /\ \A s \in DOMAIN book'.pairs : \A q \in EdgesOf(book', s) :
            q[1] = cursor[1] => book'.pairs[s].last_word = q[1]
  <2>1. CASE is_live(next[cursor])
    <3> DEFINE c == BuildBook(book, key)
               s == BuildPair(book, key)
    <3>1. /\ Sound(book', Position, Frequencies, Listed \cup {s})
          /\ EdgeBuilt(book, c, book', cursor, s, key)
          /\ KeysUnique(book') /\ book'.aborted = book.aborted
      <4> HIDE DEF key
      <4>1. book' = build_edge(book, cursor, key, cursor[1], Frequency(cursor))
        BY <1>2, <2>1
      <4>2. key = <<token[cursor], token[next[cursor]]>>
        BY DEF key
      <4>3. QED
        BY <1>1, <1>4, <2>1, <4>1, <4>2, EdgeBuiltExact
    <3> HIDE DEF key, c, s
    <3>2. /\ \A k \in DOMAIN book'.pairs : k \in DOMAIN book.pairs \/ k = s
          /\ \A p \in Position : KeyOf(book', p) = IF p = cursor THEN key ELSE KeyOf(book, p)
          /\ book'.pairs[s].last_word = cursor[1]
          /\ \A k \in DOMAIN book.pairs : k # s => /\ book'.pairs[k].last_word = book.pairs[k].last_word
                                                   /\ EdgesOf(book', k) = EdgesOf(book, k)
      BY <1>3, <3>1, BuiltFacts
    <3>3. \A k \in Listed' : k \in Listed \cup {s}
      BY <1>1, <1>6, <3>2 DEF Listed
    <3>4. Sound(book', Position, Frequencies, Listed')
      <4> DEFINE S == Listed \cup {s}
                 T == Listed'
      <4>1. Sound(book', Position, Frequencies, S) /\ \A k \in T : k \in S
        BY <3>1, <3>3
      <4>2. BookOK(book', Position)
        BY <3>1 DEF Sound
      <4> HIDE DEF S, T
      <4>3. Sound(book', Position, Frequencies, T)
        BY <4>1, <4>2, SoundSame
      <4>4. QED
        BY <4>3 DEF T
    <3>5. BookExact'
      BY <1>9, <3>4 DEF BookExact
    <3>6. NeverAborted'
      BY <1>1, <3>1 DEF EInv, NeverAborted
    <3>7. QED
      BY <1>6, <2>1, <3>1, <3>2, <3>5, <3>6
  <2>2. CASE ~is_live(next[cursor])
    <3>1. book' = book
      BY <1>2, <2>2
    <3>2. Listed' = Listed
      BY <1>1, <3>1 DEF Listed, Queued
    <3>3. NeverAborted' /\ BookExact' /\ KeysUnique(book')
      BY <1>1, <3>1, <3>2, ListedFewer DEF EInv, NeverAborted, KeysKnown
    <3>4. QED
      BY <1>6, <2>2, <3>1, <3>3
  <2>3. QED
    BY <2>1, <2>2
<1>11. BuildExact'
  <2>1. \A p \in Position : KeyOf(book', p) = IF alive[p] /\ alive[next[p]] /\ Past(p)'
                                THEN <<token[p], token[next[p]]>> ELSE no_position
    <3> TAKE p \in Position
    <3>1. CASE p = cursor
      BY <1>1, <1>3, <1>5, <1>6, <1>7, <1>8, <1>10, <3>1 DEF is_live
    <3>2. CASE p # cursor
      BY <1>6, <1>7, <1>10, <3>2
    <3>3. QED
      BY <3>1, <3>2
  <2>2. cursor'[1] = cursor[1] /\ best' = best
    BY <1>1, <1>5
  <2>3. QED
    BY <1>6, <1>9, <1>10, <2>1, <2>2 DEF BuildExact
<1>12. QED
  BY <1>1, <1>10, <1>11, BuildQuiet

-----------------------------------------------------------------------------
(* The invariant holds throughout.                                         *)

LEMMA InitExact == Init => EInv
<1> SUFFICES ASSUME Init PROVE EInv
  OBVIOUS
<1>1. /\ splits \in Corpora /\ book = EmptyBook(Position) /\ phase = "build" /\ best = no_position
      /\ cursor = <<1, 1>> /\ positions = << >>
      /\ word = [t \in Threads |-> 0] /\ index = [t \in Threads |-> 0]
      /\ events = [t \in Threads |-> << >>]
      /\ alive = [p \in Position |-> p[2] <= Len(splits[p[1]].chars)]
  BY DEF Init, InitInput
<1>2. /\ DOMAIN book.pairs = {} /\ ~book.aborted
  BY <1>1 DEF EmptyBook
<1>3. /\ Sound(book, Position, Frequencies, Listed) /\ KeysUnique(book)
      /\ \A p \in Position : KeyOf(book, p) = no_position
  BY <1>1, EmptyBookOK, EmptySound
<1>4. \A p \in Position : /\ p[1] \in Nat \ {0} /\ p[2] \in Nat \ {0}
                          /\ p[2] <= Len(splits[p[1]].chars) + 1
                          /\ Len(splits[p[1]].chars) \in Nat
  BY <1>1, PositionsTyped
<1>5. NeverAborted /\ BookExact /\ KeysKnown
  BY <1>1, <1>2, <1>3 DEF NeverAborted, BookExact, KeysKnown, InRound
<1>6. BuildExact
  <2>1. \A p \in Position : alive[p] <=> ~IsEnd(p)
    <3> TAKE p \in Position
    <3> DEFINE n == Len(splits[p[1]].chars)
    <3>1. alive[p] <=> p[2] <= n
      BY <1>1
    <3>2. n \in Nat /\ p[2] \in Nat /\ p[2] <= n + 1 /\ (IsEnd(p) <=> p[2] = n + 1)
      BY <1>4 DEF IsEnd
    <3> HIDE DEF n
    <3>3. QED
      BY <3>1, <3>2
  <2>2. \A p \in Position : ~Past(p)
    BY <1>1, <1>4 DEF Past
  <2>3. cursor[1] > 0
    BY <1>1
  <2>4. QED
    BY <1>1, <1>2, <1>3, <2>1, <2>2, <2>3 DEF BuildExact
<1>7. EventsInOrder /\ PositionsInOrder
  BY <1>1 DEF EventsInOrder, PositionsInOrder, InOrder
<1>8. Idle
  BY <1>1 DEF Idle
<1>9. /\ BookDescribes /\ EventsFit /\ Region /\ WalkExact /\ NewbornsInOrder /\ AllCovered
      /\ QueueComplete
  BY <1>1 DEF BookDescribes, EventsFit, Region, WalkExact, NewbornsInOrder, AllCovered, QueueComplete
<1>10. BestApart
  BY <1>2 DEF BestApart
<1>11. QED
  BY <1>5, <1>6, <1>7, <1>8, <1>9, <1>10 DEF EInv

LEMMA StutterExact == EInv /\ UNCHANGED vars => EInv'
<1> SUFFICES ASSUME EInv, UNCHANGED vars PROVE EInv'
  OBVIOUS
<1>1. /\ splits' = splits
      /\ UNCHANGED <<token, alive, next, previous, token_count, vocabulary, book, queue, phase,
                     cursor, best, positions, bucket, word, index, held, events,
                     total_frequency>>
  BY DEF vars, chain, thread
<1>2. Position' = Position /\ Frequencies' = Frequencies /\ PendingEvents' = PendingEvents
  BY <1>1, SameInput, SamePending
<1>3. left_token' = left_token /\ right_token' = right_token /\ merged_token' = merged_token
  BY <1>1, SameTokens
<1>4. Listed' = Listed /\ Chain' = Chain
  BY <1>1 DEF Listed, Queued, Chain
<1>5. NeverAborted' /\ BookExact' /\ KeysKnown'
  BY <1>1, <1>2, <1>3, <1>4 DEF EInv, NeverAborted, BookExact, KeysKnown, InRound
<1>6. BuildExact'
  BY <1>1, <1>2 DEF EInv, BuildExact, Past, IsEnd
<1>7. BookDescribes' /\ EventsFit'
  BY <1>1, <1>2, <1>3, <1>4 DEF EInv, BookDescribes, EventsFit
<1>8. EventsInOrder' /\ PositionsInOrder'
  BY <1>1 DEF EInv, EventsInOrder, PositionsInOrder
<1>9. Region'
  BY <1>1, <1>2, <1>3 DEF EInv, Region, ThreadRegion, Remaining
<1>10. Idle'
  BY <1>1 DEF EInv, Idle
<1>11. WalkExact'
  BY <1>1, <1>2, <1>4 DEF EInv, WalkExact, WalkSound
<1>12. NewbornsInOrder'
  BY <1>1, <1>2 DEF EInv, NewbornsInOrder, CurrentWord, Todo
<1>13. AllCovered'
  BY <1>1, <1>2, <1>3 DEF EInv, AllCovered, Unmerged, pair_is_at, is_live, Remaining
<1>14. QueueComplete' /\ BestApart'
  BY <1>1 DEF EInv, QueueComplete, BestApart, Eligible, Queued
<1>15. QED
  BY <1>5, <1>6, <1>7, <1>8, <1>9, <1>10, <1>11, <1>12, <1>13, <1>14 DEF EInv

LEMMA NextExact == IInv /\ RInv /\ ChainIntact /\ EInv /\ [Next]_vars => EInv'
<1> SUFFICES ASSUME IInv, RInv, ChainIntact, EInv, [Next]_vars PROVE EInv'
  OBVIOUS
<1>1. IInv' /\ ChainIntact'
  BY NextInv, NextChain
<1>2. CASE BuildPosition \/ BuildNextWord \/ StartMerging
  BY <1>2, BuildPositionExact, BuildNextWordExact, StartMergingExact
<1>3. CASE PopIneligible \/ PopOutdated \/ PopBest \/ Finish
  BY <1>3, PopIneligibleExact, PopOutdatedExact, PopBestExact, FinishExact
<1>4. CASE WalkList \/ StartRound
  BY <1>1, <1>4, WalkListExact, StartRoundExact
<1>5. CASE SkipPosition \/ MergePosition
  BY <1>1, <1>5, SkipPositionExact, MergePositionExact
<1>6. CASE Join \/ ReplayEvent \/ EndRound
  BY <1>1, <1>6, JoinExact, ReplayEventExact, EndRoundExact
<1>7. CASE \E t \in Team : ThreadStep(t)
  BY <1>1, <1>7, TakeWordExact, ResolveExact, ApplyExact DEF ThreadStep
<1>8. CASE Terminated \/ UNCHANGED vars
  BY <1>8, StutterExact DEF Terminated
<1>9. QED
  BY <1>2, <1>3, <1>4, <1>5, <1>6, <1>7, <1>8 DEF Next, MainStep

\* The book, the chain and the events fit together in every state.
THEOREM BookKeepsUp == Spec => []EInv
<1>1. QED
  BY InitExact, NextExact, Inductive, Rounds, ChainStaysIntact, PTL DEF Spec

-----------------------------------------------------------------------------
(* What the invariant says between rounds.                                 *)

LEMMA QuietFacts ==
    ASSUME IInv, EInv, Quiescent
    PROVE  /\ PendingEvents = {} /\ phase # "build" /\ best = no_position
           /\ \A s \in DOMAIN book.pairs : /\ EdgesOf(book, s) = Edges(book.pairs[s].key)
                                           /\ ~Newborn(book, s)
           /\ \A p \in Position : KeyOf(book, p) = IF is_live(p) /\ is_live(next[p])
                                                   THEN <<token[p], token[next[p]]>> ELSE no_position
<1>1. PendingEvents = {} /\ phase # "build" /\ best = no_position /\ book.born = << >>
  BY DEF Quiescent, EInv, Idle, IInv, ThreadsIdle, PendingEvents
<1>2. \A s \in DOMAIN book.pairs : EdgesOf(book, s) = Edges(book.pairs[s].key)
  BY <1>1, EdgesDescribed DEF Edges
<1>3. \A s \in DOMAIN book.pairs : ~Newborn(book, s)
  BY <1>1 DEF Newborn
<1>4. DOMAIN book.edge_group = Position /\ no_position \notin Position
  BY ExactFacts
<1>5. Describes(book, Chain, {}, left_token, right_token)
  BY <1>1 DEF EInv, BookDescribes
<1>6. \A p \in Position : KeyOf(book, p) = IF alive[p] /\ alive[next[p]]
                                           THEN <<token[p], token[next[p]]>> ELSE no_position
  BY <1>4, <1>5 DEF Describes, Mergeds, Rights, EdgeKey, OldToken, Chain
<1>7. \A p \in Position : alive[p] => next[p] # no_position
  BY DEF IInv, ChainOrdered
<1>8. QED
  BY <1>1, <1>2, <1>3, <1>4, <1>6, <1>7 DEF is_live

LEMMA OccurrencesWeigh ==
    ASSUME NEW S, S \subseteq Position
    PROVE  Cardinality(Occurrences(S)) = Weight(S, Frequencies)
<1>1. \A p \in S : Frequencies[p] = Frequency(p)
  BY DEF Frequencies
<1>2. Occurrences(S) = Weighted(S, Frequencies)
  BY <1>1 DEF Occurrences, Weighted
<1>3. QED
  BY <1>2 DEF Weight

LEMMA CountsKept == IInv /\ EInv => CountsExact
<1> SUFFICES ASSUME IInv, EInv, Quiescent
             PROVE  /\ \A key \in KeysInUse :
                          Cardinality({s \in DOMAIN book.pairs : book.pairs[s].key = key}) = 1
                    /\ \A s \in DOMAIN book.pairs :
                          /\ book.pairs[s].count = Cardinality(Occurrences(Edges(book.pairs[s].key)))
                          /\ book.pairs[s].word_count = Cardinality(WordsOf(Edges(book.pairs[s].key)))
  BY DEF CountsExact
<1>1. /\ \A s \in DOMAIN book.pairs : EdgesOf(book, s) = Edges(book.pairs[s].key)
      /\ \A p \in Position : KeyOf(book, p) = IF is_live(p) /\ is_live(next[p])
                                              THEN <<token[p], token[next[p]]>> ELSE no_position
  BY QuietFacts
<1>2. /\ BookOK(book, Position) /\ Slots(Position) /\ Exact(book, Frequencies)
      /\ DOMAIN book.edge_group = Position /\ IsFiniteSet(Position)
  BY ExactFacts DEF Sound, Slots
<1>3. ASSUME NEW key \in KeysInUse
      PROVE  Cardinality({s \in DOMAIN book.pairs : book.pairs[s].key = key}) = 1
  <2>1. PICK p \in Position : /\ is_live(p) /\ is_live(next[p])
                              /\ key = <<token[p], token[next[p]]>>
    BY DEF KeysInUse
  <2>2. KeyOf(book, p) = key /\ key # no_position
    <3>1. key \in Nat \X Nat
      BY <2>1 DEF is_live, IInv, TypeOK, Optional
    <3>2. QED
      BY <1>1, <2>1, <3>1, NoPositionAssumption
  <2>3. book.edge_group[p] # no_position
    BY <2>2 DEF KeyOf
  <2>4. PICK s : s = book.group_state[book.edge_group[p]]
    OBVIOUS
  <2>5. s \in DOMAIN book.pairs /\ book.pairs[s].key = key
    BY <1>2, <2>2, <2>3, <2>4, GroupFacts DEF KeyOf
  <2>6. KeysUnique(book)
    BY DEF EInv, KeysKnown
  <2>7. {k \in DOMAIN book.pairs : book.pairs[k].key = key} = {s}
    BY <2>5, <2>6 DEF KeysUnique
  <2>8. QED
    BY <2>7, FS_Singleton
<1>4. ASSUME NEW s \in DOMAIN book.pairs
      PROVE  /\ book.pairs[s].count = Cardinality(Occurrences(Edges(book.pairs[s].key)))
             /\ book.pairs[s].word_count = Cardinality(WordsOf(Edges(book.pairs[s].key)))
  <2>1. EdgesOf(book, s) = Edges(book.pairs[s].key) /\ EdgesOf(book, s) \subseteq Position
    BY <1>1, <1>2 DEF EdgesOf
  <2>2. book.pairs[s].count = Weight(EdgesOf(book, s), Frequencies)
    BY <1>2 DEF Exact, CountsSound
  <2>3. Cardinality(Occurrences(EdgesOf(book, s))) = Weight(EdgesOf(book, s), Frequencies)
    BY <2>1, OccurrencesWeigh
  <2>4. book.pairs[s].word_count = Cardinality(WordsIn(EdgesOf(book, s)))
    BY <1>2, WordCounts
  <2>5. WordsIn(EdgesOf(book, s)) = WordsOf(EdgesOf(book, s))
    BY DEF WordsIn, WordsOf
  <2>6. QED
    BY <2>1, <2>2, <2>3, <2>4, <2>5
<1>5. QED
  BY <1>3, <1>4

\* The counts that add_edge and remove_edge keep up with every merge are those that
\* counting each pair afresh gives, for every corpus, team of threads and order.
THEOREM CountsNeverDrift == Spec => []CountsExact
<1>1. QED
  BY CountsKept, Inductive, BookKeepsUp, PTL

\* None of the three conditions under which remove_edge aborts is ever met.
THEOREM NeverAborts == Spec => []NoAbort
<1>1. EInv => NoAbort
  BY DEF EInv, NeverAborted, NoAbort
<1>2. QED
  BY <1>1, BookKeepsUp, PTL

\* In a sequential round what has been merged of a word is left of what is to come.
MergedBehind ==
    phase = "sequential" =>
        \A p \in Position : \A i \in DOMAIN positions :
            alive[p] /\ token[p] = merged_token /\ positions[i][1] = p[1]
               => p[2] < positions[i][2]

LEMMA SequentialSteps ==
    ASSUME IInv, [Next]_vars, phase' = "sequential"
    PROVE  StartRound \/ SkipPosition \/ MergePosition \/ UNCHANGED vars
<1>1. ASSUME BuildPosition \/ BuildNextWord \/ StartMerging PROVE FALSE
  BY <1>1 DEF BuildPosition, BuildNextWord, StartMerging
<1>2. ASSUME PopIneligible \/ PopOutdated \/ PopBest \/ Finish \/ WalkList PROVE FALSE
  BY <1>2 DEF PopIneligible, PopOutdated, PopBest, Finish, WalkList
<1>3. ASSUME Join \/ ReplayEvent \/ EndRound PROVE FALSE
  BY <1>3 DEF Join, ReplayEvent, Rewire, EndRound
<1>4. ASSUME NEW t \in Team, ThreadStep(t) PROVE FALSE
  BY <1>4 DEF ThreadStep, TakeWord, Resolve, Apply
<1>5. ASSUME Terminated PROVE UNCHANGED vars
  BY <1>5 DEF Terminated
<1>6. QED
  BY <1>1, <1>2, <1>3, <1>4, <1>5 DEF Next, MainStep

LEMMA MergedStaysBehind == IInv /\ EInv /\ MergedBehind /\ [Next]_vars => MergedBehind'
<1> SUFFICES ASSUME IInv, EInv, MergedBehind, [Next]_vars, phase' = "sequential",
                    NEW p \in Position', NEW i \in DOMAIN positions',
                    alive'[p], token'[p] = merged_token', positions'[i][1] = p[1]
             PROVE  p[2] < positions'[i][2]
  BY DEF MergedBehind
<1>1. CASE StartRound
  <2>1. /\ splits' = splits /\ alive' = alive /\ token' = token
        /\ Len(vocabulary') = Len(vocabulary) + 1
    BY <1>1, InvFacts DEF StartRound, chain, IInv, TypeOK
  <2>2. Position' = Position
    BY <2>1, SameInput
  <2>3. token[p] \in DOMAIN vocabulary /\ DOMAIN vocabulary = 1..Len(vocabulary)
    BY <2>1, <2>2, InvFacts DEF IInv, TokensKnown
  <2>4. token[p] = Len(vocabulary) + 1 /\ Len(vocabulary) \in Nat
    BY <2>1, InvFacts DEF merged_token
  <2>5. QED
    BY <2>3, <2>4
<1>2. CASE SkipPosition \/ MergePosition
  <2>1. /\ splits' = splits /\ vocabulary' = vocabulary /\ phase = "sequential"
        /\ positions # << >> /\ positions' = Tail(positions)
    BY <1>2 DEF SkipPosition, MergePosition
  <2>2. Position' = Position /\ merged_token' = merged_token
    BY <2>1, SameInput DEF merged_token
  <2>3. positions \in Seq(Position) /\ InOrder(positions)
    BY DEF IInv, TypeOK, EInv, PositionsInOrder
  <2>4. /\ Head(positions) = positions[1] /\ positions[1] \in Position
        /\ i \in Nat \ {0} /\ i + 1 \in DOMAIN positions
        /\ positions'[i] = positions[i + 1]
    BY <2>1, <2>3, TailFacts
  <2>5. CASE alive[p] /\ token[p] = merged_token
    BY <2>1, <2>2, <2>4, <2>5 DEF MergedBehind
  <2>6. CASE ~(alive[p] /\ token[p] = merged_token)
    <3>1. p = positions[1]
      <4>1. CASE SkipPosition
        <5>1. alive' = alive /\ token' = token
          BY <4>1 DEF SkipPosition, chain
        <5>2. QED
          BY <2>2, <2>6, <5>1
      <4>2. CASE MergePosition
        <5> DEFINE n == Neighbours(Head(positions))
        <5>1. /\ token' = [token EXCEPT ![n.position] = merged_token]
              /\ alive' = [alive EXCEPT ![n.right] = FALSE]
          BY <4>2 DEF MergePosition, Splice
        <5>2. n.position = Head(positions)
          BY DEF Neighbours
        <5> HIDE DEF n
        <5>3. token \in [Position -> Nat] /\ alive \in [Position -> BOOLEAN]
          BY DEF IInv, TypeOK
        <5>4. alive[p] /\ (p # n.position => token'[p] = token[p])
          BY <2>2, <5>1, <5>3
        <5>5. QED
          BY <2>2, <2>4, <2>6, <5>2, <5>4
      <4>3. QED
        BY <1>2, <4>1, <4>2
    <3>2. i + 1 # 1
      BY <2>4
    <3>3. positions[1][2] < positions[i + 1][2]
      BY <2>1, <2>3, <2>4, <3>1, <3>2, HeadFirst
    <3>4. QED
      BY <2>4, <3>1, <3>3
  <2>7. QED
    BY <2>5, <2>6
<1>3. CASE UNCHANGED vars
  <2>1. UNCHANGED <<splits, alive, token, vocabulary, positions, phase>>
    BY <1>3 DEF vars, chain
  <2>2. Position' = Position /\ merged_token' = merged_token
    BY <2>1, SameInput DEF merged_token
  <2>3. QED
    BY <2>1, <2>2 DEF MergedBehind
<1>4. QED
  BY <1>1, <1>2, <1>3, SequentialSteps

LEMMA NothingAhead == IInv /\ EInv /\ MergedBehind => NothingMergedAhead
<1> SUFFICES ASSUME IInv, EInv, MergedBehind PROVE NothingMergedAhead
  OBVIOUS
<1>1. ASSUME phase = "sequential", NEW p \in Position, Unmerged(p), is_live(next[next[p]])
      PROVE  token[next[next[p]]] # merged_token
  <2> DEFINE q == next[next[p]]
  <2>1. PICK i \in DOMAIN positions : positions[i] = p
    BY <1>1 DEF EInv, AllCovered
  <2>2. alive[p] /\ alive[next[p]] /\ alive[q]
    BY <1>1 DEF Unmerged, pair_is_at, is_live
  <2>3. splits \in Corpora /\ ChainTyped /\ ChainOrdered /\ ChainLinked
    BY InvFacts DEF IInv
  <2>4. /\ next[p] \in Position /\ q \in Position
        /\ next[p] # no_position /\ q # no_position /\ q[1] = p[1]
    <3>1. PICK n : n = Neighbours(p)
      OBVIOUS
    <3>2. /\ n.right = next[p] /\ n.right \in Position
          /\ n.after = next[n.right] /\ n.after \in Position /\ n.after[1] = p[1]
      BY <2>2, <2>3, <3>1, NeighbourFacts
    <3>3. no_position \notin Position
      BY <2>3, PositionsTyped
    <3>4. QED
      BY <3>2, <3>3
  <2>5. next[p][2] > p[2] /\ q[2] > next[p][2]
    BY <2>3, <2>4 DEF ChainOrdered
  <2>6. p[2] \in Nat /\ q[2] \in Nat /\ next[p][2] \in Nat
    <3>1. Position \subseteq Nat \X Nat
      BY ExactFacts
    <3>2. QED
      BY <2>4, <3>1
  <2> HIDE DEF q
  <2>7. ~(q[2] < p[2])
    BY <2>5, <2>6
  <2>8. token[q] # merged_token
    BY <1>1, <2>1, <2>2, <2>4, <2>7 DEF MergedBehind
  <2>9. QED
    BY <2>8 DEF q
<1>2. ASSUME NEW t \in Threads, NEW i \in DOMAIN events[t], events[t][i].after # no_position
      PROVE  events[t][i].after_token # merged_token
  <2>1. events[t] # << >> /\ events[t][i] \in PendingEvents
    BY DEF PendingEvents
  <2>2. phase \in {"surgery", "replay"}
    BY <2>1 DEF IInv, ThreadsIdle, EInv, NeverAborted
  <2>3. QED
    BY <1>2, <2>1, <2>2 DEF EInv, EventsFit
<1>3. QED
  BY <1>1, <1>2 DEF NothingMergedAhead, Unmerged

\* The words of a list are worked off from left to right, by the sequential loop and by
\* every thread of the region, so neither the loop nor the replay finds the merged token
\* on an occurrence's right: the case of get_right_pair_state for equal tokens is never
\* taken.
THEOREM MergesLeftToRight == Spec => []NothingMergedAhead
<1>1. Init => MergedBehind
  BY DEF Init, InitInput, MergedBehind
<1>2. Spec => []MergedBehind
  BY <1>1, MergedStaysBehind, Inductive, BookKeepsUp, PTL DEF Spec
<1>3. QED
  BY <1>2, NothingAhead, Inductive, BookKeepsUp, PTL

-----------------------------------------------------------------------------
(* When the parallel region gets all the threads it asked for.             *)

LEMMA UsesUp == Team = Threads /\ IInv /\ EInv => RoundUsesUpPair
<1> SUFFICES ASSUME Team = Threads, IInv, EInv, RoundProcessed
             PROVE  /\ book.pairs[best].count = 0
                    /\ book.pairs[best].word_count = 0
                    /\ book.pairs[best].positions_head = no_position
                    /\ book.pairs[best].positions_tail = no_position
  BY DEF RoundUsesUpPair
<1>1. EdgesOf(book, best) = {}
  BY PairUsedUp
<1>2. best \in DOMAIN book.pairs
  BY DEF RoundProcessed, InRound, IInv, PairsKnown
<1>3. /\ Exact(book, Frequencies) /\ BookOK(book, Position) /\ Slots(Position)
      /\ Ordered(book, Position, Listed)
  BY ExactFacts DEF Sound
<1>4. book.pairs[best].count = Weight({}, Frequencies)
  BY <1>1, <1>2, <1>3 DEF Exact, CountsSound
<1>5. book.pairs[best].word_count = Cardinality(WordsIn({}))
  BY <1>1, <1>2, <1>3, WordCounts
<1>6. WordsIn({}) = {}
  BY DEF WordsIn
<1>7. EndsEmpty({}, book.pairs[best])
  BY <1>1, <1>2, <1>3 DEF Ordered, ListsSound
<1>8. QED
  BY <1>4, <1>5, <1>6, <1>7, WeightEmpty, FS_EmptySet DEF EndsEmpty

\* A round leaves nothing of its pair: every occurrence on the list was merged, or
\* was gone when its turn came.  The list that was emptied when the pair was chosen
\* therefore needs no mending.
THEOREM PairsAreUsedUp == Team = Threads /\ Spec => []RoundUsesUpPair
<1>1. CASE Team = Threads
  <2>1. IInv /\ EInv => RoundUsesUpPair
    BY <1>1, UsesUp
  <2>2. Spec => []RoundUsesUpPair
    BY <2>1, Inductive, BookKeepsUp, PTL
  <2>3. QED
    BY <2>2
<1>2. CASE Team # Threads
  BY <1>2
<1>3. QED
  BY <1>1, <1>2

LEMMA RegionMerges == Team = Threads /\ EInv => RegionMergesAll
BY DEF EInv, AllCovered, Unmerged, RegionMergesAll

\* The words that the threads own are, together, all the words of the list: when
\* the parallel region ends no occurrence of the pair is left.
THEOREM RegionLeavesNone == Team = Threads /\ Spec => []RegionMergesAll
<1>1. CASE Team = Threads
  <2>1. EInv => RegionMergesAll
    BY <1>1, RegionMerges
  <2>2. Spec => []RegionMergesAll
    BY <2>1, BookKeepsUp, PTL
  <2>3. QED
    BY <2>2
<1>2. CASE Team # Threads
  BY <1>2
<1>3. QED
  BY <1>1, <1>2

LEMMA QueueHasAll == Team = Threads /\ IInv /\ RInv /\ EInv => QueueCovers
<1> SUFFICES ASSUME Team = Threads, IInv, RInv, EInv, phase = "pop"
             PROVE  /\ \A e, f \in queue : e.state = f.state => e = f
                    /\ \A s \in DOMAIN book.pairs :
                          Eligible(s) => \E e \in queue : e.state = s /\ e.count >= book.pairs[s].count
  BY DEF QueueCovers
<1>1. \A e \in queue : /\ e.count >= book.pairs[e.state].count
                       /\ \A f \in queue : f.state = e.state => f = e
  BY DEF RInv, EntriesNeverLow
<1>2. best = no_position /\ \A s \in DOMAIN book.pairs : ~Newborn(book, s)
  BY QuietFacts DEF Quiescent
<1>3. \A s \in DOMAIN book.pairs : s # no_position
  BY ExactFacts
<1>4. \A s \in DOMAIN book.pairs : Eligible(s) => Queued(s)
  BY <1>2, <1>3 DEF EInv, QueueComplete
<1>5. QED
  BY <1>1, <1>4 DEF Queued

\* The lazy queue misses nothing: whenever pop_best_state looks for the best pair,
\* every pair that may be merged has one entry, and it is not too low.
THEOREM QueueMissesNothing == Team = Threads /\ Spec => []QueueCovers
<1>1. CASE Team = Threads
  <2>1. IInv /\ RInv /\ EInv => QueueCovers
    BY <1>1, QueueHasAll
  <2>2. Spec => []QueueCovers
    BY <2>1, Inductive, Rounds, BookKeepsUp, PTL
  <2>3. QED
    BY <2>2
<1>2. CASE Team # Threads
  BY <1>2
<1>3. QED
  BY <1>1, <1>2

-----------------------------------------------------------------------------
(* The token counts.                                                       *)

\* The slots that token_count[v] counts: build_state has counted those it is past.
Tallied(v) == {p \in Position : alive[p] /\ token[p] = v /\ (phase = "build" => Past(p))}

\* Token v's share of the merges of the token u that the region has not yet counted.
Share(v, u, f) == IF v = u THEN f ELSE 0

\* What token_count[v] is too high by until the parallel region ends.
Owed(v) ==
    IF total_frequency = 0 THEN 0
    ELSE Share(v, left_token, total_frequency) + Share(v, right_token, total_frequency)
            - Share(v, merged_token, total_frequency)

TokenCounted(v) == token_count[v] = Weight(Tallied(v), Frequencies) + Owed(v)

TInv ==
    /\ phase # "surgery" => total_frequency = 0
    /\ \A v \in DOMAIN token_count : TokenCounted(v)

LEMMA CountedFinite ==
    ASSUME IInv
    PROVE  /\ \A v : /\ Tallied(v) \in SUBSET Position /\ IsFiniteSet(Tallied(v))
                     /\ Weight(Tallied(v), Frequencies) \in Nat
           /\ Frequencies \in [Position -> Nat] /\ IsFiniteSet(Position)
<1>1. splits \in Corpora
  BY InvFacts
<1>2. Frequencies \in [Position -> Nat] /\ IsFiniteSet(Position)
  BY <1>1, FrequenciesTyped DEF Slots
<1>3. ASSUME NEW v
      PROVE  /\ Tallied(v) \in SUBSET Position /\ IsFiniteSet(Tallied(v))
             /\ Weight(Tallied(v), Frequencies) \in Nat
  <2>1. Tallied(v) \in SUBSET Position
    BY DEF Tallied
  <2>2. IsFiniteSet(Tallied(v))
    BY <1>2, <2>1, FS_Subset
  <2>3. QED
    BY <1>2, <2>1, <2>2, WeightedFinite
<1>4. QED
  BY <1>2, <1>3

LEMMA NothingOwed ==
    ASSUME total_frequency = 0
    PROVE  \A v : Owed(v) = 0
BY DEF Owed, Share

\* A set from which q is taken, and p as well unless it is put back.
LEMMA WeightSpliced ==
    ASSUME NEW P, IsFiniteSet(P), NEW F \in [P -> Nat], NEW S \in SUBSET P, NEW T \in SUBSET P,
           NEW p \in P, NEW q \in P, p # q, F[p] = F[q],
           \A x \in P : x # p => (x \in T <=> x # q /\ x \in S),
           NEW f, f = F[p]
    PROVE  Weight(T, F) = Weight(S, F) - (IF p \in S THEN f ELSE 0) - (IF q \in S THEN f ELSE 0)
                                       + (IF p \in T THEN f ELSE 0)
<1>1. IsFiniteSet(S) /\ IsFiniteSet(T) /\ f \in Nat
  BY FS_Subset
<1>2. Weight(S, F) \in Nat
  BY <1>1, WeightedFinite
<1> DEFINE A == S \ {p}
           B == A \ {q}
<1>3. A \in SUBSET P /\ B \in SUBSET P /\ IsFiniteSet(A) /\ IsFiniteSet(B)
  BY FS_Subset
<1>4. Weight(A, F) = Weight(S, F) - (IF p \in S THEN f ELSE 0) /\ Weight(A, F) \in Nat
  <2>1. CASE p \in S
    BY <1>1, <2>1, WeightRemove
  <2>2. CASE p \notin S
    <3>1. A = S
      BY <2>2
    <3>2. QED
      BY <1>2, <2>2, <3>1
  <2>3. QED
    BY <2>1, <2>2
<1>5. q \in A <=> q \in S
  OBVIOUS
<1>6. T = IF p \in T THEN B \cup {p} ELSE B
  OBVIOUS
<1>7. p \notin B
  OBVIOUS
<1>8. B = A \ {q}
  OBVIOUS
<1> HIDE DEF A, B
<1>9. Weight(B, F) = Weight(A, F) - (IF q \in S THEN f ELSE 0) /\ Weight(B, F) \in Nat
  <2>1. CASE q \in S
    BY <1>3, <1>5, <1>8, <2>1, WeightRemove
  <2>2. CASE q \notin S
    <3>1. B = A
      BY <1>5, <1>8, <2>2
    <3>2. QED
      BY <1>4, <2>2, <3>1
  <2>3. QED
    BY <2>1, <2>2
<1>10. Weight(T, F) = Weight(B, F) + (IF p \in T THEN f ELSE 0)
  <2>1. CASE p \in T
    BY <1>3, <1>6, <1>7, <2>1, WeightAdd
  <2>2. CASE p \notin T
    BY <1>6, <1>9, <2>2
  <2>3. QED
    BY <2>1, <2>2
<1>11. QED
  BY <1>1, <1>2, <1>4, <1>9, <1>10

LEMMA CountMergedAt ==
    ASSUME token_count \in Seq(Int), NEW f \in Nat, NEW l, l = left_token, NEW r, r = right_token,
           NEW m, m = merged_token, l # m, r # m,
           NEW v \in DOMAIN token_count
    PROVE  CountMerged(f)[v] = token_count[v] - Share(v, l, f) - Share(v, r, f) + Share(v, m, f)
<1> DEFINE less == [token_count EXCEPT ![l] = @ - f]
           lesser == [less EXCEPT ![r] = @ - f]
           counts == [lesser EXCEPT ![m] = @ + f]
<1>1. CountMerged(f) = counts
  BY DEF CountMerged
<1>2. DOMAIN token_count = 1..Len(token_count) /\ token_count[v] \in Int
  OBVIOUS
<1>3. less[v] = token_count[v] - Share(v, l, f) /\ DOMAIN less = DOMAIN token_count
  BY <1>2 DEF Share
<1>4. less[v] \in Int
  BY <1>2, <1>3 DEF Share
<1> HIDE DEF less
<1>5. lesser[v] = less[v] - Share(v, r, f) /\ DOMAIN lesser = DOMAIN token_count
  BY <1>3, <1>4 DEF Share
<1>6. lesser[v] \in Int
  BY <1>4, <1>5 DEF Share
<1> HIDE DEF lesser
<1>7. counts[v] = lesser[v] + Share(v, m, f)
  BY <1>5, <1>6 DEF Share
<1> HIDE DEF counts
<1>8. QED
  BY <1>1, <1>2, <1>3, <1>4, <1>5, <1>6, <1>7 DEF Share

LEMMA NothingOwedNext ==
    ASSUME total_frequency' = 0
    PROVE  \A v : Owed(v)' = 0
BY DEF Owed

\* A step that counts nothing and moves no slot that is alive behind the cursor.
LEMMA TokensQuiet ==
    ASSUME TInv, splits' = splits, UNCHANGED <<chain, token_count, total_frequency>>,
           \/ total_frequency = 0
           \/ left_token' = left_token /\ right_token' = right_token /\ merged_token' = merged_token,
           phase' # "surgery" => total_frequency = 0,
           \A p \in Position :
              alive[p] => ((phase' = "build" => Past(p)') <=> (phase = "build" => Past(p)))
    PROVE  TInv'
<1>1. Position' = Position /\ Frequencies' = Frequencies
  BY SameInput
<1>2. alive' = alive /\ token' = token
  BY DEF chain
<1>3. \A v : Tallied(v)' = Tallied(v)
  BY <1>1, <1>2 DEF Tallied
<1>4. \A v : Owed(v)' = Owed(v)
  BY DEF Owed
<1>5. QED
  BY <1>1, <1>3, <1>4 DEF TInv, TokenCounted

\* The same, after build_state.
LEMMA TokensStay ==
    ASSUME TInv, splits' = splits, UNCHANGED <<chain, token_count, total_frequency>>,
           phase # "build", phase' # "build", phase # "surgery" \/ phase' = "surgery",
           \/ phase # "surgery"
           \/ UNCHANGED <<vocabulary, book, best>>
    PROVE  TInv'
<1>1. /\ \/ total_frequency = 0
         \/ left_token' = left_token /\ right_token' = right_token /\ merged_token' = merged_token
      /\ phase' # "surgery" => total_frequency = 0
  BY SameTokens DEF TInv
<1>2. QED
  BY <1>1, TokensQuiet

LEMMA BuildPositionTokens == IInv /\ ChainIntact /\ TInv /\ BuildPosition => TInv'
<1> SUFFICES ASSUME IInv, ChainIntact, TInv, BuildPosition PROVE TInv'
  OBVIOUS
<1>1. /\ splits' = splits /\ UNCHANGED <<chain, total_frequency>>
      /\ phase = "build" /\ phase' = "build" /\ alive[cursor]
      /\ token_count' = [token_count EXCEPT ![token[cursor]] = @ + Frequency(cursor)]
  BY DEF BuildPosition
<1>2. /\ cursor \in Position /\ ~Past(cursor)
      /\ \A p \in Position : alive[p] => (Past(p)' <=> Past(p) \/ p = cursor)
  BY PastMoves
<1>3. Position' = Position /\ Frequencies' = Frequencies /\ alive' = alive /\ token' = token
  BY <1>1, SameInput DEF chain
<1>4. total_frequency = 0 /\ total_frequency' = 0
  BY <1>1 DEF TInv
<1>5. /\ token_count \in Seq(Int) /\ Frequency(cursor) \in Nat /\ Frequencies[cursor] = Frequency(cursor)
      /\ DOMAIN token_count = 1..Len(token_count)
  BY <1>2, InvFacts, PositionsTyped, FrequenciesTyped DEF IInv, TypeOK
<1>6. ASSUME NEW v \in DOMAIN token_count'
      PROVE  TokenCounted(v)'
  <2>1. v \in DOMAIN token_count /\ token_count[v] \in Int
    BY <1>1, <1>5, <1>6
  <2>2. token_count[v] = Weight(Tallied(v), Frequencies)
    <3>1. /\ TokenCounted(v) /\ Owed(v) = 0 /\ Weight(Tallied(v), Frequencies) \in Nat
      BY <1>4, <2>1, NothingOwed, CountedFinite DEF TInv
    <3>2. QED
      BY <3>1 DEF TokenCounted
  <2>3. Owed(v)' = 0
    BY <1>4, NothingOwedNext
  <2>4. CASE v = token[cursor]
    <3>1. Tallied(v)' = Tallied(v) \cup {cursor} /\ cursor \notin Tallied(v)
      BY <1>1, <1>2, <1>3, <2>4 DEF Tallied
    <3>2. Weight(Tallied(v) \cup {cursor}, Frequencies) = Weight(Tallied(v), Frequencies) + Frequencies[cursor]
      BY <1>2, <3>1, CountedFinite, WeightAdd
    <3>3. token_count'[v] = token_count[v] + Frequency(cursor)
      BY <1>1, <2>1, <2>4
    <3>4. Weight(Tallied(v)', Frequencies') = token_count'[v] /\ token_count'[v] \in Int
      BY <1>3, <1>5, <2>1, <2>2, <3>1, <3>2, <3>3
    <3>5. QED
      BY <2>3, <3>4 DEF TokenCounted
  <2>5. CASE v # token[cursor]
    <3>1. Tallied(v)' = Tallied(v)
      BY <1>1, <1>2, <1>3, <2>5 DEF Tallied
    <3>2. token_count'[v] = token_count[v]
      BY <1>1, <2>1, <2>5
    <3>3. QED
      BY <1>3, <2>1, <2>2, <2>3, <3>1, <3>2 DEF TokenCounted
  <2>6. QED
    BY <2>4, <2>5
<1>7. QED
  BY <1>4, <1>6 DEF TInv

LEMMA StartRoundTokens == IInv /\ TInv /\ StartRound => TInv'
<1> SUFFICES ASSUME IInv, TInv, StartRound PROVE TInv'
  OBVIOUS
<1>1. /\ splits' = splits /\ UNCHANGED <<chain, total_frequency>>
      /\ phase = "walk" /\ phase' \in {"surgery", "sequential"}
      /\ token_count' = Append(token_count, 0)
  BY DEF StartRound
<1>2. Position' = Position /\ Frequencies' = Frequencies /\ alive' = alive /\ token' = token
  BY <1>1, SameInput DEF chain
<1>3. total_frequency = 0 /\ total_frequency' = 0
  BY <1>1 DEF TInv
<1>4. /\ token_count \in Seq(Int) /\ DOMAIN token_count = 1..Len(token_count) /\ Len(token_count) \in Nat
      /\ \A p \in Position : alive[p] => token[p] \in DOMAIN token_count
  BY InvFacts DEF IInv, TypeOK, TokensKnown
<1>5. \A v : Tallied(v)' = Tallied(v)
  BY <1>1, <1>2 DEF Tallied
<1>6. ASSUME NEW v \in DOMAIN token_count'
      PROVE  TokenCounted(v)'
  <2>1. Owed(v) = 0 /\ Owed(v)' = 0
    BY <1>3, NothingOwed, NothingOwedNext
  <2>2. CASE v \in DOMAIN token_count
    <3>1. token_count'[v] = token_count[v]
      BY <1>1, <1>4, <2>2
    <3>2. TokenCounted(v)
      BY <2>2 DEF TInv
    <3>3. QED
      BY <1>2, <1>5, <2>1, <3>1, <3>2 DEF TokenCounted
  <2>3. CASE v \notin DOMAIN token_count
    <3>1. token_count'[v] = 0
      BY <1>1, <1>4, <1>6, <2>3
    <3>2. Tallied(v) = {}
      BY <1>4, <2>3 DEF Tallied
    <3>3. Weight(Tallied(v)', Frequencies') = 0
      BY <1>2, <1>5, <3>2, WeightEmpty
    <3>4. QED
      BY <2>1, <3>1, <3>3 DEF TokenCounted
  <2>4. QED
    BY <2>2, <2>3
<1>7. QED
  BY <1>3, <1>6 DEF TInv

\* The slots that hold a token after the merge of p with its right neighbour.
LEMMA TokensSpliced ==
    ASSUME IInv, InRound, splits' = splits, phase' # "build",
           NEW p \in Position, Unmerged(p), NEW n, n = Neighbours(p), Splice(n, merged_token),
           NEW f, f = Frequency(p), NEW v
    PROVE  /\ f \in Nat /\ Position' = Position /\ Frequencies' = Frequencies
           /\ Weight(Tallied(v)', Frequencies')
                = Weight(Tallied(v), Frequencies) - Share(v, left_token, f) - Share(v, right_token, f)
                                                  + Share(v, merged_token, f)
<1>1. /\ splits \in Corpora /\ ChainTyped /\ ChainOrdered /\ ChainLinked
      /\ merged_token \in Nat /\ phase # "build"
      /\ left_token # merged_token /\ right_token # merged_token
  <2>1. left_token \in 1..(Len(vocabulary) - 1) /\ right_token \in 1..(Len(vocabulary) - 1)
    BY DEF IInv, PairsKnown
  <2>2. Len(vocabulary) \in Nat /\ merged_token = Len(vocabulary)
    BY InvFacts DEF merged_token
  <2>3. QED
    BY <2>1, <2>2, InvFacts DEF IInv, InRound
<1>2. /\ alive[p] /\ token[p] = left_token /\ alive[next[p]] /\ token[next[p]] = right_token
  BY DEF Unmerged, pair_is_at, is_live
<1>3. /\ n.right = next[p] /\ n.right \in Position /\ n.right[1] = p[1] /\ n.right # p
  BY <1>1, <1>2, NeighbourFacts
<1>4. Spliced(p, n.right, n.after, merged_token)
  BY <1>1, <1>2, SpliceFacts
<1>5. /\ Position' = Position /\ Frequencies' = Frequencies /\ f \in Nat
      /\ Frequencies[p] = f /\ Frequencies[n.right] = f
  BY <1>1, <1>3, SameInput, PositionsTyped, FrequenciesTyped
<1> DEFINE S == Tallied(v)
           T == Tallied(v)'
           q == n.right
<1>6. /\ S \in SUBSET Position /\ T \in SUBSET Position
      /\ IsFiniteSet(Position) /\ Frequencies \in [Position -> Nat]
  BY <1>5, CountedFinite DEF Tallied
<1>7. /\ \A x \in Position : x # p => (x \in T <=> x # q /\ x \in S)
      /\ p \in S <=> v = left_token
      /\ q \in S <=> v = right_token
      /\ p \in T <=> v = merged_token
  BY <1>1, <1>2, <1>3, <1>4, <1>5 DEF Spliced, Tallied
<1>8. p # q /\ q \in Position /\ Frequencies[p] = Frequencies[q]
  BY <1>3, <1>5
<1> HIDE DEF S, T, q
<1>9. Weight(T, Frequencies) = Weight(S, Frequencies) - (IF p \in S THEN f ELSE 0)
                                   - (IF q \in S THEN f ELSE 0) + (IF p \in T THEN f ELSE 0)
  BY <1>5, <1>6, <1>7, <1>8, WeightSpliced
<1>10. Weight(T, Frequencies) = Weight(S, Frequencies) - Share(v, left_token, f)
                                   - Share(v, right_token, f) + Share(v, merged_token, f)
  BY <1>7, <1>9 DEF Share
<1>11. QED
  BY <1>5, <1>10 DEF S, T

LEMMA CountMergedNext ==
    ASSUME IInv, InRound, NEW f \in Nat, NEW v \in DOMAIN token_count
    PROVE  /\ CountMerged(f)[v] = token_count[v] - Share(v, left_token, f)
                                   - Share(v, right_token, f) + Share(v, merged_token, f)
           /\ DOMAIN CountMerged(f) = DOMAIN token_count
           /\ token_count[v] \in Int
<1>1. /\ token_count \in Seq(Int) /\ Len(token_count) = Len(vocabulary)
      /\ left_token \in 1..(Len(vocabulary) - 1) /\ right_token \in 1..(Len(vocabulary) - 1)
  BY DEF IInv, TypeOK, TokensKnown, PairsKnown
<1>2. Len(vocabulary) \in Nat /\ merged_token = Len(vocabulary)
  BY InvFacts DEF merged_token
<1>3. /\ left_token # merged_token /\ right_token # merged_token
  BY <1>1, <1>2
<1>4. DOMAIN CountMerged(f) = DOMAIN token_count
  BY DEF CountMerged
<1>5. token_count[v] \in Int
  BY <1>1
<1>6. QED
  BY <1>1, <1>3, <1>4, <1>5, CountMergedAt

LEMMA MergePositionTokens == IInv /\ TInv /\ MergePosition => TInv'
<1> SUFFICES ASSUME IInv, TInv, MergePosition PROVE TInv'
  OBVIOUS
<1>p. PICK p : p = Head(positions)
  OBVIOUS
<1>n. PICK n : n = Neighbours(p)
  OBVIOUS
<1>f. PICK f : f = Frequency(p)
  OBVIOUS
<1>1. /\ splits' = splits /\ phase = "sequential" /\ positions # << >>
      /\ Unmerged(p) /\ Splice(n, merged_token) /\ token_count' = CountMerged(f)
      /\ total_frequency' = total_frequency
  BY <1>p, <1>n, <1>f DEF MergePosition, Unmerged
<1>2. InRound /\ phase' # "build" /\ p \in Position
  <2>1. positions \in Seq(Position)
    BY DEF IInv, TypeOK
  <2>2. phase' \in {"sequential", "aborted"}
    BY <1>1 DEF MergePosition, Rewire
  <2>3. QED
    BY <1>1, <1>p, <2>1, <2>2, TailFacts DEF InRound
<1>3. total_frequency = 0 /\ total_frequency' = 0
  BY <1>1 DEF TInv
<1>4. ASSUME NEW v \in DOMAIN token_count'
      PROVE  TokenCounted(v)'
  <2>1. /\ f \in Nat /\ Position' = Position /\ Frequencies' = Frequencies
        /\ Weight(Tallied(v)', Frequencies')
             = Weight(Tallied(v), Frequencies) - Share(v, left_token, f) - Share(v, right_token, f)
                                               + Share(v, merged_token, f)
    BY <1>1, <1>2, <1>n, <1>f, TokensSpliced
  <2>2. v \in DOMAIN token_count
    BY <1>1, <1>4 DEF CountMerged
  <2>3. /\ token_count'[v] = token_count[v] - Share(v, left_token, f) - Share(v, right_token, f)
                                           + Share(v, merged_token, f)
        /\ token_count[v] \in Int
    BY <1>1, <1>2, <2>1, <2>2, CountMergedNext
  <2>4. TokenCounted(v) /\ Owed(v) = 0 /\ Owed(v)' = 0 /\ Weight(Tallied(v), Frequencies) \in Nat
    BY <1>3, <2>2, NothingOwed, NothingOwedNext, CountedFinite DEF TInv
  <2>5. token_count[v] = Weight(Tallied(v), Frequencies)
    BY <2>4 DEF TokenCounted
  <2>6. token_count'[v] = Weight(Tallied(v)', Frequencies') /\ token_count'[v] \in Int
    BY <2>1, <2>3, <2>5 DEF Share
  <2>7. QED
    BY <2>4, <2>6 DEF TokenCounted
<1>5. QED
  BY <1>3, <1>4 DEF TInv

\* The merge is not counted yet, and it is owed from now on.
LEMMA ApplyTokens == ASSUME IInv, TInv, NEW t \in Team, Apply(t) PROVE TInv'
<1>n. PICK n : n = held[t]
  OBVIOUS
<1>p. PICK p : p = n.position
  OBVIOUS
<1>f. PICK f : f = Frequency(p)
  OBVIOUS
<1>1. /\ splits' = splits /\ phase = "surgery" /\ phase' = "surgery" /\ held[t] # no_position
      /\ Splice(n, merged_token) /\ UNCHANGED <<vocabulary, book, best, token_count>>
      /\ total_frequency' = total_frequency + f
  BY <1>n, <1>p, <1>f DEF Apply
<1>2. InRound /\ t \in Threads
  BY <1>1, ThreadAssumption DEF InRound
<1>3. p \in Position /\ Unmerged(p) /\ n = Neighbours(p)
  <2>1. n \in Optional(Occurrence)
    BY <1>2, <1>n DEF IInv, TypeOK
  <2>2. p \in Position
    BY <1>1, <1>n, <1>p, <2>1 DEF Optional, Occurrence
  <2>3. QED
    BY <1>1, <1>2, <1>n, <1>p, <2>2 DEF IInv, HeldFresh, Unmerged
<1>4. left_token' = left_token /\ right_token' = right_token /\ merged_token' = merged_token
  BY <1>1, SameTokens
<1>5. total_frequency \in Nat
  BY DEF IInv, TypeOK
<1>6. ASSUME NEW v \in DOMAIN token_count'
      PROVE  TokenCounted(v)'
  <2>1. /\ f \in Nat /\ Position' = Position /\ Frequencies' = Frequencies
        /\ Weight(Tallied(v)', Frequencies')
             = Weight(Tallied(v), Frequencies) - Share(v, left_token, f) - Share(v, right_token, f)
                                               + Share(v, merged_token, f)
    BY <1>1, <1>2, <1>3, <1>f, TokensSpliced
  <2>2. TokenCounted(v) /\ Weight(Tallied(v), Frequencies) \in Nat
    BY <1>1, <1>6, CountedFinite DEF TInv
  <2>3. Owed(v)' = Owed(v) + Share(v, left_token, f) + Share(v, right_token, f)
                           - Share(v, merged_token, f)
    BY <1>1, <1>4, <1>5, <2>1 DEF Owed, Share
  <2>4. Owed(v) \in Int
    BY <1>5 DEF Owed, Share
  <2>5. Weight(Tallied(v)', Frequencies') + Owed(v)' = Weight(Tallied(v), Frequencies) + Owed(v)
    BY <2>1, <2>2, <2>3, <2>4 DEF Share
  <2>6. QED
    BY <1>1, <2>2, <2>5 DEF TokenCounted
<1>7. QED
  BY <1>1, <1>6 DEF TInv

LEMMA JoinTokens == IInv /\ TInv /\ Join => TInv'
<1> SUFFICES ASSUME IInv, TInv, Join PROVE TInv'
  OBVIOUS
<1>1. /\ splits' = splits /\ UNCHANGED chain /\ phase = "surgery" /\ phase' = "replay"
      /\ token_count' = CountMerged(total_frequency) /\ total_frequency' = 0
  BY DEF Join
<1>2. Position' = Position /\ Frequencies' = Frequencies /\ alive' = alive /\ token' = token
  BY <1>1, SameInput DEF chain
<1>3. InRound /\ total_frequency \in Nat
  BY <1>1 DEF InRound, IInv, TypeOK
<1>4. ASSUME NEW v \in DOMAIN token_count'
      PROVE  TokenCounted(v)'
  <2>1. v \in DOMAIN token_count
    BY <1>1, <1>4 DEF CountMerged
  <2>2. /\ token_count'[v] = token_count[v] - Share(v, left_token, total_frequency)
              - Share(v, right_token, total_frequency) + Share(v, merged_token, total_frequency)
        /\ token_count[v] \in Int
    BY <1>1, <1>3, <2>1, CountMergedNext
  <2>3. TokenCounted(v) /\ Owed(v)' = 0 /\ Weight(Tallied(v), Frequencies) \in Nat
    BY <1>1, <2>1, NothingOwedNext, CountedFinite DEF TInv
  <2>4. Tallied(v)' = Tallied(v)
    BY <1>1, <1>2 DEF Tallied
  <2>5. token_count'[v] = token_count[v] - Owed(v) /\ Owed(v) \in Int
    BY <1>3, <2>2 DEF Owed, Share
  <2>6. token_count'[v] = Weight(Tallied(v), Frequencies)
    BY <2>2, <2>3, <2>5 DEF TokenCounted
  <2>7. QED
    BY <1>2, <2>3, <2>4, <2>6 DEF TokenCounted
<1>5. QED
  BY <1>1, <1>4 DEF TInv

LEMMA InitTokens == Init => TInv
<1> SUFFICES ASSUME Init PROVE TInv
  OBVIOUS
<1>1. /\ splits \in Corpora /\ phase = "build" /\ cursor = <<1, 1>> /\ total_frequency = 0
      /\ token_count = [v \in 1..byte_max |-> 0]
  BY DEF Init, InitInput
<1>2. \A p \in Position : ~Past(p)
  BY <1>1, PositionsTyped DEF Past
<1>3. ASSUME NEW v \in DOMAIN token_count PROVE TokenCounted(v)
  <2>1. Tallied(v) = {}
    BY <1>1, <1>2 DEF Tallied
  <2>2. Weight(Tallied(v), Frequencies) = 0
    BY <2>1, WeightEmpty
  <2>3. token_count[v] = 0
    BY <1>1, <1>3
  <2>4. QED
    BY <1>1, <2>2, <2>3, NothingOwed DEF TokenCounted
<1>4. QED
  BY <1>1, <1>3 DEF TInv

LEMMA NextTokens == IInv /\ ChainIntact /\ EInv /\ TInv /\ [Next]_vars => TInv'
<1> SUFFICES ASSUME IInv, ChainIntact, EInv, TInv, [Next]_vars PROVE TInv'
  OBVIOUS
<1>1. CASE BuildPosition
  BY <1>1, BuildPositionTokens
<1>2. CASE BuildNextWord
  <2>1. \A p \in Position : alive[p] => (Past(p)' <=> Past(p))
    BY <1>2, PastStays
  <2>2. /\ splits' = splits /\ UNCHANGED <<chain, token_count, total_frequency>>
        /\ phase = "build" /\ phase' = "build" /\ total_frequency = 0
    BY <1>2 DEF BuildNextWord, TInv
  <2>3. QED
    BY <2>1, <2>2, TokensQuiet
<1>3. CASE StartMerging
  <2>1. \A p \in Position : Past(p)
    BY <1>3, PastAll
  <2>2. /\ splits' = splits /\ UNCHANGED <<chain, token_count, total_frequency>>
        /\ phase = "build" /\ phase' = "pop" /\ total_frequency = 0
    BY <1>3 DEF StartMerging, TInv
  <2>3. QED
    BY <2>1, <2>2, TokensQuiet
<1>4. CASE PopIneligible \/ PopOutdated \/ PopBest \/ Finish \/ WalkList
  BY <1>4, TokensStay DEF PopIneligible, PopOutdated, PopBest, Finish, WalkList
<1>5. CASE StartRound
  BY <1>5, StartRoundTokens
<1>6. CASE SkipPosition
  BY <1>6, TokensStay DEF SkipPosition
<1>7. CASE MergePosition
  BY <1>7, MergePositionTokens
<1>8. CASE Join
  BY <1>8, JoinTokens
<1>9. CASE ReplayEvent
  <2>1. /\ splits' = splits /\ UNCHANGED <<chain, token_count, total_frequency>>
        /\ phase = "replay" /\ phase' \in {"replay", "aborted"}
    BY <1>9 DEF ReplayEvent, Rewire
  <2>2. QED
    BY <2>1, TokensStay
<1>10. CASE EndRound
  BY <1>10, TokensStay DEF EndRound, RoundProcessed
<1>11. CASE \E t \in Team : ThreadStep(t)
  <2>1. PICK t \in Team : TakeWord(t) \/ Resolve(t) \/ Apply(t)
    BY <1>11 DEF ThreadStep
  <2>2. CASE TakeWord(t)
    BY <2>2, TokensStay DEF TakeWord
  <2>3. CASE Resolve(t)
    BY <2>3, TokensStay DEF Resolve
  <2>4. CASE Apply(t)
    BY <2>4, ApplyTokens
  <2>5. QED
    BY <2>1, <2>2, <2>3, <2>4
<1>12. CASE Terminated \/ UNCHANGED vars
  <2>1. /\ splits' = splits /\ UNCHANGED <<chain, token_count, total_frequency, vocabulary, book,
                                           best, cursor, phase>>
    BY <1>12 DEF Terminated, vars
  <2>2. \A p \in Position : Past(p)' <=> Past(p)
    BY <2>1 DEF Past
  <2>3. left_token' = left_token /\ right_token' = right_token /\ merged_token' = merged_token
    BY <2>1, SameTokens
  <2>4. QED
    BY <2>1, <2>2, <2>3, TokensQuiet DEF TInv
<1>13. QED
  BY <1>1, <1>2, <1>3, <1>4, <1>5, <1>6, <1>7, <1>8, <1>9, <1>10, <1>11, <1>12 DEF Next, MainStep

LEMMA TokensAddUp == IInv /\ TInv => TokenCountsExact
<1> SUFFICES ASSUME IInv, TInv, Quiescent, NEW v \in DOMAIN token_count
             PROVE  token_count[v] = Cardinality(Occurrences({p \in Position : alive[p] /\ token[p] = v}))
  BY DEF TokenCountsExact
<1>1. phase # "build" /\ total_frequency = 0
  BY DEF Quiescent, TInv
<1>2. Tallied(v) = {p \in Position : alive[p] /\ token[p] = v}
  BY <1>1 DEF Tallied
<1>3. TokenCounted(v) /\ Owed(v) = 0 /\ Weight(Tallied(v), Frequencies) \in Nat
  BY <1>1, NothingOwed, CountedFinite DEF TInv
<1>4. token_count[v] = Weight(Tallied(v), Frequencies)
  BY <1>3 DEF TokenCounted
<1>5. QED
  BY <1>2, <1>4, OccurrencesWeigh

\* The token counts that a round adjusts by one total for all threads are those of
\* the text, for every corpus and every team of threads.
THEOREM TokensNeverDrift == Spec => []TokenCountsExact
<1>1. Spec => []TInv
  BY InitTokens, NextTokens, Inductive, ChainStaysIntact, BookKeepsUp, PTL DEF Spec
<1>2. QED
  BY <1>1, TokensAddUp, Inductive, PTL

-----------------------------------------------------------------------------
(* The lists.                                                              *)

\* f has the first n members of the list that starts at head.
IsWalk(f, head, nx, n) ==
    f = [i \in 1..n |-> IF i = 1 THEN head
                        ELSE IF f[i - 1] = no_position THEN no_position ELSE nx[f[i - 1]]]

LEMMA WalksAgree ==
    ASSUME NEW h, NEW nx, NEW n \in Nat, NEW f, IsWalk(f, h, nx, n), NEW g, IsWalk(g, h, nx, n)
    PROVE  f = g
<1>1. /\ DOMAIN f = 1..n /\ f = [i \in 1..n |-> f[i]]
      /\ DOMAIN g = 1..n /\ g = [i \in 1..n |-> g[i]]
  BY DEF IsWalk
<1>2. ASSUME NEW i \in 1..n
      PROVE  /\ f[i] = IF i = 1 THEN h ELSE IF f[i - 1] = no_position THEN no_position ELSE nx[f[i - 1]]
             /\ g[i] = IF i = 1 THEN h ELSE IF g[i - 1] = no_position THEN no_position ELSE nx[g[i - 1]]
  BY DEF IsWalk
<1> DEFINE T == {i \in 1..n : f[i] # g[i]}
<1>3. T = {}
  <2> SUFFICES ASSUME T # {} PROVE FALSE
    OBVIOUS
  <2>1. T \in SUBSET Nat
    OBVIOUS
  <2> HIDE DEF T
  <2>2. PICK i \in T : \A j \in T : i <= j
    BY <2>1, Least
  <2>3. i \in 1..n /\ f[i] # g[i]
    BY DEF T
  <2>4. i # 1
    BY <1>2, <2>3
  <2>5. i - 1 \in 1..n /\ ~(i <= i - 1)
    BY <2>3, <2>4
  <2>6. f[i - 1] = g[i - 1]
    BY <2>2, <2>5 DEF T
  <2>7. QED
    BY <1>2, <2>3, <2>4, <2>6
<1>4. \A i \in 1..n : f[i] = g[i]
  BY <1>3
<1>5. QED
  BY <1>1, <1>4

LEMMA WalkIs ==
    ASSUME NEW h, NEW n \in Nat, NEW g, IsWalk(g, h, book.pos_next, n)
    PROVE  Walk(h, n) = g
<1>1. Walk(h, n) = CHOOSE f : IsWalk(f, h, book.pos_next, n)
  BY DEF Walk, IsWalk
<1>2. IsWalk(Walk(h, n), h, book.pos_next, n)
  BY <1>1
<1>3. QED
  BY <1>2, WalksAgree

\* The members of E before p, and their number.
Below(E, rank, p) == {q \in E : rank[q] < rank[p]}

Index(E, rank, p) == Cardinality(Below(E, rank, p)) + 1

\* E is the members of a list.
List(E, rank, nx, pv) ==
    /\ IsFiniteSet(E) /\ Linked(E, rank, nx, pv) /\ no_position \notin E
    /\ \A p \in E : rank[p] \in Nat

LEMMA IndexFacts ==
    ASSUME NEW E, NEW rank, NEW nx, NEW pv, List(E, rank, nx, pv)
    PROVE  /\ Cardinality(E) \in Nat
           /\ \A p \in E : Index(E, rank, p) \in 1..Cardinality(E)
           /\ \A p, q \in E : rank[p] < rank[q] => Index(E, rank, p) < Index(E, rank, q)
           /\ \A p, q \in E : Index(E, rank, p) = Index(E, rank, q) => p = q
           /\ \A p, q \in E : Index(E, rank, p) < Index(E, rank, q) => rank[p] < rank[q]
           /\ \A p : FirstOf(E, rank, p) => Index(E, rank, p) = 1
           /\ \A p : LastOf(E, rank, p) => Index(E, rank, p) = Cardinality(E)
           /\ \A p, q : Adjacent(E, rank, p, q) => Index(E, rank, q) = Index(E, rank, p) + 1
<1>1. /\ IsFiniteSet(E) /\ \A p \in E : rank[p] \in Nat
      /\ \A p, q \in E : rank[p] = rank[q] => p = q
  BY DEF List, Linked
<1>2. ASSUME NEW p
      PROVE  /\ Below(E, rank, p) \in SUBSET E /\ IsFiniteSet(Below(E, rank, p))
             /\ Cardinality(Below(E, rank, p)) \in Nat /\ Index(E, rank, p) \in Nat
             /\ Cardinality(Below(E, rank, p)) = Index(E, rank, p) - 1
  <2>1. Below(E, rank, p) \in SUBSET E
    BY DEF Below
  <2>2. IsFiniteSet(Below(E, rank, p)) /\ Cardinality(Below(E, rank, p)) \in Nat
    BY <1>1, <2>1, FS_Subset, FS_CardinalityType
  <2>3. QED
    BY <2>1, <2>2 DEF Index
<1>3. Cardinality(E) \in Nat
  BY <1>1, FS_CardinalityType
<1>4. ASSUME NEW p \in E PROVE Index(E, rank, p) \in 1..Cardinality(E)
  <2>1. p \notin Below(E, rank, p)
    BY <1>1 DEF Below
  <2>2. Cardinality(Below(E, rank, p)) < Cardinality(E)
    <3> DEFINE B == Below(E, rank, p)
    <3>1. B # E /\ B \in SUBSET E /\ IsFiniteSet(E)
      BY <1>1, <1>2, <2>1
    <3> HIDE DEF B
    <3>2. Cardinality(B) <= Cardinality(E) /\ Cardinality(B) # Cardinality(E)
      BY <3>1, FS_Subset
    <3>3. QED
      BY <1>2, <1>3, <3>2 DEF B
  <2>3. QED
    BY <1>2, <1>3, <2>2
<1>5. ASSUME NEW p \in E, NEW q \in E, rank[p] < rank[q]
      PROVE  Index(E, rank, p) < Index(E, rank, q)
  <2>1. Below(E, rank, p) \subseteq Below(E, rank, q) /\ p \in Below(E, rank, q)
        /\ p \notin Below(E, rank, p)
    BY <1>1, <1>5 DEF Below
  <2>2. Cardinality(Below(E, rank, p)) < Cardinality(Below(E, rank, q))
    <3>1. Below(E, rank, p) \in SUBSET Below(E, rank, q) /\ Below(E, rank, p) # Below(E, rank, q)
      BY <2>1
    <3>2. QED
      BY <1>2, <3>1, FS_Subset
  <2>3. QED
    BY <1>2, <2>2
<1>6. ASSUME NEW p \in E, NEW q \in E PROVE rank[p] < rank[q] \/ rank[q] < rank[p] \/ p = q
  BY <1>1
<1>7. /\ \A p, q \in E : Index(E, rank, p) = Index(E, rank, q) => p = q
      /\ \A p, q \in E : Index(E, rank, p) < Index(E, rank, q) => rank[p] < rank[q]
  BY <1>2, <1>5, <1>6
<1>8. ASSUME NEW p, FirstOf(E, rank, p) PROVE Index(E, rank, p) = 1
  <2>1. Below(E, rank, p) = {}
    BY <1>1, <1>8 DEF Below, FirstOf
  <2>2. QED
    BY <2>1, FS_EmptySet DEF Index
<1>9. ASSUME NEW p, LastOf(E, rank, p) PROVE Index(E, rank, p) = Cardinality(E)
  <2>1. p \in E /\ Below(E, rank, p) = E \ {p}
    BY <1>1, <1>9 DEF Below, LastOf
  <2>2. Cardinality(E \ {p}) = Cardinality(E) - 1
    BY <1>1, <2>1, FS_RemoveElement
  <2>3. QED
    BY <1>3, <2>1, <2>2 DEF Index
<1>10. ASSUME NEW p, NEW q, Adjacent(E, rank, p, q)
       PROVE  Index(E, rank, q) = Index(E, rank, p) + 1
  <2>1. /\ p \in E /\ q \in E /\ rank[p] < rank[q]
        /\ \A r \in E : rank[r] <= rank[p] \/ rank[q] <= rank[r]
    BY <1>10 DEF Adjacent
  <2>2. Below(E, rank, q) = Below(E, rank, p) \cup {p} /\ p \notin Below(E, rank, p)
    BY <1>1, <2>1 DEF Below
  <2>3. Cardinality(Below(E, rank, p) \cup {p}) = Cardinality(Below(E, rank, p)) + 1
    BY <1>2, <2>2, FS_AddElement
  <2>4. Cardinality(Below(E, rank, q)) = Cardinality(Below(E, rank, p)) + 1
    BY <2>2, <2>3
  <2>5. QED
    BY <1>2, <2>4
<1>11. QED
  BY <1>3, <1>4, <1>5, <1>7, <1>8, <1>9, <1>10

\* There is a member at each index.
LEMMA IndexOnto ==
    ASSUME NEW E, NEW rank, NEW nx, NEW pv, List(E, rank, nx, pv), NEW head,
           E # {} => FirstOf(E, rank, head), NEW i \in 1..Cardinality(E)
    PROVE  \E p \in E : Index(E, rank, p) = i
<1> DEFINE T == {k \in 1..Cardinality(E) : \A p \in E : Index(E, rank, p) # k}
<1> SUFFICES ASSUME T # {} PROVE FALSE
  OBVIOUS
<1>1. Cardinality(E) \in Nat
  BY IndexFacts
<1>2. T \in SUBSET Nat
  BY <1>1
<1> HIDE DEF T
<1>3. PICK k \in T : \A j \in T : k <= j
  BY <1>2, Least
<1>4. k \in 1..Cardinality(E) /\ \A p \in E : Index(E, rank, p) # k
  BY DEF T
<1>5. E # {}
  <2>1. Cardinality(E) # 0
    BY <1>1, <1>4
  <2>2. QED
    BY <2>1, FS_EmptySet
<1>6. k # 1
  <2>1. FirstOf(E, rank, head)
    BY <1>5
  <2>2. head \in E /\ Index(E, rank, head) = 1
    BY <2>1, IndexFacts DEF FirstOf
  <2>3. QED
    BY <1>4, <2>2
<1>7. k - 1 \in 1..Cardinality(E) /\ k - 1 # Cardinality(E) /\ ~(k <= k - 1) /\ k - 1 + 1 = k
  BY <1>1, <1>4, <1>6
<1>8. PICK p \in E : Index(E, rank, p) = k - 1
  BY <1>3, <1>7 DEF T
<1>9. ~LastOf(E, rank, p)
  BY <1>7, <1>8, IndexFacts
<1>10. Adjacent(E, rank, p, nx[p])
  BY <1>9 DEF List, Linked
<1>11. nx[p] \in E /\ Index(E, rank, nx[p]) = k
  BY <1>7, <1>8, <1>10, IndexFacts DEF Adjacent
<1>12. QED
  BY <1>4, <1>11

\* The members in order, and then no_position.
InIndexOrder(E, rank) ==
    [i \in 1..(Cardinality(E) + 1) |->
        IF i <= Cardinality(E) THEN CHOOSE p \in E : Index(E, rank, p) = i ELSE no_position]

LEMMA WalkMembers ==
    ASSUME NEW E, NEW rank, NEW nx, NEW pv, List(E, rank, nx, pv), NEW head,
           E # {} => FirstOf(E, rank, head), E = {} => head = no_position,
           NEW n, n = Cardinality(E), NEW g, g = InIndexOrder(E, rank)
    PROVE  /\ n \in Nat /\ IsWalk(g, head, nx, n + 1)
           /\ g[n + 1] = no_position
           /\ \A i \in 1..n : g[i] \in E /\ Index(E, rank, g[i]) = i
           /\ \A p \in E : Index(E, rank, p) \in 1..n /\ g[Index(E, rank, p)] = p
<1>1. n \in Nat
  BY IndexFacts
<1>2. \A i \in 1..n : g[i] \in E /\ Index(E, rank, g[i]) = i
  <2> TAKE i \in 1..n
  <2>1. i \in 1..(n + 1) /\ i <= n
    BY <1>1
  <2>2. g[i] = CHOOSE p \in E : Index(E, rank, p) = i
    BY <2>1 DEF InIndexOrder
  <2>3. \E p \in E : Index(E, rank, p) = i
    BY IndexOnto
  <2>4. QED
    BY <2>2, <2>3
<1>3. n + 1 \in 1..(n + 1) /\ ~(n + 1 <= n)
  BY <1>1
<1>4. g[n + 1] = no_position
  BY <1>3 DEF InIndexOrder
<1>5. \A p \in E : Index(E, rank, p) \in 1..n /\ g[Index(E, rank, p)] = p
  BY <1>2, IndexFacts
<1>6. ASSUME NEW i \in 1..(n + 1)
      PROVE  g[i] = IF i = 1 THEN head
                    ELSE IF g[i - 1] = no_position THEN no_position ELSE nx[g[i - 1]]
  <2>1. CASE i = 1
    <3>1. CASE n = 0
      <4>1. E = {}
        BY <3>1, FS_EmptySet DEF List
      <4>2. QED
        BY <1>4, <2>1, <3>1, <4>1
    <3>2. CASE n # 0
      <4>1. E # {}
        BY <3>2, FS_EmptySet
      <4>2. head \in E /\ Index(E, rank, head) = 1
        BY <4>1, IndexFacts DEF FirstOf
      <4>3. QED
        BY <1>5, <2>1, <4>2
    <3>3. QED
      BY <3>1, <3>2
  <2>2. CASE i # 1
    <3>1. i - 1 \in 1..n /\ i - 1 + 1 = i
      BY <1>1, <2>2
    <3> DEFINE p == g[i - 1]
    <3>2. p \in E /\ Index(E, rank, p) = i - 1 /\ p # no_position
      BY <1>2, <3>1 DEF List
    <3> HIDE DEF p
    <3>3. CASE nx[p] = no_position
      <4>1. Index(E, rank, p) = n
        BY <3>2, <3>3, IndexFacts DEF List, Linked
      <4>2. i = n + 1
        BY <3>1, <3>2, <4>1
      <4>3. QED
        BY <1>4, <2>2, <3>2, <3>3, <4>2 DEF p
    <3>4. CASE nx[p] # no_position
      <4>1. Adjacent(E, rank, p, nx[p])
        BY <3>2, <3>4 DEF List, Linked
      <4>2. nx[p] \in E /\ Index(E, rank, nx[p]) = i
        BY <3>1, <3>2, <4>1, IndexFacts DEF Adjacent
      <4>3. g[i] = nx[p]
        BY <1>5, <4>2
      <4>4. QED
        BY <2>2, <3>2, <4>3 DEF p
    <3>5. QED
      BY <3>3, <3>4
  <2>3. QED
    BY <2>1, <2>2
<1>7. IsWalk(g, head, nx, n + 1)
  <2>1. g = [i \in 1..(n + 1) |-> g[i]]
    BY DEF InIndexOrder
  <2>2. QED
    BY <1>6, <2>1 DEF IsWalk
<1>8. QED
  BY <1>1, <1>2, <1>4, <1>5, <1>7

\* The n edges as a list, in order and linked back, as pair names its ends.
IsListOf(list, edges, n, pair) ==
    /\ {list[i] : i \in 1..n} = edges
    /\ list[n + 1] = no_position
    /\ pair.positions_tail = IF n = 0 THEN no_position ELSE list[n]
    /\ \A i \in 1..n : book.pos_prev[list[i]] = IF i = 1 THEN no_position ELSE list[i - 1]
    /\ \A i, j \in 1..n : i < j /\ list[i][1] = list[j][1] =>
          \A k \in i..j : list[k][1] = list[i][1] /\ list[i][2] < list[j][2]

\* A pair's list, when its ends are at hand.
LEMMA ListFound ==
    ASSUME NEW E, NEW rank, List(E, rank, book.pos_next, book.pos_prev),
           E \subseteq Nat \X Nat, NEW pair, Sorted(E, rank, pair.last_word),
           EndsAt(E, rank, pair), EndsEmpty(E, pair),
           NEW n, n = Cardinality(E), NEW list, list = Walk(pair.positions_head, n + 1)
    PROVE  IsListOf(list, E, n, pair)
<1> DEFINE head == pair.positions_head
           tail == pair.positions_tail
           pv == book.pos_prev
           g == InIndexOrder(E, rank)
<1>1. /\ E # {} => FirstOf(E, rank, head) /\ LastOf(E, rank, tail)
      /\ E = {} => head = no_position /\ tail = no_position
  BY DEF EndsAt, EndsEmpty
<1> HIDE DEF head, tail, g
<1>2. /\ n \in Nat /\ IsWalk(g, head, book.pos_next, n + 1)
      /\ g[n + 1] = no_position
      /\ \A i \in 1..n : g[i] \in E /\ Index(E, rank, g[i]) = i
      /\ \A p \in E : Index(E, rank, p) \in 1..n /\ g[Index(E, rank, p)] = p
  BY <1>1, WalkMembers DEF g
<1>3. list = g
  <2>1. n + 1 \in Nat
    BY <1>2
  <2>2. list = Walk(head, n + 1)
    BY DEF head
  <2>3. QED
    BY <1>2, <2>1, <2>2, WalkIs
<1>4. {g[i] : i \in 1..n} = E
  BY <1>2
<1>5. tail = IF n = 0 THEN no_position ELSE g[n]
  <2>1. CASE E = {}
    BY <1>1, <2>1, FS_EmptySet
  <2>2. CASE E # {}
    <3>1. tail \in E /\ Index(E, rank, tail) = n
      BY <1>1, <2>2, IndexFacts DEF LastOf
    <3>2. n \in 1..n /\ g[n] = tail
      BY <1>2, <3>1
    <3>3. QED
      BY <1>2, <3>2
  <2>3. QED
    BY <2>1, <2>2
<1>6. ASSUME NEW i \in 1..n
      PROVE  pv[g[i]] = IF i = 1 THEN no_position ELSE g[i - 1]
  <2> DEFINE p == g[i]
  <2>1. p \in E /\ Index(E, rank, p) = i
    BY <1>2
  <2> HIDE DEF p
  <2>2. IF pv[p] = no_position THEN FirstOf(E, rank, p) ELSE Adjacent(E, rank, pv[p], p)
    BY <2>1 DEF List, Linked
  <2>3. CASE pv[p] = no_position
    <3>1. i = 1
      BY <2>1, <2>2, <2>3, IndexFacts
    <3>2. QED
      BY <2>3, <3>1 DEF p
  <2>4. CASE pv[p] # no_position
    <3>1. Adjacent(E, rank, pv[p], p) /\ pv[p] \in E
      BY <2>2, <2>4 DEF Adjacent
    <3>2. Index(E, rank, pv[p]) \in 1..n /\ g[Index(E, rank, pv[p])] = pv[p]
      BY <1>2, <3>1
    <3>3. i = Index(E, rank, pv[p]) + 1
      BY <2>1, <3>1, IndexFacts
    <3>4. i # 1 /\ i - 1 = Index(E, rank, pv[p])
      BY <3>2, <3>3
    <3>5. QED
      BY <3>2, <3>4 DEF p
  <2>5. QED
    BY <2>3, <2>4
<1>7. ASSUME NEW i \in 1..n, NEW j \in 1..n, i < j, g[i][1] = g[j][1], NEW k \in i..j
      PROVE  g[k][1] = g[i][1] /\ g[i][2] < g[j][2]
  <2>1. k \in 1..n /\ i \in Nat /\ j \in Nat /\ k \in Nat /\ i <= k /\ k <= j
    BY <1>2
  <2> DEFINE p == g[i]
             q == g[j]
             x == g[k]
  <2>2. /\ p \in E /\ Index(E, rank, p) = i /\ q \in E /\ Index(E, rank, q) = j
        /\ x \in E /\ Index(E, rank, x) = k
    BY <1>2, <2>1
  <2>3. p[1] = q[1]
    BY <1>7
  <2> HIDE DEF p, q, x
  <2>4. rank[p] < rank[q] /\ ~(rank[q] < rank[p]) /\ p # q
    <3>1. rank[p] < rank[q]
      BY <1>7, <2>2, IndexFacts
    <3>2. rank[p] \in Nat /\ rank[q] \in Nat
      BY <2>2 DEF List
    <3>3. QED
      BY <3>1, <3>2
  <2>5. p[2] < q[2]
    <3>1. /\ p = <<p[1], p[2]>> /\ q = <<q[1], q[2]>> /\ p[2] \in Nat /\ q[2] \in Nat
      BY <2>2
    <3>2. ~(q[2] < p[2])
      BY <2>2, <2>3, <2>4 DEF Sorted
    <3>3. QED
      BY <2>3, <2>4, <3>1, <3>2
  <2>6. x[1] = p[1]
    <3>1. CASE k = i \/ k = j
      BY <2>3, <3>1 DEF p, q, x
    <3>2. CASE k # i /\ k # j
      <4>1. i < k /\ k < j
        BY <2>1, <3>2
      <4>2. rank[p] < rank[x] /\ rank[x] < rank[q]
        BY <2>2, <4>1, IndexFacts
      <4>3. QED
        BY <2>2, <2>3, <4>2 DEF Sorted
    <3>3. QED
      BY <3>1, <3>2
  <2>7. QED
    BY <2>5, <2>6 DEF p, q, x
<1>8. QED
  BY <1>2, <1>3, <1>4, <1>5, <1>6, <1>7 DEF IsListOf, head, tail, pv

LEMMA ListsKept == Team = Threads /\ IInv /\ EInv => ListsExact
<1> SUFFICES ASSUME Team = Threads, IInv, EInv, Quiescent, NEW s \in DOMAIN book.pairs
             PROVE  LET edges == Edges(book.pairs[s].key)
                        n     == Cardinality(edges)
                        list  == Walk(book.pairs[s].positions_head, n + 1)
                    IN  IsListOf(list, edges, n, book.pairs[s])
  BY DEF ListsExact, IsListOf
<1>e. PICK edges : edges = Edges(book.pairs[s].key)
  OBVIOUS
<1>n. PICK n : n = Cardinality(edges)
  OBVIOUS
<1>l. PICK list : list = Walk(book.pairs[s].positions_head, n + 1)
  OBVIOUS
<1>1. EdgesOf(book, s) = edges /\ best = no_position
  BY <1>e, QuietFacts
<1>2. /\ Sound(book, Position, Frequencies, Listed) /\ Slots(Position)
      /\ Position \subseteq Nat \X Nat /\ no_position \notin Position
      /\ EdgesOf(book, s) \in SUBSET Position /\ s # no_position
  BY ExactFacts
<1>3. s \in Listed
  BY <1>1, <1>2 DEF Listed
<1>4. PICK rank \in [Position -> Nat] : ListsSound(book, Listed, rank)
  BY <1>2 DEF Sound, Ordered
<1>5. /\ Linked(edges, rank, book.pos_next, book.pos_prev)
      /\ Sorted(edges, rank, book.pairs[s].last_word)
      /\ EndsEmpty(edges, book.pairs[s]) /\ EndsAt(edges, rank, book.pairs[s])
  BY <1>1, <1>3, <1>4 DEF ListsSound
<1>6. edges \in SUBSET Position /\ IsFiniteSet(edges)
  BY <1>1, <1>2, FS_Subset DEF Slots
<1>7. List(edges, rank, book.pos_next, book.pos_prev) /\ edges \subseteq Nat \X Nat
  BY <1>2, <1>5, <1>6 DEF List
<1> DEFINE pair == book.pairs[s]
<1>8. /\ Sorted(edges, rank, pair.last_word) /\ EndsAt(edges, rank, pair) /\ EndsEmpty(edges, pair)
      /\ list = Walk(pair.positions_head, n + 1)
  BY <1>5, <1>l
<1> HIDE DEF pair
<1>9. IsListOf(list, edges, n, pair)
  BY <1>7, <1>8, <1>n, ListFound
<1>10. QED
  BY <1>9, <1>e, <1>n, <1>l DEF pair

\* The list of every pair holds its occurrences and nothing else, word by word and
\* from left to right, linked both ways from its head to its tail.
THEOREM ListsNeverLose == Team = Threads /\ Spec => []ListsExact
<1>1. CASE Team = Threads
  <2>1. IInv /\ EInv => ListsExact
    BY <1>1, ListsKept
  <2>2. Spec => []ListsExact
    BY <2>1, Inductive, BookKeepsUp, PTL
  <2>3. QED
    BY <2>2
<1>2. CASE Team # Threads
  BY <1>2
<1>3. QED
  BY <1>1, <1>2

-----------------------------------------------------------------------------
(* The free groups.                                                        *)

LEMMA RemoveEdgesFree ==
    ASSUME splits \in Corpora, NEW b, BookOK(b, Position), FreeListed(b), NEW V, KeysIn(b, V),
           NEW ev, Workable(b, ev, V)
    PROVE  FreeListed(RemoveEdges(b, ev))
<1> DEFINE f  == Frequency(ev.position)
           b1 == IF ev.left = no_position THEN b ELSE remove_edge(b, ev.left, f)
           b2 == remove_edge(b1, ev.position, f)
           b3 == remove_edge(b2, ev.right, f)
           z  == [b2 EXCEPT !.edge_group[ev.right] = no_position]
           c  == RemoveEdges(b, ev)
<1>1. /\ f \in Nat /\ ev.position \in Position /\ ev.right \in Position
      /\ ev.left # no_position => ev.left \in Position
      /\ IsFiniteSet(Position)
  BY PositionsTyped, PositionsFinite DEF Workable, Optional
<1>2. c = IF ev.after = no_position THEN z ELSE b3
  BY DEF RemoveEdges
<1> HIDE DEF f, c
<1>3. /\ BookOK(b1, Position) /\ KeysIn(b1, V) /\ FreeListed(b1)
      /\ b1.edge_group[ev.right] \in {no_position, b.edge_group[ev.right]}
  <2>1. CASE ev.left = no_position
    BY <2>1
  <2>2. CASE ev.left # no_position
    BY <1>1, <2>2, RemoveKept, RemoveFree DEF Kept
  <2>3. QED
    BY <2>1, <2>2
<1> HIDE DEF b1
<1>4. /\ BookOK(b2, Position) /\ FreeListed(b2)
      /\ b2.edge_group[ev.right] \in {no_position, b.edge_group[ev.right]}
  BY <1>1, <1>3, RemoveKept, RemoveFree DEF Kept
<1> HIDE DEF b2
<1>5. FreeListed(b3)
  BY <1>1, <1>4, RemoveFree
<1>6. CASE ev.after = no_position
  <2>1. b2.edge_group[ev.right] = no_position
    BY <1>4, <1>6 DEF Workable
  <2>2. b2.edge_group \in [Position -> Nat \cup {no_position}]
    BY <1>4 DEF BookOK, BookTypeOK
  <2>3. [b2.edge_group EXCEPT ![ev.right] = no_position] = b2.edge_group
    BY <1>1, <2>1, <2>2
  <2>4. z = b2
    BY <1>4, <2>3 DEF BookOK, BookTypeOK
  <2>5. QED
    BY <1>2, <1>4, <1>6, <2>4 DEF c
<1>7. CASE ev.after # no_position
  BY <1>2, <1>5, <1>7 DEF c
<1>8. QED
  BY <1>6, <1>7

LEMMA AddEdgesFree ==
    ASSUME splits \in Corpora, NEW b, BookOK(b, Position), FreeListed(b),
           NEW V \in SUBSET Nat, KeysIn(b, V), NEW ev, Workable(b, ev, V), NEW merged \in V,
           b.edge_group[ev.position] = no_position,
           ev.left # no_position => b.edge_group[ev.left] = no_position
    PROVE  FreeListed(AddEdges(b, ev, merged))
<1> DEFINE f  == Frequency(ev.position)
           w  == ev.position[1]
           l  == get_left_pair_state(b, ev.left_token, merged)
           a1 == add_edge(l.book, ev.left, l.state, w, f)
           b1 == IF ev.left = no_position THEN b ELSE a1
           r  == get_right_pair_state(b1, merged, ev.after_token)
           a2 == add_edge(r.book, ev.position, r.state, w, f)
           d  == AddEdges(b, ev, merged)
<1>1. /\ f \in Nat /\ w \in Nat /\ ev.position \in Position /\ IsFiniteSet(Position)
      /\ ev.left # no_position => ev.left \in Position /\ ev.left_token \in V /\ ev.left # ev.position
      /\ ev.after # no_position => ev.after_token \in V
  BY PositionsTyped, PositionsFinite DEF Workable, Optional
<1>2. d = IF ev.after = no_position THEN b1 ELSE a2
  BY DEF AddEdges
<1> HIDE DEF f, w, d
<1>3. /\ BookOK(b1, Position) /\ KeysIn(b1, V) /\ FreeListed(b1)
      /\ b1.edge_group[ev.position] = no_position
  <2>1. CASE ev.left = no_position
    BY <2>1
  <2>2. CASE ev.left # no_position
    <3>1. Gets(b, l, Position, V) /\ FreeListed(l.book)
      BY <1>1, <2>2, GetLeft, GetsFree
    <3> HIDE DEF l
    <3>2. /\ BookOK(l.book, Position) /\ l.state \in DOMAIN l.book.pairs
          /\ l.book.edge_group[ev.left] = no_position
      BY <2>2, <3>1 DEF Gets, Extends
    <3>3. FreeListed(a1)
      BY <1>1, <2>2, <3>1, <3>2, AddFree
    <3>4. /\ Kept(b, a1, V)
          /\ \A p \in Position \ {ev.left} : a1.edge_group[p] = b.edge_group[p]
      <4>1. ev.left \in Position /\ b.edge_group[ev.left] = no_position
        BY <1>1, <2>2
      <4>2. QED
        BY <1>1, <3>1, <4>1, AddKept
    <3> HIDE DEF a1
    <3>5. QED
      BY <1>1, <2>2, <3>3, <3>4 DEF Kept
  <2>3. QED
    BY <2>1, <2>2
<1> HIDE DEF b1
<1>4. CASE ev.after = no_position
  BY <1>2, <1>3, <1>4 DEF d
<1>5. CASE ev.after # no_position
  <2>1. Gets(b1, r, Position, V) /\ FreeListed(r.book)
    BY <1>1, <1>3, <1>5, GetRight, GetsFree
  <2> HIDE DEF r
  <2>2. /\ BookOK(r.book, Position) /\ r.state \in DOMAIN r.book.pairs
        /\ r.book.edge_group[ev.position] = no_position
    BY <1>3, <2>1 DEF Gets, Extends
  <2>3. FreeListed(a2)
    BY <1>1, <2>1, <2>2, AddFree
  <2>4. QED
    BY <1>2, <1>5, <2>3 DEF d
<1>6. QED
  BY <1>4, <1>5

LEMMA RewireFree ==
    ASSUME splits \in Corpora, BookOK(book, Position), FreeListed(book),
           NEW V \in SUBSET Nat, KeysIn(book, V),
           NEW ev, Workable(book, ev, V), merged_token \in V, Rewire(ev)
    PROVE  FreeListed(book')
<1> DEFINE c == RemoveEdges(book, ev)
           d == AddEdges(c, ev, merged_token)
<1>1. book' = IF c.aborted THEN c ELSE d
  BY DEF Rewire
<1>2. /\ Kept(book, c, V)
      /\ \A p \in Position : c.edge_group[p] \in {no_position, book.edge_group[p]}
      /\ ~c.aborted => /\ c.edge_group[ev.position] = no_position
                       /\ ev.left # no_position => c.edge_group[ev.left] = no_position
  BY RemoveEdgesKept
<1>3. FreeListed(c)
  BY RemoveEdgesFree
<1> HIDE DEF c
<1>4. ASSUME ~c.aborted PROVE FreeListed(d)
  <2>1. Workable(c, ev, V)
    BY <1>2 DEF Workable
  <2>2. QED
    BY <1>2, <1>3, <1>4, <2>1, AddEdgesFree DEF Kept
<1>5. QED
  BY <1>1, <1>3, <1>4

LEMMA MergePositionFree == IInv /\ EInv /\ FreeListed(book) /\ MergePosition => FreeListed(book')
<1> SUFFICES ASSUME IInv, EInv, FreeListed(book), MergePosition PROVE FreeListed(book')
  OBVIOUS
<1>p. PICK p : p = Head(positions)
  OBVIOUS
<1>n. PICK n : n = Neighbours(p)
  OBVIOUS
<1>e. PICK ev : ev = MergeEvent(n)
  OBVIOUS
<1>1. phase = "sequential" /\ positions # << >> /\ Unmerged(p) /\ Rewire(ev)
  BY <1>p, <1>n, <1>e DEF MergePosition, Unmerged
<1>2. p \in Position
  BY <1>1, <1>p DEF IInv, TypeOK
<1>3. Workable(book, ev, DOMAIN vocabulary)
  BY <1>1, <1>2, <1>n, <1>e, OccurrenceWorkable
<1>4. InRound
  BY <1>1 DEF InRound
<1>5. QED
  BY <1>1, <1>3, <1>4, RoundFacts, RewireFree

LEMMA ReplayEventFree == IInv /\ FreeListed(book) /\ ReplayEvent => FreeListed(book')
<1> SUFFICES ASSUME IInv, FreeListed(book), ReplayEvent PROVE FreeListed(book')
  OBVIOUS
<1>t. PICK t \in Threads : events[t] # << >> /\ Rewire(Head(events[t]))
  BY DEF ReplayEvent
<1>e. PICK ev : ev = Head(events[t])
  OBVIOUS
<1>1. phase = "replay" /\ Rewire(ev)
  BY <1>t, <1>e DEF ReplayEvent
<1>2. ev = events[t][1] /\ 1 \in DOMAIN events[t] /\ ev \in EventSet
  <2> DEFINE x == events[t]
  <2>1. x \in Seq(EventSet) /\ x # << >> /\ ev = Head(x)
    BY <1>t, <1>e DEF IInv, TypeOK
  <2> HIDE DEF x
  <2>2. ev = x[1] /\ 1 \in DOMAIN x /\ ev \in EventSet
    BY <2>1
  <2>3. QED
    BY <2>2 DEF x
<1>3. Workable(book, ev, DOMAIN vocabulary)
  BY <1>1, <1>2, EventWorkable DEF PendingEvents
<1>4. InRound
  BY <1>1 DEF InRound
<1>5. QED
  BY <1>1, <1>3, <1>4, RoundFacts, RewireFree

LEMMA BuildPositionFree == IInv /\ FreeListed(book) /\ BuildPosition => FreeListed(book')
<1> SUFFICES ASSUME IInv, FreeListed(book), BuildPosition PROVE FreeListed(book')
  OBVIOUS
<1> DEFINE key == <<token[cursor], token[next[cursor]]>>
           V == DOMAIN vocabulary
<1>1. /\ phase = "build" /\ cursor[1] \in DOMAIN splits
      /\ book' = IF is_live(next[cursor])
                 THEN build_edge(book, cursor, key, cursor[1], Frequency(cursor)) ELSE book
  BY DEF BuildPosition
<1>2. CASE ~is_live(next[cursor])
  BY <1>1, <1>2
<1>3. CASE is_live(next[cursor])
  <2>1. /\ splits \in Corpora /\ BookOK(book, Position) /\ IsFiniteSet(Position)
        /\ V \in SUBSET Nat /\ KeysIn(book, V)
    BY InvFacts, PositionsFinite DEF IInv, PairsKnown
  <2>2. cursor \in Position /\ alive[cursor]
    BY <1>1 DEF BuildPosition, IInv, BuildAhead
  <2>3. cursor[1] \in Nat /\ cursor[2] \in Nat /\ Frequency(cursor) \in Nat
    BY <2>1, <2>2, PositionsTyped
  <2>4. book.edge_group[cursor] = no_position
    BY <1>1, <2>2, <2>3 DEF IInv, BuildAhead
  <2>5. key \in V \X V
    <3>1. next[cursor] \in Position
      BY <1>3, <2>2 DEF is_live, IInv, TypeOK, Optional
    <3>2. QED
      BY <1>3, <2>2, <3>1 DEF is_live, IInv, TokensKnown
  <2> HIDE DEF key, V
  <2>6. FreeListed(build_edge(book, cursor, key, cursor[1], Frequency(cursor)))
    BY <2>1, <2>2, <2>3, <2>4, <2>5, BuildFree
  <2>7. QED
    BY <1>1, <1>3, <2>6
<1>4. QED
  BY <1>2, <1>3

\* The free list of the book, always.
BookFree == FreeListed(book)

\* Every other step leaves the groups alone.
LEMMA QuietFree ==
    ASSUME FreeListed(book), SameGroups(book, book') PROVE FreeListed(book')
BY SameFree

LEMMA NextFree == IInv /\ EInv /\ BookFree /\ [Next]_vars => BookFree'
<1> SUFFICES ASSUME IInv, EInv, FreeListed(book), [Next]_vars PROVE FreeListed(book')
  BY DEF BookFree
<1>1. BookTypeOK(book, Position)
  BY DEF IInv, TypeOK
<1>2. CASE BuildPosition \/ MergePosition \/ ReplayEvent
  BY <1>2, BuildPositionFree, MergePositionFree, ReplayEventFree
<1>3. CASE StartMerging \/ EndRound
  <2>1. book' = [book EXCEPT !.born = << >>]
    BY <1>3 DEF StartMerging, EndRound
  <2>2. SameGroups(book, book')
    BY <1>1, <2>1 DEF SameGroups, BookTypeOK
  <2>3. QED
    BY <2>2, QuietFree
<1>4. CASE PopBest
  <2>1. PICK s : book' = [book EXCEPT !.pairs[s] = WithoutList(@)]
    BY <1>4 DEF PopBest
  <2>2. SameGroups(book, book')
    BY <1>1, <2>1 DEF SameGroups, BookTypeOK
  <2>3. QED
    BY <2>2, QuietFree
<1>5. CASE UNCHANGED book
  BY <1>5
<1>6. CASE BuildNextWord \/ PopIneligible \/ PopOutdated \/ Finish \/ WalkList \/ StartRound
           \/ SkipPosition \/ Join
  BY <1>5, <1>6 DEF BuildNextWord, PopIneligible, PopOutdated, Finish, WalkList, StartRound,
                    SkipPosition, Join
<1>7. CASE \E t \in Team : ThreadStep(t)
  BY <1>5, <1>7 DEF ThreadStep, TakeWord, Resolve, Apply
<1>8. CASE Terminated \/ UNCHANGED vars
  BY <1>5, <1>8 DEF Terminated, vars
<1>9. QED
  BY <1>2, <1>3, <1>4, <1>6, <1>7, <1>8 DEF Next, MainStep

\* No group that is not in use is ever lost.
THEOREM NoGroupLeaks == Spec => []BookFree
<1>1. Init => BookFree
  BY EmptyFree DEF Init, InitInput, BookFree
<1>2. QED
  BY <1>1, NextFree, Inductive, BookKeepsUp, PTL DEF Spec

-----------------------------------------------------------------------------
(* The walk along the free list.                                           *)

\* f has the first L + 1 stations of that walk, the first of them head.
IsFreeWalk(f, head, nx, L) ==
    f = [i \in 0..L |-> IF i = 0 THEN head
                        ELSE IF f[i - 1] = no_position THEN no_position ELSE nx[f[i - 1]]]

LEMMA FreeWalksAgree ==
    ASSUME NEW h, NEW nx, NEW n \in Nat, NEW f, IsFreeWalk(f, h, nx, n), NEW g, IsFreeWalk(g, h, nx, n)
    PROVE  f = g
<1>1. f = [i \in 0..n |-> f[i]] /\ g = [i \in 0..n |-> g[i]]
  BY DEF IsFreeWalk
<1>2. \A i \in 0..n :
         /\ f[i] = IF i = 0 THEN h ELSE IF f[i - 1] = no_position THEN no_position ELSE nx[f[i - 1]]
         /\ g[i] = IF i = 0 THEN h ELSE IF g[i - 1] = no_position THEN no_position ELSE nx[g[i - 1]]
  BY DEF IsFreeWalk
<1> DEFINE T == {i \in 0..n : f[i] # g[i]}
<1>3. T = {}
  <2> SUFFICES ASSUME T # {} PROVE FALSE
    OBVIOUS
  <2>1. T \in SUBSET Nat
    OBVIOUS
  <2> HIDE DEF T
  <2>2. PICK i \in T : \A j \in T : i <= j
    BY <2>1, Least
  <2>3. i \in 0..n /\ f[i] # g[i]
    BY DEF T
  <2>4. i # 0
    BY <1>2, <2>3
  <2>5. i - 1 \in 0..n /\ ~(i <= i - 1)
    BY <2>3, <2>4
  <2>6. f[i - 1] = g[i - 1]
    BY <2>2, <2>5 DEF T
  <2>7. QED
    BY <1>2, <2>3, <2>4, <2>6
<1>4. \A i \in 0..n : f[i] = g[i]
  BY <1>3
<1>5. QED
  BY <1>1, <1>4

LEMMA FreeListIs ==
    ASSUME NEW n \in Nat, n = Len(book.group_count),
           NEW g, IsFreeWalk(g, book.free_head, book.group_count, n)
    PROVE  FreeList = g
<1>1. FreeList = CHOOSE f : IsFreeWalk(f, book.free_head, book.group_count, n)
  BY DEF FreeList, IsFreeWalk
<1>2. IsFreeWalk(FreeList, book.free_head, book.group_count, n)
  BY <1>1
<1>3. QED
  BY <1>2, FreeWalksAgree

\* The groups a walk comes to.
Stations(f) == {f[i] : i \in DOMAIN f} \ {no_position}

\* The members in order, and then no_position.
InFreeOrder(E, rank, L) ==
    [i \in 0..L |-> IF i < Cardinality(E) THEN InIndexOrder(E, rank)[i + 1] ELSE no_position]

LEMMA FreeWalk ==
    ASSUME NEW E, NEW rank, NEW nx, NEW pv, List(E, rank, nx, pv), NEW head,
           E # {} => FirstOf(E, rank, head), E = {} => head = no_position,
           NEW L \in Nat, Cardinality(E) <= L, NEW f, f = InFreeOrder(E, rank, L)
    PROVE  /\ IsFreeWalk(f, head, nx, L) /\ f[L] = no_position
           /\ Stations(f) = E
<1> DEFINE g == InIndexOrder(E, rank)
           n == Cardinality(E)
<1>1. /\ n \in Nat /\ IsWalk(g, head, nx, n + 1)
      /\ g[n + 1] = no_position
      /\ \A i \in 1..n : g[i] \in E /\ Index(E, rank, g[i]) = i
      /\ \A p \in E : Index(E, rank, p) \in 1..n /\ g[Index(E, rank, p)] = p
  BY WalkMembers
<1>2. no_position \notin E
  BY DEF List
<1>3. /\ f = [i \in 0..L |-> f[i]] /\ DOMAIN f = 0..L
      /\ \A i \in 0..L : f[i] = IF i < n THEN g[i + 1] ELSE no_position
  BY DEF InFreeOrder
<1> HIDE DEF g, n
<1>4. \A i \in 1..(n + 1) :
         g[i] = IF i = 1 THEN head
                ELSE IF g[i - 1] = no_position THEN no_position ELSE nx[g[i - 1]]
  BY <1>1 DEF IsWalk
<1>5. n <= L
  BY DEF n
<1>6. f[L] = no_position
  BY <1>1, <1>3, <1>5
<1>7. Stations(f) = E
  <2>1. ASSUME NEW i \in 0..L, f[i] # no_position PROVE f[i] \in E
    <3>1. i < n /\ f[i] = g[i + 1] /\ i + 1 \in 1..n
      BY <1>1, <1>3, <2>1
    <3>2. QED
      BY <1>1, <3>1
  <2>2. ASSUME NEW p \in E PROVE \E i \in 0..L : f[i] = p
    <3> DEFINE k == Index(E, rank, p)
    <3>1. k \in 1..n /\ g[k] = p
      BY <1>1
    <3> HIDE DEF k
    <3>2. k - 1 \in 0..L /\ k - 1 < n /\ k - 1 + 1 = k
      BY <1>1, <1>5, <3>1
    <3>3. f[k - 1] = p
      BY <1>3, <3>1, <3>2
    <3>4. QED
      BY <3>2, <3>3
  <2>3. QED
    BY <1>2, <1>3, <2>1, <2>2 DEF Stations
<1>8. ASSUME NEW i \in 0..L
      PROVE  f[i] = IF i = 0 THEN head
                    ELSE IF f[i - 1] = no_position THEN no_position ELSE nx[f[i - 1]]
  <2>1. CASE i = 0
    <3>1. 1 \in 1..(n + 1) /\ g[1] = head
      BY <1>1, <1>4
    <3>2. CASE n = 0
      BY <1>1, <1>3, <2>1, <3>1, <3>2
    <3>3. CASE n # 0
      <4>1. 0 < n
        BY <1>1, <3>3
      <4>2. QED
        BY <1>3, <2>1, <3>1, <4>1
    <3>4. QED
      BY <3>2, <3>3
  <2>2. CASE i # 0
    <3>1. i - 1 \in 0..L /\ i - 1 + 1 = i
      BY <2>2
    <3>2. CASE i <= n
      <4>1. /\ i - 1 < n /\ f[i - 1] = g[i]
            /\ i \in 1..n /\ g[i] # no_position
        BY <1>1, <1>2, <1>3, <2>2, <3>1, <3>2
      <4>2. /\ i + 1 \in 1..(n + 1) /\ i + 1 # 1 /\ i + 1 - 1 = i
        BY <1>1, <2>2, <3>2
      <4>3. g[i + 1] = nx[g[i]]
        BY <1>4, <4>1, <4>2
      <4>4. f[i] = g[i + 1]
        <5>1. CASE i < n
          BY <1>3, <5>1
        <5>2. CASE ~(i < n)
          <6>1. i = n
            BY <1>1, <3>2, <5>2
          <6>2. QED
            BY <1>1, <1>3, <5>2, <6>1
        <5>3. QED
          BY <5>1, <5>2
      <4>5. QED
        BY <2>2, <4>1, <4>3, <4>4
    <3>3. CASE ~(i <= n)
      <4>1. ~(i < n) /\ ~(i - 1 < n)
        BY <1>1, <3>3
      <4>2. QED
        BY <1>3, <2>2, <3>1, <4>1
    <3>4. QED
      BY <3>2, <3>3
  <2>3. QED
    BY <2>1, <2>2
<1>9. IsFreeWalk(f, head, nx, L)
  BY <1>3, <1>8 DEF IsFreeWalk
<1>10. QED
  BY <1>6, <1>7, <1>9

\* The free list holds the groups that have no edge, and no other.
LEMMA FreeFound ==
    ASSUME IInv, BookFree
    PROVE  FreeList[Len(book.group_count)] = no_position /\ FreeGroups = Unused(book)
<1> DEFINE E == Unused(book)
           head == book.free_head
           nx == book.group_count
           L == Len(nx)
<1>1. /\ splits \in Corpora /\ BookOK(book, Position) /\ no_position \notin Nat
      /\ nx \in Seq(Nat \cup {no_position})
  BY InvFacts, NoPositionAssumption DEF BookOK, BookTypeOK
<1>2. L \in Nat /\ DOMAIN nx = 1..L
  BY <1>1
<1>3. E \in SUBSET (1..L)
  BY <1>2 DEF Unused
<1>4. PICK rank \in [Nat -> Nat], pv \in [Nat -> Nat \cup {no_position}] :
         Linked(E, rank, nx, pv) /\ IF E = {} THEN head = no_position ELSE FirstOf(E, rank, head)
  BY DEF BookFree, FreeListed, Chained
<1> HIDE DEF E, head, nx, L
<1>5. IsFiniteSet(1..L) /\ Cardinality(1..L) = L
  <2>1. 1 \in Int /\ L \in Int
    BY <1>2
  <2>2. IsFiniteSet(1..L) /\ Cardinality(1..L) = IF 1 > L THEN 0 ELSE L - 1 + 1
    BY <2>1, FS_Interval
  <2>3. QED
    BY <1>2, <2>2
<1>6. IsFiniteSet(E) /\ Cardinality(E) <= L
  BY <1>3, <1>5, FS_Subset
<1>7. List(E, rank, nx, pv)
  <2>1. \A g \in E : g \in Nat /\ g # no_position
    BY <1>1, <1>2, <1>3
  <2>2. \A g \in E : rank[g] \in Nat
    BY <1>4, <2>1
  <2>3. QED
    BY <1>4, <1>6, <2>1, <2>2 DEF List
<1> DEFINE f == InFreeOrder(E, rank, L)
<1>8. /\ IsFreeWalk(f, head, nx, L) /\ f[L] = no_position
      /\ Stations(f) = E
  <2>1. (E # {} => FirstOf(E, rank, head)) /\ (E = {} => head = no_position)
    BY <1>4
  <2>2. L \in Nat /\ Cardinality(E) <= L /\ f = InFreeOrder(E, rank, L)
    BY <1>2, <1>6
  <2> HIDE DEF f
  <2>3. QED
    BY <1>7, <2>1, <2>2, FreeWalk
<1> HIDE DEF f
<1>9. FreeList = f
  BY <1>2, <1>8, FreeListIs DEF head, L, nx
<1>10. QED
  BY <1>8, <1>9 DEF FreeGroups, Stations, E, L, nx

\* The edges of a group are those of its pair in one word.
LEMMA GroupFound ==
    ASSUME IInv, EInv, Quiescent, NEW g \in UsedGroups, NEW some \in Members(book, g),
           NEW key, key = <<token[some], token[next[some]]>>
    PROVE  /\ book.pairs[book.group_state[g]].key = key
           /\ Members(book, g) = {p \in Edges(key) : p[1] = some[1]}
           /\ book.group_count[g] = Cardinality(Members(book, g))
<1>1. /\ splits \in Corpora /\ BookOK(book, Position) /\ IsFiniteSet(Position)
      /\ Sound(book, Position, Frequencies, Listed) /\ DOMAIN book.edge_group = Position
  BY ExactFacts, PositionsFinite
<1>2. some \in Position /\ book.edge_group[some] = g /\ g # no_position
  BY <1>1 DEF Members, UsedGroups
<1> DEFINE s == book.group_state[g]
<1>3. /\ g \in Used(book) /\ s \in DOMAIN book.pairs
      /\ book.group_count[g] = Cardinality(Members(book, g))
  BY <1>1, <1>2, GroupFacts
<1>4. KeyOf(book, some) = book.pairs[s].key
  BY <1>2 DEF KeyOf
<1>5. book.pairs[s].key # no_position
  <2>1. book.pairs[s] \in Pair(Position)
    BY <1>1, <1>3 DEF BookOK, BookTypeOK
  <2>2. book.pairs[s].key \in Nat \X Nat
    BY <2>1 DEF Pair
  <2>3. QED
    BY <2>2, NoPositionAssumption
<1>6. book.pairs[s].key = key
  BY <1>2, <1>4, <1>5, QuietFacts
<1>7. EdgesOf(book, s) = Edges(key)
  BY <1>3, <1>6, QuietFacts
<1>8. \A p \in Position : book.edge_group[p] = g <=> p \in EdgesOf(book, s) /\ p[1] = some[1]
  BY <1>1, <1>2 DEF Sound, Exact, GroupsPerWord, EdgesOf
<1>9. Members(book, g) = {p \in Edges(key) : p[1] = some[1]}
  BY <1>1, <1>7, <1>8 DEF Members, EdgesOf
<1>10. QED
  BY <1>3, <1>6, <1>9

LEMMA GroupsKept == IInv /\ EInv /\ BookFree => GroupsExact
<1> SUFFICES ASSUME IInv, EInv, BookFree, Quiescent PROVE GroupsExact
  BY DEF GroupsExact
<1>1. BookOK(book, Position) /\ DOMAIN book.edge_group = Position /\ IsFiniteSet(Position)
  BY ExactFacts, PositionsFinite
<1>2. UsedGroups = Used(book)
  <2>1. \A p \in Position : book.edge_group[p] # no_position => book.edge_group[p] \in Used(book)
    BY <1>1, GroupFacts
  <2>2. \A g \in Used(book) : \E p \in Position : book.edge_group[p] = g
    BY <1>1 DEF Used, Members
  <2>3. \A g \in Used(book) : g # no_position
    BY <1>1, NoPositionAssumption DEF Used, BookOK, BookTypeOK
  <2>4. QED
    BY <2>1, <2>2, <2>3 DEF UsedGroups
<1>3. FreeList[Len(book.group_count)] = no_position /\ FreeGroups = Unused(book)
  BY FreeFound
<1>4. FreeGroups \cap UsedGroups = {} /\ FreeGroups \cup UsedGroups = DOMAIN book.group_count
  BY <1>2, <1>3 DEF Unused, Used
<1>5. ASSUME NEW g \in UsedGroups
      PROVE  LET members == {p \in Position : book.edge_group[p] = g}
                 some    == CHOOSE p \in members : TRUE
                 key     == <<token[some], token[next[some]]>>
             IN  /\ book.pairs[book.group_state[g]].key = key
                 /\ members = {p \in Edges(key) : p[1] = some[1]}
                 /\ book.group_count[g] = Cardinality(members)
  <2> DEFINE members == {p \in Position : book.edge_group[p] = g}
             some == CHOOSE p \in members : TRUE
  <2>1. members = Members(book, g) /\ members # {}
    BY <1>1, <1>2 DEF Members, Used
  <2>2. some \in Members(book, g)
    BY <2>1
  <2> DEFINE key == <<token[some], token[next[some]]>>
  <2> HIDE DEF some
  <2>3. /\ book.pairs[book.group_state[g]].key = key
        /\ Members(book, g) = {p \in Edges(key) : p[1] = some[1]}
        /\ book.group_count[g] = Cardinality(Members(book, g))
    BY <2>2, GroupFound
  <2> HIDE DEF members, key
  <2>4. /\ book.pairs[book.group_state[g]].key = key
        /\ members = {p \in Edges(key) : p[1] = some[1]}
        /\ book.group_count[g] = Cardinality(members)
    BY <2>1, <2>3
  <2>5. QED
    BY <2>4 DEF some, members, key
<1>6. QED
  BY <1>3, <1>4, <1>5 DEF GroupsExact

\* Two edges share a group exactly when they are the same pair in the same word, a
\* group counts its edges, and every other group is on the free list, once: no group
\* is both recycled and in use, and none is lost.
THEOREM GroupsStayExact == Spec => []GroupsExact
BY GroupsKept, Inductive, BookKeepsUp, NoGroupLeaks, PTL

-----------------------------------------------------------------------------
(* The order of texts.                                                     *)

LEMMA ByteType ==
    ASSUME NEW s \in Text, NEW i \in Nat \ {0}
    PROVE  /\ ByteAt(s, i) \in Nat
           /\ ByteAt(s, i) > 0 <=> i <= Len(s)
<1>1. CASE i <= Len(s)
  <2>1. s[i] \in Nat \ {0}
    BY <1>1 DEF Text
  <2>2. QED
    BY <1>1, <2>1 DEF ByteAt
<1>2. CASE ~(i <= Len(s))
  BY <1>2 DEF ByteAt
<1>3. QED
  BY <1>1, <1>2

\* strcmp_less, with the place where the two texts differ not bounded.
LEMMA FirstDifference ==
    ASSUME NEW s \in Text, NEW t \in Text
    PROVE  strcmp_less(s, t) <=>
              \E i \in Nat \ {0} : /\ ByteAt(s, i) < ByteAt(t, i)
                                   /\ \A j \in 1..(i - 1) : ByteAt(s, j) = ByteAt(t, j)
<1>1. Len(t) \in Nat
  BY DEF Text
<1>2. ASSUME strcmp_less(s, t)
      PROVE  \E i \in Nat \ {0} : /\ ByteAt(s, i) < ByteAt(t, i)
                                  /\ \A j \in 1..(i - 1) : ByteAt(s, j) = ByteAt(t, j)
  BY <1>1, <1>2 DEF strcmp_less
<1>3. ASSUME NEW i \in Nat \ {0}, ByteAt(s, i) < ByteAt(t, i),
             \A j \in 1..(i - 1) : ByteAt(s, j) = ByteAt(t, j)
      PROVE  strcmp_less(s, t)
  <2>1. i \in 1..Len(t)
    BY <1>1, <1>3, ByteType
  <2>2. QED
    BY <1>3, <2>1 DEF strcmp_less
<1>4. QED
  BY <1>2, <1>3

LEMMA Irreflexive ==
    ASSUME NEW s \in Text
    PROVE  ~strcmp_less(s, s)
<1>1. ASSUME NEW i \in Nat \ {0} PROVE ~(ByteAt(s, i) < ByteAt(s, i))
  BY ByteType
<1>2. QED
  BY <1>1, FirstDifference

LEMMA Transitive ==
    ASSUME NEW s \in Text, NEW t \in Text, NEW u \in Text,
           strcmp_less(s, t), strcmp_less(t, u)
    PROVE  strcmp_less(s, u)
<1>1. PICK i \in Nat \ {0} : /\ ByteAt(s, i) < ByteAt(t, i)
                             /\ \A j \in 1..(i - 1) : ByteAt(s, j) = ByteAt(t, j)
  BY FirstDifference
<1>2. PICK k \in Nat \ {0} : /\ ByteAt(t, k) < ByteAt(u, k)
                             /\ \A j \in 1..(k - 1) : ByteAt(t, j) = ByteAt(u, j)
  BY FirstDifference
<1>3. \A j \in Nat \ {0} : ByteAt(s, j) \in Nat /\ ByteAt(t, j) \in Nat /\ ByteAt(u, j) \in Nat
  BY ByteType
<1>4. CASE i <= k
  <2>1. ByteAt(s, i) < ByteAt(u, i)
    <3>1. CASE i = k
      BY <1>1, <1>2, <1>3, <3>1
    <3>2. CASE i < k
      <4>1. ByteAt(t, i) = ByteAt(u, i)
        BY <1>2, <3>2
      <4>2. QED
        BY <1>1, <4>1
    <3>3. QED
      BY <1>4, <3>1, <3>2
  <2>2. \A j \in 1..(i - 1) : ByteAt(s, j) = ByteAt(u, j)
    BY <1>1, <1>2, <1>4
  <2>3. QED
    BY <2>1, <2>2, FirstDifference
<1>5. CASE k < i
  <2>1. ByteAt(s, k) < ByteAt(u, k)
    <3>1. ByteAt(s, k) = ByteAt(t, k)
      BY <1>1, <1>5
    <3>2. QED
      BY <1>2, <3>1
  <2>2. \A j \in 1..(k - 1) : ByteAt(s, j) = ByteAt(u, j)
    BY <1>1, <1>2, <1>5
  <2>3. QED
    BY <2>1, <2>2, FirstDifference
<1>6. QED
  BY <1>4, <1>5

LEMMA Total ==
    ASSUME NEW s \in Text, NEW t \in Text, s # t
    PROVE  strcmp_less(s, t) \/ strcmp_less(t, s)
<1> DEFINE Differ == {i \in Nat \ {0} : ByteAt(s, i) # ByteAt(t, i)}
<1>1. Differ # {}
  <2> SUFFICES ASSUME Differ = {} PROVE FALSE
    OBVIOUS
  <2>1. \A i \in Nat \ {0} : ByteAt(s, i) = ByteAt(t, i)
    OBVIOUS
  <2>2. Len(s) \in Nat /\ Len(t) \in Nat
    BY DEF Text
  <2>3. \A i \in Nat \ {0} : i <= Len(s) <=> i <= Len(t)
    BY <2>1, ByteType
  <2>4. Len(s) = Len(t)
    BY <2>2, <2>3
  <2>5. \A i \in 1..Len(s) : s[i] = t[i]
    BY <2>1, <2>2, <2>4 DEF ByteAt
  <2>6. s = t
    BY <2>4, <2>5 DEF Text
  <2>7. QED
    BY <2>6
<1>2. Differ \in SUBSET Nat
  OBVIOUS
<1>3. PICK i \in Differ : \A j \in Differ : i <= j
  BY <1>1, <1>2, Least
<1>4. i \in Nat \ {0} /\ ByteAt(s, i) # ByteAt(t, i)
  OBVIOUS
<1>5. \A j \in 1..(i - 1) : ByteAt(s, j) = ByteAt(t, j)
  BY <1>3, <1>4
<1>6. ByteAt(s, i) < ByteAt(t, i) \/ ByteAt(t, i) < ByteAt(s, i)
  BY <1>4, ByteType
<1>7. QED
  BY <1>4, <1>5, <1>6, FirstDifference

\* THEOREM.  strcmp is a strict total order on texts without NUL: two tokens of
\* different texts never tie, in the queue and in the result.
THEOREM StrictTotalOrder ==
    /\ \A s \in Text : ~strcmp_less(s, s)
    /\ \A s, t, u \in Text : strcmp_less(s, t) /\ strcmp_less(t, u) => strcmp_less(s, u)
    /\ \A s, t \in Text : s # t => strcmp_less(s, t) \/ strcmp_less(t, s)
  BY Irreflexive, Transitive, Total

-----------------------------------------------------------------------------
LEMMA JoinedText ==
    ASSUME NEW s \in Text, NEW t \in Text
    PROVE  s \o t \in Text
  BY DEF Text

\* THEOREM.  The two stages of queue_compare, the packed fingerprints and then strcmp,
\* order two pairs as strcmp on their merged texts alone does, however many bytes a
\* fingerprint holds and however long the texts are.
THEOREM StagesAgree ==
    ASSUME NEW a \in Text \X Text, NEW b \in Text \X Text
    PROVE  RanksBelow(a, b) <=> strcmp_less(b[1] \o b[2], a[1] \o a[2])
<1> DEFINE s == a[1] \o a[2]
           t == b[1] \o b[2]
           f == text_fingerprint(a[1], a[2])
           g == text_fingerprint(b[1], b[2])
<1>1. s \in Text /\ t \in Text
  BY JoinedText
<1>2. /\ f = [i \in 1..FingerprintBytes |-> ByteAt(s, i)]
      /\ g = [i \in 1..FingerprintBytes |-> ByteAt(t, i)]
  BY DEF text_fingerprint
<1>3. \A i \in 1..FingerprintBytes : f[i] = ByteAt(s, i) /\ g[i] = ByteAt(t, i)
  BY <1>2
<1>4. CASE f = g
  BY <1>4 DEF RanksBelow
<1>5. CASE f # g
  <2>1. RanksBelow(a, b) <=> fingerprint_less(g, f)
    BY <1>5 DEF RanksBelow
  <2> HIDE DEF s, t, f, g
  <2>2. ASSUME fingerprint_less(g, f) PROVE strcmp_less(t, s)
    <3>1. PICK i \in 1..FingerprintBytes : g[i] < f[i] /\ \A j \in 1..(i - 1) : g[j] = f[j]
      BY <2>2 DEF fingerprint_less
    <3>2. i \in Nat \ {0} /\ ByteAt(t, i) < ByteAt(s, i)
      BY <1>3, <3>1, FingerprintAssumption
    <3>3. \A j \in 1..(i - 1) : ByteAt(t, j) = ByteAt(s, j)
      <4> TAKE j \in 1..(i - 1)
      <4>1. j \in 1..FingerprintBytes
        BY FingerprintAssumption
      <4>2. g[j] = f[j]
        BY <3>1
      <4>3. QED
        BY <1>3, <4>1, <4>2
    <3>4. QED
      BY <1>1, <3>2, <3>3, FirstDifference
  <2>3. ASSUME strcmp_less(t, s) PROVE fingerprint_less(g, f)
    <3>1. PICK i \in Nat \ {0} : /\ ByteAt(t, i) < ByteAt(s, i)
                                 /\ \A j \in 1..(i - 1) : ByteAt(t, j) = ByteAt(s, j)
      BY <1>1, <2>3, FirstDifference
    <3>2. i <= FingerprintBytes
      <4> SUFFICES ASSUME FingerprintBytes < i PROVE FALSE
        BY FingerprintAssumption
      <4>1. \A j \in 1..FingerprintBytes : ByteAt(t, j) = ByteAt(s, j)
        BY <3>1, FingerprintAssumption
      <4>2. f = g
        BY <1>2, <4>1
      <4>3. QED
        BY <1>5, <4>2
    <3>3. i \in 1..FingerprintBytes
      BY <3>2, FingerprintAssumption
    <3>4. g[i] < f[i]
      BY <1>3, <3>1, <3>3
    <3>5. \A j \in 1..(i - 1) : g[j] = f[j]
      <4> TAKE j \in 1..(i - 1)
      <4>1. j \in 1..FingerprintBytes
        BY <3>3, FingerprintAssumption
      <4>2. ByteAt(t, j) = ByteAt(s, j)
        BY <3>1
      <4>3. QED
        BY <1>3, <4>1, <4>2
    <3>6. QED
      BY <3>3, <3>4, <3>5 DEF fingerprint_less
  <2>4. QED
    BY <2>1, <2>2, <2>3 DEF s, t
<1>6. QED
  BY <1>4, <1>5

-----------------------------------------------------------------------------
(* Stretches of a word, and where its tokens end.                          *)

\* What stands in a word from place a up to place b.
Span(chars, a, b) == SubSeq(chars, a, b - 1)

\* The places at which a token begins or the word ends.
Bounds(chars, cut) == cut \cup {Len(chars) + 1}

LEMMA TextsEqual ==
    ASSUME NEW s \in Text, NEW t \in Text, Len(s) = Len(t), \A k \in 1..Len(s) : s[k] = t[k]
    PROVE  s = t
BY DEF Text

LEMMA TextsJoined ==
    ASSUME NEW s \in Text, NEW t \in Text
    PROVE  /\ s \o t \in Text /\ Len(s \o t) = Len(s) + Len(t)
           /\ Len(s) \in Nat /\ Len(t) \in Nat
           /\ \A k \in 1..Len(s) : (s \o t)[k] = s[k]
           /\ \A k \in 1..Len(t) : (s \o t)[Len(s) + k] = t[k]
BY DEF Text

LEMMA SpanFacts ==
    ASSUME NEW x \in Text, NEW a \in 1..Len(x), NEW b \in a..(Len(x) + 1)
    PROVE  /\ Span(x, a, b) \in Text
           /\ Len(Span(x, a, b)) = b - a
           /\ \A k \in 1..(b - a) : Span(x, a, b)[k] = x[a + k - 1]
<1>1. a \in Nat /\ b \in Nat /\ Len(x) \in Nat /\ b - 1 \in Nat /\ a <= b
  BY DEF Text
<1>2. \A k \in a..(b - 1) : x[k] \in Nat \ {0}
  BY <1>1 DEF Text
<1>3. Span(x, a, b) \in Text
  BY <1>1, <1>2 DEF Span, Text
<1>4. QED
  BY <1>1, <1>3 DEF Span, Text

LEMMA SpansEqual ==
    ASSUME NEW x \in Text, NEW a \in 1..Len(x), NEW b \in a..(Len(x) + 1),
           NEW y \in Text, NEW c \in 1..Len(y), NEW d \in c..(Len(y) + 1)
    PROVE  Span(x, a, b) = Span(y, c, d)
              <=> b - a = d - c /\ \A k \in 1..(b - a) : x[a + k - 1] = y[c + k - 1]
<1> DEFINE s == Span(x, a, b)
           t == Span(y, c, d)
<1>1. s \in Text /\ Len(s) = b - a /\ \A k \in 1..(b - a) : s[k] = x[a + k - 1]
  BY SpanFacts
<1>2. t \in Text /\ Len(t) = d - c /\ \A k \in 1..(d - c) : t[k] = y[c + k - 1]
  BY SpanFacts
<1> HIDE DEF s, t
<1>3. Len(s) = Len(t) /\ (\A k \in 1..Len(s) : s[k] = t[k]) => s = t
  BY <1>1, <1>2, TextsEqual
<1>4. QED
  BY <1>1, <1>2, <1>3 DEF s, t

\* Parts of equal spans are equal.
LEMMA SubSpans ==
    ASSUME NEW x \in Text, NEW a \in 1..Len(x), NEW b \in a..(Len(x) + 1),
           NEW y \in Text, NEW c \in 1..Len(y), NEW d \in c..(Len(y) + 1),
           Span(x, a, b) = Span(y, c, d),
           NEW i \in a..(b - 1), NEW j \in i..b
    PROVE  /\ c + (i - a) \in c..(d - 1) /\ c + (j - a) \in (c + (i - a))..d
           /\ Span(x, i, j) = Span(y, c + (i - a), c + (j - a))
<1> DEFINE k == c + (i - a)
           l == c + (j - a)
<1> HIDE DEF k, l
<1>1. b - a = d - c /\ \A n \in 1..(b - a) : x[a + n - 1] = y[c + n - 1]
  BY SpansEqual
<1> USE DEF k, l
<1>2. /\ a \in Nat /\ b \in Nat /\ c \in Nat /\ d \in Nat /\ i \in Nat /\ j \in Nat
      /\ Len(x) \in Nat /\ Len(y) \in Nat
  BY DEF Text
<1>3. k \in c..(d - 1) /\ l \in k..d /\ l - k = j - i
  BY <1>1, <1>2
<1>4. i \in 1..Len(x) /\ j \in i..(Len(x) + 1) /\ k \in 1..Len(y) /\ l \in k..(Len(y) + 1)
  BY <1>2, <1>3
<1>5. ASSUME NEW n \in 1..(j - i) PROVE x[i + n - 1] = y[k + n - 1]
  <2>1. (i - a) + n \in 1..(b - a)
    BY <1>2
  <2>2. x[a + ((i - a) + n) - 1] = y[c + ((i - a) + n) - 1]
    BY <1>1, <2>1
  <2>3. a + ((i - a) + n) - 1 = i + n - 1 /\ c + ((i - a) + n) - 1 = k + n - 1
    BY <1>2
  <2>4. QED
    BY <2>2, <2>3
<1> HIDE DEF k, l
<1>6. Span(x, i, j) = Span(y, k, l)
  BY <1>3, <1>4, <1>5, SpansEqual
<1>7. QED
  BY <1>3, <1>6 DEF k, l

LEMMA SpanJoin ==
    ASSUME NEW x \in Text, NEW a \in 1..Len(x), NEW b \in (a + 1)..Len(x),
           NEW e \in (b + 1)..(Len(x) + 1)
    PROVE  Span(x, a, b) \o Span(x, b, e) = Span(x, a, e)
<1> DEFINE s == Span(x, a, b)
           t == Span(x, b, e)
           u == Span(x, a, e)
<1>0. a \in Nat /\ b \in Nat /\ e \in Nat /\ Len(x) \in Nat
  BY DEF Text
<1>a. /\ b \in a..(Len(x) + 1) /\ e \in b..(Len(x) + 1) /\ e \in a..(Len(x) + 1)
      /\ b \in 1..Len(x)
  BY <1>0
<1>1. s \in Text /\ Len(s) = b - a /\ \A k \in 1..(b - a) : s[k] = x[a + k - 1]
  BY <1>a, SpanFacts
<1>2. t \in Text /\ Len(t) = e - b /\ \A k \in 1..(e - b) : t[k] = x[b + k - 1]
  BY <1>a, SpanFacts
<1>3. u \in Text /\ Len(u) = e - a /\ \A k \in 1..(e - a) : u[k] = x[a + k - 1]
  BY <1>a, SpanFacts
<1> HIDE DEF s, t, u
<1>4. /\ s \o t \in Text /\ Len(s \o t) = e - a
      /\ \A k \in 1..(b - a) : (s \o t)[k] = s[k]
      /\ \A k \in 1..(e - b) : (s \o t)[(b - a) + k] = t[k]
  <2>1. /\ s \o t \in Text /\ Len(s \o t) = Len(s) + Len(t)
        /\ \A k \in 1..Len(s) : (s \o t)[k] = s[k]
        /\ \A k \in 1..Len(t) : (s \o t)[Len(s) + k] = t[k]
    BY <1>1, <1>2, TextsJoined
  <2>2. Len(s) = b - a /\ Len(t) = e - b
    BY <1>1, <1>2
  <2>3. Len(s) + Len(t) = e - a
    BY <1>0, <2>2
  <2>4. \A k \in 1..(e - b) : (s \o t)[(b - a) + k] = t[k]
    <3> DEFINE st == s \o t
    <3> HIDE DEF st
    <3>1. \A k \in 1..Len(t) : st[Len(s) + k] = t[k]
      BY <2>1 DEF st
    <3>2. \A k \in 1..(e - b) : st[(b - a) + k] = t[k]
      BY <2>2, <3>1
    <3>3. QED
      BY <3>2 DEF st
  <2>5. \A k \in 1..(b - a) : (s \o t)[k] = s[k]
    BY <2>1, <2>2
  <2>6. QED
    BY <2>1, <2>3, <2>4, <2>5
<1>5. ASSUME NEW k \in 1..(e - a) PROVE (s \o t)[k] = u[k]
  <2>1. CASE k <= b - a
    BY <1>0, <1>1, <1>3, <1>4, <2>1
  <2>2. CASE ~(k <= b - a)
    <3> DEFINE l == k - (b - a)
    <3>1. l \in 1..(e - b) /\ (b - a) + l = k /\ b + l - 1 = a + k - 1
      BY <1>0, <2>2
    <3> HIDE DEF l
    <3>2. (s \o t)[k] = t[l] /\ t[l] = x[a + k - 1]
      BY <1>2, <1>4, <3>1
    <3>3. QED
      BY <1>3, <3>2
  <2>3. QED
    BY <2>1, <2>2
<1>6. s \o t = u
  BY <1>3, <1>4, <1>5, TextsEqual
<1>7. QED
  BY <1>6 DEF s, t, u

LEMMA EndFacts ==
    ASSUME NEW x \in Text, NEW cut \in SUBSET (1..Len(x)), NEW i \in 1..Len(x)
    PROVE  /\ End(x, cut, i) \in (i + 1)..(Len(x) + 1)
           /\ End(x, cut, i) \in Bounds(x, cut)
           /\ \A k \in (i + 1)..(End(x, cut, i) - 1) : k \notin cut
<1> DEFINE T == {j \in (i + 1)..(Len(x) + 1) : j \in Bounds(x, cut)}
<1>1. Len(x) + 1 \in T /\ T \in SUBSET Nat /\ Len(x) \in Nat
  BY DEF Bounds, Text
<1>2. PICK j \in T : \A k \in T : j <= k
  BY <1>1, Least
<1>3. \A k \in (i + 1)..(j - 1) : k \notin cut
  <2> SUFFICES ASSUME NEW k \in (i + 1)..(j - 1), k \in cut PROVE FALSE
    OBVIOUS
  <2>1. k \in T
    BY DEF Bounds
  <2>2. QED
    BY <1>1, <1>2, <2>1
<1>4. j \in (i + 1)..(Len(x) + 1) /\ (j \in cut \/ j = Len(x) + 1)
  BY DEF Bounds
<1>5. \E l \in (i + 1)..(Len(x) + 1) :
         /\ l \in cut \/ l = Len(x) + 1
         /\ \A k \in (i + 1)..(l - 1) : k \notin cut
  BY <1>3, <1>4
<1>6. /\ End(x, cut, i) \in (i + 1)..(Len(x) + 1)
      /\ End(x, cut, i) \in cut \/ End(x, cut, i) = Len(x) + 1
      /\ \A k \in (i + 1)..(End(x, cut, i) - 1) : k \notin cut
  BY <1>5 DEF End
<1>7. QED
  BY <1>6 DEF Bounds

LEMMA EndIs ==
    ASSUME NEW x \in Text, NEW cut \in SUBSET (1..Len(x)), NEW i \in 1..Len(x),
           NEW j \in (i + 1)..(Len(x) + 1), j \in Bounds(x, cut),
           \A k \in (i + 1)..(j - 1) : k \notin cut
    PROVE  End(x, cut, i) = j
<1> DEFINE e == End(x, cut, i)
<1>1. /\ e \in (i + 1)..(Len(x) + 1) /\ e \in Bounds(x, cut)
      /\ \A k \in (i + 1)..(e - 1) : k \notin cut
  BY EndFacts
<1> HIDE DEF e
<1>2. i \in Nat /\ j \in Nat /\ e \in Nat /\ Len(x) \in Nat
  BY <1>1 DEF Text
<1>3. ~(e < j)
  BY <1>1, <1>2 DEF Bounds
<1>4. ~(j < e)
  BY <1>1, <1>2 DEF Bounds
<1>5. QED
  BY <1>2, <1>3, <1>4 DEF e

\* Two tokens do not end at the same place, and one that begins earlier ends earlier.
LEMMA EndsApart ==
    ASSUME NEW x \in Text, NEW cut \in SUBSET (1..Len(x)),
           NEW i \in cut, NEW j \in cut, i < j
    PROVE  End(x, cut, i) <= j /\ End(x, cut, i) < End(x, cut, j)
<1>1. i \in 1..Len(x) /\ j \in 1..Len(x) /\ Len(x) \in Nat
  BY DEF Text
<1>2. /\ End(x, cut, i) \in (i + 1)..(Len(x) + 1)
      /\ \A k \in (i + 1)..(End(x, cut, i) - 1) : k \notin cut
  BY <1>1, EndFacts
<1>3. End(x, cut, j) \in (j + 1)..(Len(x) + 1)
  BY <1>1, EndFacts
<1>4. QED
  BY <1>1, <1>2, <1>3

-----------------------------------------------------------------------------
(* Which occurrences are taken.                                            *)

\* The rule of Taken.
LeftToRight(x, cut, pair, M) ==
    /\ M \in SUBSET PlacesIn(x, cut, pair)
    /\ \A i \in PlacesIn(x, cut, pair) : i \in M <=> \A j \in M : End(x, cut, j) # i

LEMMA TakenFound ==
    ASSUME NEW x \in Text, NEW cut \in SUBSET (1..Len(x)), NEW pair
    PROVE  LeftToRight(x, cut, pair, Taken(x, cut, pair))
<1> DEFINE P     == PlacesIn(x, cut, pair)
           n     == Len(x)
           E(i)  == End(x, cut, i)
           Up(k, M) == /\ M \in SUBSET {i \in P : i <= k}
                       /\ \A i \in P : i <= k => (i \in M <=> \A j \in M : E(j) # i)
           S     == {k \in 0..n : \E M : Up(k, M)}
<1>1. n \in Nat /\ P \in SUBSET (1..n)
  <2>1. P \subseteq cut
    BY DEF PlacesIn
  <2>2. n \in Nat
    BY DEF Text
  <2> HIDE DEF P, n
  <2>3. cut \in SUBSET (1..n)
    BY DEF n
  <2>4. QED
    BY <2>1, <2>2, <2>3
<1>2. \A i \in 1..n : E(i) \in Nat /\ E(i) > i
  <2> SUFFICES ASSUME NEW i \in 1..n PROVE E(i) \in Nat /\ E(i) > i
    OBVIOUS
  <2>1. E(i) \in (i + 1)..(n + 1)
    BY EndFacts
  <2>2. QED
    BY <1>1, <2>1
<1> HIDE DEF P, n, E
<1>3. 0 \in S
  <2>1. Up(0, {})
    BY <1>1
  <2>2. QED
    BY <1>1, <2>1
<1>4. ASSUME NEW k \in 0..(n - 1), k \in S PROVE k + 1 \in S
  <2>1. PICK M : Up(k, M)
    BY <1>4
  <2>2. CASE k + 1 \in P /\ \A j \in M : E(j) # k + 1
    <3> DEFINE N == M \cup {k + 1}
    <3>1. N \in SUBSET {i \in P : i <= k + 1}
      BY <1>1, <2>1, <2>2
    <3>2. ASSUME NEW i \in P, i <= k + 1
          PROVE  i \in N <=> \A j \in N : E(j) # i
      <4>1. i \in Nat /\ E(k + 1) > k + 1 /\ E(k + 1) \in Nat /\ k \in Nat
        BY <1>1, <1>2
      <4>2. E(k + 1) # i
        BY <3>2, <4>1
      <4>3. CASE i = k + 1
        BY <2>2, <4>2, <4>3
      <4>4. CASE i <= k
        <5>1. i \in M <=> \A j \in M : E(j) # i
          BY <2>1, <4>4
        <5>2. i # k + 1
          BY <4>1, <4>4
        <5>3. QED
          BY <4>2, <5>1, <5>2
      <4>5. QED
        BY <3>2, <4>1, <4>3, <4>4
    <3>3. Up(k + 1, N)
      BY <3>1, <3>2
    <3>4. \E L : Up(k + 1, L)
      <4> HIDE DEF Up, N
      <4> QED BY <3>3
    <3>5. k + 1 \in 0..n
      BY <1>1
    <3>6. QED
      BY <3>4, <3>5
  <2>3. CASE ~(k + 1 \in P /\ \A j \in M : E(j) # k + 1)
    <3>1. M \in SUBSET {i \in P : i <= k + 1}
      BY <1>1, <2>1
    <3>2. ASSUME NEW i \in P, i <= k + 1
          PROVE  i \in M <=> \A j \in M : E(j) # i
      <4>1. i \in Nat /\ k \in Nat
        BY <1>1
      <4>2. CASE i = k + 1
        <5>1. i \notin M
          BY <2>1, <4>1, <4>2
        <5>2. QED
          BY <2>3, <4>2, <5>1
      <4>3. CASE i <= k
        BY <2>1, <4>3
      <4>4. QED
        BY <3>2, <4>1, <4>2, <4>3
    <3>3. Up(k + 1, M)
      BY <3>1, <3>2
    <3>4. \E L : Up(k + 1, L)
      <4> HIDE DEF Up
      <4> QED BY <3>3
    <3>5. k + 1 \in 0..n
      BY <1>1
    <3>6. QED
      BY <3>4, <3>5
  <2>4. QED
    BY <2>2, <2>3
<1>5. n \in S
  <2> HIDE DEF S
  <2>1. \A k \in 0..n : k \in S
    BY <1>1, <1>3, <1>4, Climb
  <2>2. QED
    BY <1>1, <2>1
<1>6. PICK M : Up(n, M)
  BY <1>5
<1>7. M \in SUBSET P /\ \A i \in P : i \in M <=> \A j \in M : E(j) # i
  BY <1>1, <1>6
<1>8. \E taken \in SUBSET PlacesIn(x, cut, pair) :
         \A i \in PlacesIn(x, cut, pair) : i \in taken <=> \A j \in taken : End(x, cut, j) # i
  BY <1>7 DEF P, E
<1>9. QED
  BY <1>8 DEF Taken, LeftToRight

\* The rule leaves no choice: a first place the two sets differ at would be in both.
LEMMA TakenAt ==
    ASSUME NEW x \in Text, NEW cut \in SUBSET (1..Len(x)), NEW pair,
           NEW M, LeftToRight(x, cut, pair, M), NEW N, LeftToRight(x, cut, pair, N),
           NEW i \in M
    PROVE  i \in N
<1> DEFINE P    == PlacesIn(x, cut, pair)
           E(k) == End(x, cut, k)
           D    == {k \in P : ~(k \in M <=> k \in N)}
<1>1. P \in SUBSET (1..Len(x)) /\ Len(x) \in Nat
  BY DEF Text, PlacesIn
<1>2. \A k \in 1..Len(x) : E(k) \in Nat /\ E(k) > k
  <2> SUFFICES ASSUME NEW k \in 1..Len(x) PROVE E(k) \in Nat /\ E(k) > k
    OBVIOUS
  <2>1. E(k) \in (k + 1)..(Len(x) + 1)
    BY EndFacts
  <2>2. QED
    BY <1>1, <2>1
<1>3. /\ M \in SUBSET P /\ N \in SUBSET P
      /\ \A k \in P : k \in M <=> \A j \in M : E(j) # k
      /\ \A k \in P : k \in N <=> \A j \in N : E(j) # k
  BY DEF LeftToRight
<1> HIDE DEF P, E
<1>4. D = {}
  <2> SUFFICES ASSUME D # {} PROVE FALSE
    OBVIOUS
  <2>1. D \in SUBSET Nat
    <3>1. D \subseteq P
      OBVIOUS
    <3>2. P \subseteq Nat
      BY <1>1
    <3> HIDE DEF D
    <3>3. QED
      BY <3>1, <3>2
  <2>2. PICK k \in D : \A j \in D : k <= j
    BY <2>1, Least
  <2>3. k \in P /\ ~(k \in M <=> k \in N) /\ k \in Nat
    BY <1>1
  <2>4. ASSUME NEW j \in P, E(j) = k PROVE j \in M <=> j \in N
    <3>1. j \in Nat /\ j < k
      BY <1>1, <1>2, <2>4
    <3>2. j \notin D
      BY <2>2, <2>3, <3>1
    <3>3. QED
      BY <3>2
  <2>5. k \in M <=> k \in N
    BY <1>3, <2>3, <2>4
  <2>6. QED
    BY <2>3, <2>5
<1>5. QED
  BY <1>3, <1>4

LEMMA TakenIs ==
    ASSUME NEW x \in Text, NEW cut \in SUBSET (1..Len(x)), NEW pair,
           NEW M, LeftToRight(x, cut, pair, M)
    PROVE  Taken(x, cut, pair) = M
<1> DEFINE T == Taken(x, cut, pair)
<1>1. LeftToRight(x, cut, pair, T)
  BY TakenFound
<1> HIDE DEF T
<1>2. T \subseteq M /\ M \subseteq T
  BY <1>1, TakenAt
<1>3. QED
  BY <1>2 DEF T

-----------------------------------------------------------------------------
(* Words in which equal stretches are cut alike.                           *)

\* Stretches between cuts that read alike are cut alike.
AlikeIn(x, cx, y, cy) ==
    \A a \in cx, c \in cy, b \in Bounds(x, cx), d \in Bounds(y, cy) :
        a < b /\ c < d /\ Span(x, a, b) = Span(y, c, d)
            => \A i \in a..b : i \in Bounds(x, cx) <=> c + (i - a) \in Bounds(y, cy)

\* No token begins inside a stretch that reads t.
Whole(x, cx, t) ==
    \A a \in cx, b \in Bounds(x, cx) :
        a < b /\ Span(x, a, b) = t => \A i \in (a + 1)..(b - 1) : i \notin cx

LEMMA AlikeTwo ==
    ASSUME NEW x \in Text, NEW cx \in SUBSET (1..Len(x)),
           NEW y \in Text, NEW cy \in SUBSET (1..Len(y)), AlikeIn(x, cx, y, cy)
    PROVE  AlikeIn(y, cy, x, cx)
<1> SUFFICES ASSUME NEW a \in cy, NEW c \in cx, NEW b \in Bounds(y, cy), NEW d \in Bounds(x, cx),
                    a < b, c < d, Span(y, a, b) = Span(x, c, d), NEW i \in a..b
             PROVE  i \in Bounds(y, cy) <=> c + (i - a) \in Bounds(x, cx)
  BY DEF AlikeIn
<1>1. Len(x) \in Nat /\ Len(y) \in Nat
  BY DEF Text
<1>2. /\ a \in 1..Len(y) /\ c \in 1..Len(x)
      /\ b \in a..(Len(y) + 1) /\ d \in c..(Len(x) + 1)
  BY <1>1 DEF Bounds
<1>3. b - a = d - c
  BY <1>2, SpansEqual
<1> DEFINE k == c + (i - a)
<1>4. k \in c..d /\ a + (k - c) = i
  BY <1>1, <1>2, <1>3
<1> HIDE DEF k
<1>5. k \in Bounds(x, cx) <=> a + (k - c) \in Bounds(y, cy)
  BY <1>4 DEF AlikeIn
<1>6. QED
  BY <1>4, <1>5 DEF k

\* The tokens of two stretches that are cut alike.
LEMMA AlikeTokens ==
    ASSUME NEW x \in Text, NEW cx \in SUBSET (1..Len(x)),
           NEW y \in Text, NEW cy \in SUBSET (1..Len(y)), AlikeIn(x, cx, y, cy),
           NEW a \in cx, NEW c \in cy, NEW b \in Bounds(x, cx), NEW d \in Bounds(y, cy),
           a < b, c < d, Span(x, a, b) = Span(y, c, d),
           NEW i \in a..(b - 1), i \in cx
    PROVE  /\ c + (i - a) \in cy /\ c + (i - a) \in c..(d - 1)
           /\ End(x, cx, i) \in (i + 1)..b
           /\ End(y, cy, c + (i - a)) = c + (End(x, cx, i) - a)
           /\ TextAt(x, cx, i) = TextAt(y, cy, c + (i - a))
<1> DEFINE k == c + (i - a)
           e == End(x, cx, i)
           l == c + (e - a)
<1>1. Len(x) \in Nat /\ Len(y) \in Nat
  BY DEF Text
<1>2. /\ a \in 1..Len(x) /\ c \in 1..Len(y)
      /\ b \in a..(Len(x) + 1) /\ d \in c..(Len(y) + 1) /\ i \in 1..Len(x)
  BY <1>1 DEF Bounds
<1>3. b - a = d - c
  BY <1>2, SpansEqual
<1>4. /\ e \in (i + 1)..(Len(x) + 1) /\ e \in Bounds(x, cx)
      /\ \A j \in (i + 1)..(e - 1) : j \notin cx
  BY <1>2, EndFacts
<1> HIDE DEF e
<1>5. e \in (i + 1)..b
  <2>1. ~(b < e)
    <3> SUFFICES ASSUME b < e PROVE FALSE
      OBVIOUS
    <3>1. b \in (i + 1)..(e - 1) /\ b # Len(x) + 1
      BY <1>1, <1>2, <1>4
    <3>2. QED
      BY <1>4, <3>1 DEF Bounds
  <2>2. QED
    BY <1>1, <1>2, <1>4, <2>1
<1>6. /\ k \in c..(d - 1) /\ l \in (k + 1)..d
  BY <1>1, <1>2, <1>3, <1>5
<1>7. \A j \in a..b : j \in Bounds(x, cx) <=> c + (j - a) \in Bounds(y, cy)
  BY DEF AlikeIn
<1>8. k \in cy
  <2>1. i \in a..b /\ i \in Bounds(x, cx)
    BY <1>1, <1>2 DEF Bounds
  <2>2. k \in Bounds(y, cy)
    BY <1>7, <2>1
  <2>3. k # Len(y) + 1
    BY <1>1, <1>2, <1>6
  <2>4. QED
    BY <2>2, <2>3 DEF Bounds
<1>9. l \in Bounds(y, cy)
  <2>1. e \in a..b
    BY <1>1, <1>2, <1>5
  <2>2. QED
    BY <1>4, <1>7, <2>1
<1>10. ASSUME NEW m \in (k + 1)..(l - 1) PROVE m \notin cy
  <2> DEFINE j == a + (m - c)
  <2>1. /\ j \in (i + 1)..(e - 1) /\ j \in a..b /\ c + (j - a) = m /\ j # Len(x) + 1
        /\ m # Len(y) + 1
    BY <1>1, <1>2, <1>3, <1>5, <1>6
  <2> HIDE DEF j
  <2>2. j \notin Bounds(x, cx)
    BY <1>4, <2>1 DEF Bounds
  <2>3. m \notin Bounds(y, cy)
    BY <1>7, <2>1, <2>2
  <2>4. QED
    BY <2>3 DEF Bounds
<1>11. k \in 1..Len(y) /\ l \in (k + 1)..(Len(y) + 1)
  BY <1>1, <1>2, <1>6
<1>12. End(y, cy, k) = l
  <2> HIDE DEF k, l
  <2> QED BY <1>9, <1>10, <1>11, EndIs
<1>13. Span(x, i, e) = Span(y, k, l)
  <2>1. e \in i..b
    BY <1>1, <1>2, <1>5
  <2>2. QED
    BY <1>2, <2>1, SubSpans
<1>14. TextAt(x, cx, i) = TextAt(y, cy, k)
  BY <1>12, <1>13 DEF e, TextAt, Span
<1>15. QED
  BY <1>5, <1>6, <1>8, <1>12, <1>14 DEF e

LEMMA MergeWordFacts ==
    ASSUME NEW x \in Text, NEW cut \in SUBSET (1..Len(x)), NEW pair
    PROVE  /\ MergeWord(x, cut, pair) \in SUBSET cut
           /\ \A i \in cut : i \in MergeWord(x, cut, pair)
                                 <=> \A j \in Taken(x, cut, pair) : End(x, cut, j) # i
           /\ Taken(x, cut, pair) \in SUBSET PlacesIn(x, cut, pair)
           /\ PlacesIn(x, cut, pair) \in SUBSET cut
           /\ \A i \in PlacesIn(x, cut, pair) :
                 i \in Taken(x, cut, pair) <=> \A j \in Taken(x, cut, pair) : End(x, cut, j) # i
<1>1. LeftToRight(x, cut, pair, Taken(x, cut, pair))
  BY TakenFound
<1>2. PlacesIn(x, cut, pair) \subseteq cut
  BY DEF PlacesIn
<1>3. MergeWord(x, cut, pair) \subseteq cut
  BY DEF MergeWord
<1>4. \A i \in cut : i \in MergeWord(x, cut, pair)
                         <=> \A j \in Taken(x, cut, pair) : End(x, cut, j) # i
  BY DEF MergeWord
<1>5. QED
  BY <1>1, <1>2, <1>3, <1>4 DEF LeftToRight

\* A pair inside one of two stretches that are cut alike is one in the other.
LEMMA AlikePlaces ==
    ASSUME NEW x \in Text, NEW cx \in SUBSET (1..Len(x)),
           NEW y \in Text, NEW cy \in SUBSET (1..Len(y)), AlikeIn(x, cx, y, cy),
           NEW a \in cx, NEW c \in cy, NEW b \in Bounds(x, cx), NEW d \in Bounds(y, cy),
           a < b, c < d, Span(x, a, b) = Span(y, c, d), NEW pair,
           NEW i \in a..(b - 1), i \in PlacesIn(x, cx, pair), End(x, cx, i) < b
    PROVE  c + (i - a) \in PlacesIn(y, cy, pair)
<1> DEFINE e == End(x, cx, i)
           k == c + (i - a)
           l == c + (e - a)
<1>1. i \in cx /\ e \in cx /\ TextAt(x, cx, i) = pair[1] /\ TextAt(x, cx, e) = pair[2]
  BY DEF PlacesIn
<1>2. /\ k \in cy /\ End(y, cy, k) = l /\ TextAt(x, cx, i) = TextAt(y, cy, k)
      /\ e \in (i + 1)..b
  BY <1>1, AlikeTokens
<1>3. e \in a..(b - 1)
  <2>1. i \in Nat /\ a \in Nat /\ b \in Nat
    <3>1. Len(x) \in Nat /\ cx \subseteq 1..Len(x)
      BY DEF Text
    <3>2. QED
      BY <3>1 DEF Bounds
  <2> HIDE DEF e
  <2>2. e < b
    BY DEF e
  <2>3. QED
    BY <1>2, <2>1, <2>2
<1>4. l \in cy /\ TextAt(x, cx, e) = TextAt(y, cy, l)
  <2> HIDE DEF e, k
  <2> QED BY <1>1, <1>3, AlikeTokens DEF l
<1>5. QED
  BY <1>1, <1>2, <1>4 DEF PlacesIn

\* Two stretches of cut words that begin and end with merged tokens.
Stretches(x, cx, y, cy, a, b, c, d) ==
    /\ a \in cx /\ c \in cy /\ b \in Bounds(x, cx) /\ d \in Bounds(y, cy)
    /\ a < b /\ c < d /\ Span(x, a, b) = Span(y, c, d)

LEMMA StretchTypes ==
    ASSUME NEW x \in Text, NEW cx \in SUBSET (1..Len(x)),
           NEW y \in Text, NEW cy \in SUBSET (1..Len(y)),
           NEW a, NEW b, NEW c, NEW d, Stretches(x, cx, y, cy, a, b, c, d)
    PROVE  /\ Len(x) \in Nat /\ Len(y) \in Nat
           /\ a \in 1..Len(x) /\ b \in (a + 1)..(Len(x) + 1)
           /\ c \in 1..Len(y) /\ d \in (c + 1)..(Len(y) + 1) /\ b - a = d - c
           /\ Stretches(y, cy, x, cx, c, d, a, b)
<1>1. Len(x) \in Nat /\ Len(y) \in Nat
  BY DEF Text
<1>2. /\ a \in 1..Len(x) /\ b \in (a + 1)..(Len(x) + 1)
      /\ c \in 1..Len(y) /\ d \in (c + 1)..(Len(y) + 1)
  BY <1>1 DEF Bounds, Stretches
<1>3. b - a = d - c
  <2>1. b \in a..(Len(x) + 1) /\ d \in c..(Len(y) + 1) /\ Span(x, a, b) = Span(y, c, d)
    BY <1>1, <1>2 DEF Stretches
  <2>2. QED
    BY <1>2, <2>1, SpansEqual
<1>4. QED
  BY <1>1, <1>2, <1>3 DEF Stretches

LEMMA AlikeTaken ==
    ASSUME NEW x \in Text, NEW cx \in SUBSET (1..Len(x)),
           NEW y \in Text, NEW cy \in SUBSET (1..Len(y)),
           AlikeIn(x, cx, y, cy), NEW pair, NEW a, NEW b, NEW c, NEW d,
           Stretches(x, cx, y, cy, a, b, c, d),
           a \in MergeWord(x, cx, pair), c \in MergeWord(y, cy, pair),
           NEW i \in a..(b - 1), i \in Taken(x, cx, pair), End(x, cx, i) < b
    PROVE  c + (i - a) \in Taken(y, cy, pair)
<1> DEFINE T == Taken(x, cx, pair)
           U == Taken(y, cy, pair)
           P == PlacesIn(x, cx, pair)
           Q == PlacesIn(y, cy, pair)
           E(k) == End(x, cx, k)
           F(k) == End(y, cy, k)
           To(k) == c + (k - a)
           Back(k) == a + (k - c)
           D == {k \in a..(b - 1) : k \in P /\ E(k) < b /\ ~(k \in T <=> To(k) \in U)}
<1>1. /\ Len(x) \in Nat /\ Len(y) \in Nat
      /\ a \in 1..Len(x) /\ b \in (a + 1)..(Len(x) + 1)
      /\ c \in 1..Len(y) /\ d \in (c + 1)..(Len(y) + 1) /\ b - a = d - c
      /\ a \in cx /\ c \in cy /\ b \in Bounds(x, cx) /\ d \in Bounds(y, cy)
      /\ a < b /\ c < d /\ Span(x, a, b) = Span(y, c, d)
  BY StretchTypes DEF Stretches
<1>2. AlikeIn(y, cy, x, cx)
  BY AlikeTwo
<1>3. ASSUME NEW k \in a..(b - 1), k \in cx
      PROVE  To(k) \in cy /\ To(k) \in c..(d - 1) /\ E(k) \in (k + 1)..b /\ F(To(k)) = To(E(k))
  BY <1>1, <1>3, AlikeTokens
<1>4. ASSUME NEW k \in c..(d - 1), k \in cy
      PROVE  /\ Back(k) \in cx /\ Back(k) \in a..(b - 1) /\ F(k) \in (k + 1)..d
             /\ E(Back(k)) = Back(F(k))
  BY <1>1, <1>2, <1>4, AlikeTokens
<1>5. ASSUME NEW k \in a..(b - 1), k \in P, E(k) < b PROVE To(k) \in Q
  BY <1>1, <1>5, AlikePlaces
<1>6. /\ T \in SUBSET P /\ P \in SUBSET cx /\ \A k \in P : k \in T <=> \A j \in T : E(j) # k
      /\ \A j \in T : E(j) # a
  BY <1>1, MergeWordFacts
<1>7. /\ U \in SUBSET Q /\ Q \in SUBSET cy /\ \A k \in Q : k \in U <=> \A j \in U : F(j) # k
      /\ \A j \in U : F(j) # c
  BY <1>1, MergeWordFacts
<1>8. \A j \in cx : j < a => E(j) <= a
  BY <1>1, EndsApart
<1>9. \A j \in cy : j < c => F(j) <= c
  BY <1>1, EndsApart
<1>10. \A j \in cx : E(j) \in (j + 1)..(Len(x) + 1)
  <2> SUFFICES ASSUME NEW j \in cx PROVE E(j) \in (j + 1)..(Len(x) + 1)
    OBVIOUS
  <2>1. j \in 1..Len(x)
    OBVIOUS
  <2>2. QED
    BY <2>1, EndFacts
<1>11. \A j \in cy : F(j) \in (j + 1)..(Len(y) + 1)
  <2> SUFFICES ASSUME NEW j \in cy PROVE F(j) \in (j + 1)..(Len(y) + 1)
    OBVIOUS
  <2>1. j \in 1..Len(y)
    OBVIOUS
  <2>2. QED
    BY <2>1, EndFacts
<1>12. cx \subseteq Nat /\ cy \subseteq Nat
  BY <1>1
<1> HIDE DEF T, U, P, Q, E, F
<1>13. D = {}
  <2> SUFFICES ASSUME D # {} PROVE FALSE
    OBVIOUS
  <2>1. D \in SUBSET Nat
    <3>1. D \subseteq a..(b - 1)
      OBVIOUS
    <3>2. a..(b - 1) \subseteq Nat
      BY <1>1
    <3> HIDE DEF D
    <3>3. QED
      BY <3>1, <3>2
  <2>2. PICK k \in D : \A j \in D : k <= j
    BY <2>1, Least
  <2>3. k \in a..(b - 1) /\ k \in P /\ E(k) < b /\ ~(k \in T <=> To(k) \in U)
    OBVIOUS
  <2> HIDE DEF D
  <2>4. To(k) \in Q /\ k \in cx /\ k \in Nat /\ To(k) \in c..(d - 1)
    BY <1>1, <1>3, <1>5, <1>6, <2>3
  <2>5. ASSUME NEW j \in T, E(j) = k PROVE To(j) \in U /\ F(To(j)) = To(k)
    <3>1. j \in cx /\ j \in Nat /\ j < k
      BY <1>6, <1>10, <1>12, <2>5
    <3>2. ~(j < a)
      <4>1. k # a
        BY <1>6, <2>5
      <4>2. QED
        BY <1>1, <1>8, <2>3, <2>4, <2>5, <3>1, <4>1
    <3>3. j \in a..(b - 1) /\ j \in P /\ E(j) < b
      BY <1>1, <1>6, <2>3, <2>5, <3>1, <3>2
    <3>4. j \notin D
      BY <2>2, <2>4, <3>1
    <3>5. To(j) \in U
      BY <2>5, <3>3, <3>4 DEF D
    <3>6. F(To(j)) = To(E(j))
      BY <1>3, <3>1, <3>3
    <3>7. QED
      BY <2>5, <3>5, <3>6
  <2>6. ASSUME NEW j \in U, F(j) = To(k) PROVE Back(j) \in T /\ E(Back(j)) = k
    <3>1. j \in cy /\ j \in Nat /\ j < To(k) /\ To(k) \in Nat /\ To(k) # c
      BY <1>1, <1>7, <1>11, <1>12, <2>4, <2>6
    <3>2. ~(j < c)
      BY <1>1, <1>9, <2>4, <2>6, <3>1
    <3>3. j \in c..(d - 1)
      BY <1>1, <2>4, <3>1, <3>2
    <3>4. /\ Back(j) \in cx /\ Back(j) \in a..(b - 1) /\ E(Back(j)) = Back(F(j))
      BY <1>4, <3>1, <3>3
    <3>5. Back(To(k)) = k /\ To(Back(j)) = j
      BY <1>1, <2>4, <3>1
    <3>6. E(Back(j)) = k
      BY <2>6, <3>4, <3>5
    <3>7. Back(j) \in P
      <4>1. j \in Q /\ F(j) < d
        BY <1>1, <1>7, <2>4, <2>6
      <4>2. Back(j) \in P
        BY <1>1, <1>2, <3>3, <4>1, AlikePlaces DEF P, Q, F
      <4>3. QED
        BY <4>2
    <3>8. Back(j) \notin D
      <4>1. Back(j) < k
        BY <1>1, <2>4, <3>1
      <4>2. Back(j) \in Nat
        BY <1>1, <3>4
      <4>3. QED
        BY <2>2, <2>4, <4>1, <4>2
    <3>9. Back(j) \in T <=> To(Back(j)) \in U
      <4> DEFINE m == Back(j)
      <4>1. m \in a..(b - 1) /\ m \in P /\ E(m) < b /\ m \notin D
        BY <1>1, <2>3, <2>4, <3>4, <3>6, <3>7, <3>8
      <4> HIDE DEF m
      <4>2. m \in T <=> To(m) \in U
        BY <4>1 DEF D
      <4>3. QED
        BY <4>2 DEF m
    <3>10. QED
      BY <3>5, <3>6, <3>9
  <2>7. k \in T <=> \A j \in T : E(j) # k
    BY <1>6, <2>3
  <2>8. To(k) \in U <=> \A j \in U : F(j) # To(k)
    BY <1>7, <2>4
  <2>9. (\E j \in T : E(j) = k) <=> (\E j \in U : F(j) = To(k))
    BY <2>5, <2>6
  <2>10. QED
    BY <2>3, <2>7, <2>8, <2>9
<1>14. i \in P /\ E(i) < b /\ i \in T
  BY <1>6 DEF T, E
<1>15. To(i) \in U
  BY <1>13, <1>14
<1>16. QED
  BY <1>15 DEF U

\* Merging keeps words alike: whether a token is merged depends on what stands before
\* it only from the last place on at which the cut remains.
LEMMA MergedAlike ==
    ASSUME NEW x \in Text, NEW cx \in SUBSET (1..Len(x)),
           NEW y \in Text, NEW cy \in SUBSET (1..Len(y)), AlikeIn(x, cx, y, cy), NEW pair
    PROVE  AlikeIn(x, MergeWord(x, cx, pair), y, MergeWord(y, cy, pair))
<1> DEFINE mx == MergeWord(x, cx, pair)
           my == MergeWord(y, cy, pair)
<1>1. /\ mx \in SUBSET cx
      /\ \A k \in cx : k \in mx <=> \A j \in Taken(x, cx, pair) : End(x, cx, j) # k
      /\ Taken(x, cx, pair) \in SUBSET cx
  BY MergeWordFacts
<1>2. /\ my \in SUBSET cy
      /\ \A k \in cy : k \in my <=> \A j \in Taken(y, cy, pair) : End(y, cy, j) # k
      /\ Taken(y, cy, pair) \in SUBSET cy
  BY MergeWordFacts
<1> HIDE DEF mx, my
<1> SUFFICES ASSUME NEW a \in mx, NEW c \in my, NEW b \in Bounds(x, mx), NEW d \in Bounds(y, my),
                    a < b, c < d, Span(x, a, b) = Span(y, c, d), NEW i \in a..b
             PROVE  i \in Bounds(x, mx) <=> c + (i - a) \in Bounds(y, my)
  BY DEF AlikeIn, mx, my
<1> DEFINE k == c + (i - a)
<1>3. Stretches(x, cx, y, cy, a, b, c, d)
  BY <1>1, <1>2 DEF Stretches, Bounds
<1>4. /\ Len(x) \in Nat /\ Len(y) \in Nat
      /\ a \in 1..Len(x) /\ b \in (a + 1)..(Len(x) + 1)
      /\ c \in 1..Len(y) /\ d \in (c + 1)..(Len(y) + 1) /\ b - a = d - c
      /\ Stretches(y, cy, x, cx, c, d, a, b)
  BY <1>3, StretchTypes
<1>5. AlikeIn(y, cy, x, cx)
  BY AlikeTwo
<1>6. a \in cx /\ c \in cy /\ a \in mx /\ c \in my
  BY <1>1, <1>2
<1>7. CASE i = a
  <2>1. k = c
    BY <1>4, <1>7
  <2>2. QED
    BY <1>7, <2>1 DEF Bounds
<1>8. CASE i = b
  <2>1. k = d
    BY <1>4, <1>8
  <2>2. QED
    BY <1>8, <2>1 DEF Bounds
<1>9. CASE i \in (a + 1)..(b - 1)
  <2>1. /\ i \in a..(b - 1) /\ i \in Nat /\ i # Len(x) + 1 /\ i # a /\ i < b
        /\ k \in c..(d - 1) /\ k \in Nat /\ k # Len(y) + 1 /\ k # c /\ k < d
        /\ a + (k - c) = i
    BY <1>4, <1>9
  <2> HIDE DEF k
  <2>2. i \in cx <=> k \in cy
    <3>1. i \in Bounds(x, cx) <=> k \in Bounds(y, cy)
      BY <1>3 DEF AlikeIn, Stretches, k
    <3>2. QED
      BY <2>1, <3>1 DEF Bounds
  <2>3. ASSUME i \in cx, NEW j \in Taken(x, cx, pair), End(x, cx, j) = i
        PROVE  \E l \in Taken(y, cy, pair) : End(y, cy, l) = k
    <3>1. j \in cx /\ j \in Nat /\ End(x, cx, j) \in (j + 1)..(Len(x) + 1)
      <4>1. j \in cx /\ j \in 1..Len(x)
        BY <1>1
      <4>2. End(x, cx, j) \in (j + 1)..(Len(x) + 1)
        BY <4>1, EndFacts
      <4>3. QED
        BY <1>4, <4>1, <4>2
    <3>2. ~(j < a)
      <4>1. j < a => End(x, cx, j) <= a
        BY <1>6, <3>1, EndsApart
      <4>2. QED
        BY <1>4, <2>1, <2>3, <4>1
    <3>3. j \in a..(b - 1) /\ End(x, cx, j) < b
      BY <1>4, <2>1, <2>3, <3>1, <3>2
    <3>4. c + (j - a) \in Taken(y, cy, pair)
      BY <1>3, <1>6, <3>3, AlikeTaken DEF mx, my
    <3>5. End(y, cy, c + (j - a)) = c + (End(x, cx, j) - a)
      BY <1>3, <3>1, <3>3, AlikeTokens DEF Stretches
    <3>6. QED
      BY <2>3, <3>4, <3>5 DEF k
  <2>4. ASSUME k \in cy, NEW j \in Taken(y, cy, pair), End(y, cy, j) = k
        PROVE  \E l \in Taken(x, cx, pair) : End(x, cx, l) = i
    <3>1. j \in cy /\ j \in Nat /\ End(y, cy, j) \in (j + 1)..(Len(y) + 1)
      <4>1. j \in cy /\ j \in 1..Len(y)
        BY <1>2
      <4>2. End(y, cy, j) \in (j + 1)..(Len(y) + 1)
        BY <4>1, EndFacts
      <4>3. QED
        BY <1>4, <4>1, <4>2
    <3>2. ~(j < c)
      <4>1. j < c => End(y, cy, j) <= c
        BY <1>6, <3>1, EndsApart
      <4>2. QED
        BY <1>4, <2>1, <2>4, <4>1
    <3>3. j \in c..(d - 1) /\ End(y, cy, j) < d
      BY <1>4, <2>1, <2>4, <3>1, <3>2
    <3>4. a + (j - c) \in Taken(x, cx, pair)
      BY <1>4, <1>5, <1>6, <3>3, AlikeTaken DEF mx, my
    <3>5. End(x, cx, a + (j - c)) = a + (End(y, cy, j) - c)
      BY <1>4, <1>5, <3>1, <3>3, AlikeTokens DEF Stretches
    <3>6. QED
      BY <2>1, <2>4, <3>4, <3>5
  <2>5. i \in cx => (i \in mx <=> k \in my)
    BY <1>1, <1>2, <2>2, <2>3, <2>4
  <2>6. i \in mx <=> k \in my
    BY <1>1, <1>2, <2>2, <2>5
  <2>7. i \in Bounds(x, mx) <=> k \in Bounds(y, my)
    BY <2>1, <2>6 DEF Bounds
  <2>8. QED
    BY <2>7 DEF k
<1>10. QED
  BY <1>4, <1>7, <1>8, <1>9

-----------------------------------------------------------------------------
LEMMA AlikeFirst ==
    ASSUME NEW x \in Text, NEW cx \in SUBSET (1..Len(x)),
           NEW y \in Text, NEW cy \in SUBSET (1..Len(y)), AlikeIn(x, cx, y, cy),
           NEW a \in cx, NEW c \in cy, NEW b \in Bounds(x, cx), NEW d \in Bounds(y, cy),
           a < b, c < d, Span(x, a, b) = Span(y, c, d)
    PROVE  /\ End(y, cy, c) = c + (End(x, cx, a) - a)
           /\ TextAt(x, cx, a) = TextAt(y, cy, c)
<1>1. a \in Nat /\ b \in Nat /\ c \in Nat
  <2>1. Len(x) \in Nat
    BY DEF Text
  <2>2. QED
    BY <2>1 DEF Bounds
<1>2. ASSUME NEW i \in a..(b - 1), i \in cx
      PROVE  /\ End(y, cy, c + (i - a)) = c + (End(x, cx, i) - a)
             /\ TextAt(x, cx, i) = TextAt(y, cy, c + (i - a))
  BY <1>2, AlikeTokens
<1>3. a \in a..(b - 1) /\ c + (a - a) = c
  BY <1>1
<1>4. QED
  BY <1>2, <1>3

\* Place i, where a pair stands that is parted at e and ends at f.
PairStands(x, cx, pair, i, e, f) ==
    /\ i \in cx /\ i \in 1..Len(x) /\ e \in cx /\ e \in (i + 1)..Len(x)
    /\ f \in (e + 1)..(Len(x) + 1) /\ f \in Bounds(x, cx)
    /\ Span(x, i, e) = pair[1] /\ Span(x, e, f) = pair[2]
    /\ Span(x, i, f) = Merged(pair)
    /\ pair[1] \in Text /\ pair[2] \in Text
    /\ Len(pair[1]) = e - i /\ Len(pair[2]) = f - e
    /\ \A k \in (i + 1)..(f - 1) : k \in cx <=> k = e

LEMMA PlaceFacts ==
    ASSUME NEW x \in Text, NEW cx \in SUBSET (1..Len(x)), NEW pair,
           NEW i \in PlacesIn(x, cx, pair)
    PROVE  PairStands(x, cx, pair, i, End(x, cx, i), End(x, cx, End(x, cx, i)))
<1> DEFINE e == End(x, cx, i)
           f == End(x, cx, e)
<1>1. Len(x) \in Nat
  BY DEF Text
<1>2. /\ i \in cx /\ e \in cx /\ TextAt(x, cx, i) = pair[1] /\ TextAt(x, cx, e) = pair[2]
      /\ i \in 1..Len(x) /\ e \in 1..Len(x)
  BY DEF PlacesIn
<1>3. /\ e \in (i + 1)..(Len(x) + 1) /\ \A k \in (i + 1)..(e - 1) : k \notin cx
  BY <1>2, EndFacts
<1>4. /\ f \in (e + 1)..(Len(x) + 1) /\ f \in Bounds(x, cx)
      /\ \A k \in (e + 1)..(f - 1) : k \notin cx
  BY <1>2, EndFacts
<1>5. Span(x, i, e) = pair[1] /\ Span(x, e, f) = pair[2]
  BY <1>2 DEF TextAt, Span
<1> HIDE DEF e, f
<1>6. /\ e \in (i + 1)..Len(x) /\ e \in i..(Len(x) + 1) /\ f \in e..(Len(x) + 1)
  BY <1>1, <1>2, <1>3, <1>4
<1>7. Span(x, i, f) = Merged(pair)
  <2>1. Span(x, i, e) \o Span(x, e, f) = Span(x, i, f)
    BY <1>2, <1>4, <1>6, SpanJoin
  <2>2. QED
    BY <1>5, <2>1 DEF Merged
<1>8. /\ pair[1] \in Text /\ Len(pair[1]) = e - i
  <2>1. Span(x, i, e) \in Text /\ Len(Span(x, i, e)) = e - i
    BY <1>2, <1>6, SpanFacts
  <2>2. QED
    BY <1>5, <2>1
<1>9. /\ pair[2] \in Text /\ Len(pair[2]) = f - e
  <2>1. Span(x, e, f) \in Text /\ Len(Span(x, e, f)) = f - e
    BY <1>2, <1>6, SpanFacts
  <2>2. QED
    BY <1>5, <2>1
<1>10. \A k \in (i + 1)..(f - 1) : k \in cx <=> k = e
  BY <1>1, <1>2, <1>3, <1>4
<1>11. QED
  BY <1>2, <1>4, <1>5, <1>6, <1>7, <1>8, <1>9, <1>10 DEF e, f, PairStands

\* Once a pair has been merged, what reads like the merged text is one token.
LEMMA MergedWhole ==
    ASSUME NEW x \in Text, NEW cx \in SUBSET (1..Len(x)),
           NEW y \in Text, NEW cy \in SUBSET (1..Len(y)), AlikeIn(x, cx, y, cy), NEW pair,
           PlacesIn(y, cy, pair) # {}
    PROVE  Whole(x, MergeWord(x, cx, pair), Merged(pair))
<1> DEFINE mx == MergeWord(x, cx, pair)
<1>1. /\ mx \in SUBSET cx
      /\ \A k \in cx : k \in mx <=> \A j \in Taken(x, cx, pair) : End(x, cx, j) # k
      /\ Taken(x, cx, pair) \in SUBSET PlacesIn(x, cx, pair)
      /\ \A k \in PlacesIn(x, cx, pair) :
            k \in Taken(x, cx, pair) <=> \A j \in Taken(x, cx, pair) : End(x, cx, j) # k
  BY MergeWordFacts
<1> HIDE DEF mx
<1> SUFFICES ASSUME NEW a \in mx, NEW b \in Bounds(x, mx), a < b, Span(x, a, b) = Merged(pair),
                    NEW i \in (a + 1)..(b - 1), i \in mx
             PROVE  FALSE
  BY DEF Whole, mx
<1>2. PICK q \in PlacesIn(y, cy, pair) : TRUE
  OBVIOUS
<1> DEFINE e == End(y, cy, q)
           f == End(y, cy, e)
<1>3. /\ q \in cy /\ q \in 1..Len(y) /\ e \in cy /\ e \in (q + 1)..Len(y)
      /\ f \in (e + 1)..(Len(y) + 1) /\ f \in Bounds(y, cy)
      /\ Span(y, q, e) = pair[1] /\ Span(y, e, f) = pair[2]
      /\ Span(y, q, f) = Merged(pair)
      /\ \A k \in (q + 1)..(f - 1) : k \in cy <=> k = e
      /\ TextAt(y, cy, q) = pair[1] /\ TextAt(y, cy, e) = pair[2]
  <2>1. TextAt(y, cy, q) = pair[1] /\ TextAt(y, cy, e) = pair[2]
    BY <1>2 DEF PlacesIn
  <2>2. PairStands(y, cy, pair, q, e, f)
    BY <1>2, PlaceFacts
  <2> HIDE DEF e, f
  <2>3. QED
    BY <2>1, <2>2 DEF PairStands
<1>4. AlikeIn(y, cy, x, cx)
  BY AlikeTwo
<1>5. Len(x) \in Nat /\ Len(y) \in Nat
  BY DEF Text
<1>6. Stretches(y, cy, x, cx, q, f, a, b)
  BY <1>1, <1>3, <1>5 DEF Stretches, Bounds
<1>7. /\ a \in 1..Len(x) /\ b \in (a + 1)..(Len(x) + 1)
      /\ q \in 1..Len(y) /\ f \in (q + 1)..(Len(y) + 1) /\ f - q = b - a
  BY <1>6, StretchTypes
<1>8. e \in q..(f - 1) /\ q \in q..(f - 1)
  BY <1>3, <1>5, <1>7
<1> DEFINE k == a + (e - q)
<1> HIDE DEF f
<1>9. End(x, cx, a) = k /\ TextAt(x, cx, a) = pair[1]
  <2>1. End(x, cx, a) = a + (End(y, cy, q) - q) /\ TextAt(y, cy, q) = TextAt(x, cx, a)
    BY <1>3, <1>4, <1>6, AlikeFirst DEF Stretches
  <2>2. QED
    BY <1>3, <2>1
<1>10. k \in cx /\ TextAt(x, cx, k) = pair[2] /\ End(x, cx, k) = a + (f - q)
  <2> HIDE DEF e
  <2>1. /\ k \in cx /\ End(x, cx, k) = a + (End(y, cy, e) - q)
        /\ TextAt(y, cy, e) = TextAt(x, cx, k)
    BY <1>3, <1>4, <1>6, <1>8, AlikeTokens DEF Stretches
  <2>2. QED
    BY <1>3, <2>1 DEF f
<1> HIDE DEF e, k
<1>11. a \in PlacesIn(x, cx, pair)
  BY <1>1, <1>9, <1>10 DEF PlacesIn
<1>12. a \in Taken(x, cx, pair)
  BY <1>1, <1>11
<1>13. k \notin mx
  BY <1>1, <1>9, <1>10, <1>12
<1>14. i \in cx /\ i \in Nat /\ i > a /\ i < b
  BY <1>1, <1>5, <1>7
<1>15. /\ k \in (a + 1)..(Len(x) + 1) /\ \A j \in (a + 1)..(k - 1) : j \notin cx
  BY <1>7, <1>9, EndFacts
<1>16. /\ \A j \in (k + 1)..(End(x, cx, k) - 1) : j \notin cx
  BY <1>10, EndFacts
<1>17. End(x, cx, k) = b
  BY <1>5, <1>7, <1>10
<1>18. i = k
  BY <1>14, <1>15, <1>16, <1>17
<1>19. QED
  BY <1>13, <1>18

\* The merged text is a new one.
LEMMA MergedNew ==
    ASSUME NEW x \in Text, NEW cx \in SUBSET (1..Len(x)), NEW pair,
           PlacesIn(x, cx, pair) # {}
    PROVE  ~Whole(x, cx, Merged(pair))
<1>1. PICK i \in PlacesIn(x, cx, pair) : TRUE
  OBVIOUS
<1> DEFINE e == End(x, cx, i)
           f == End(x, cx, e)
<1>2. /\ i \in cx /\ i \in 1..Len(x) /\ e \in cx /\ e \in (i + 1)..Len(x)
      /\ f \in (e + 1)..(Len(x) + 1) /\ f \in Bounds(x, cx)
      /\ Span(x, i, f) = Merged(pair)
  <2>1. PairStands(x, cx, pair, i, e, f)
    BY <1>1, PlaceFacts
  <2> HIDE DEF e, f
  <2>2. QED
    BY <2>1 DEF PairStands
<1>3. Len(x) \in Nat
  BY DEF Text
<1> HIDE DEF e, f
<1>4. i < f /\ e \in (i + 1)..(f - 1)
  BY <1>2, <1>3
<1>5. QED
  BY <1>2, <1>4 DEF Whole

LEMMA MergedStaysWhole ==
    ASSUME NEW x \in Text, NEW cx \in SUBSET (1..Len(x)), NEW pair, NEW t, Whole(x, cx, t)
    PROVE  Whole(x, MergeWord(x, cx, pair), t)
<1>1. MergeWord(x, cx, pair) \subseteq cx
  BY MergeWordFacts
<1>2. Bounds(x, MergeWord(x, cx, pair)) \subseteq Bounds(x, cx)
  BY <1>1 DEF Bounds
<1>3. QED
  BY <1>1, <1>2 DEF Whole

-----------------------------------------------------------------------------
(* Merging one occurrence of a pair at a time.                             *)

\* The cut once the occurrence at p has been merged.
Without(x, cx, p) == cx \ {End(x, cx, p)}

LEMMA OneCut ==
    ASSUME NEW x \in Text, NEW cx \in SUBSET (1..Len(x)), NEW pair,
           NEW p \in PlacesIn(x, cx, pair)
    PROVE  /\ Without(x, cx, p) \in SUBSET (1..Len(x))
           /\ End(x, Without(x, cx, p), p) = End(x, cx, End(x, cx, p))
           /\ TextAt(x, Without(x, cx, p), p) = Merged(pair)
           /\ \A i \in Without(x, cx, p) : i # p =>
                 /\ End(x, Without(x, cx, p), i) = End(x, cx, i)
                 /\ TextAt(x, Without(x, cx, p), i) = TextAt(x, cx, i)
<1> DEFINE e  == End(x, cx, p)
           f  == End(x, cx, e)
           dx == Without(x, cx, p)
<1>1. PairStands(x, cx, pair, p, e, f)
  BY PlaceFacts
<1>2. dx = cx \ {e} /\ dx \in SUBSET (1..Len(x))
  BY DEF Without
<1>3. Len(x) \in Nat
  BY DEF Text
<1> HIDE DEF f, dx
<1>4. /\ p \in 1..Len(x) /\ f \in (p + 1)..(Len(x) + 1) /\ f \in Bounds(x, dx)
      /\ \A k \in (p + 1)..(f - 1) : k \notin dx
  <2> HIDE DEF e
  <2> QED BY <1>1, <1>2, <1>3 DEF PairStands, Bounds
<1>5. End(x, dx, p) = f
  BY <1>2, <1>4, EndIs
<1>6. TextAt(x, dx, p) = Merged(pair)
  <2>1. Span(x, p, f) = Merged(pair)
    BY <1>1 DEF PairStands
  <2>2. QED
    BY <1>5, <2>1 DEF TextAt, Span
<1>7. ASSUME NEW i \in dx, i # p
      PROVE  End(x, dx, i) = End(x, cx, i) /\ TextAt(x, dx, i) = TextAt(x, cx, i)
  <2> DEFINE g == End(x, cx, i)
  <2>1. i \in 1..Len(x) /\ i \in cx /\ i # e
    BY <1>2
  <2>2. g \in (i + 1)..(Len(x) + 1) /\ g \in Bounds(x, cx)
    BY <2>1, EndFacts
  <2>3. \A k \in (i + 1)..(g - 1) : k \notin cx
    BY <2>1, EndFacts
  <2>4. g # e
    <3>1. p \in cx
      BY <1>1 DEF PairStands
    <3>2. p \in 1..Len(x)
      BY <3>1
    <3>3. i < p => g <= p
      BY <2>1, <3>1, EndsApart
    <3>4. p < i => e < g
      BY <2>1, <3>1, EndsApart
    <3>5. e \in (p + 1)..(Len(x) + 1)
      BY <3>2, EndFacts
    <3> HIDE DEF g, e
    <3>6. QED
      BY <1>3, <1>7, <2>1, <2>2, <3>2, <3>3, <3>4, <3>5
  <2> HIDE DEF g
  <2>5. g \in Bounds(x, dx) /\ \A k \in (i + 1)..(g - 1) : k \notin dx
    <3> HIDE DEF e
    <3> QED BY <1>2, <2>2, <2>3, <2>4 DEF Bounds
  <2>6. End(x, dx, i) = g
    BY <1>2, <2>1, <2>2, <2>5, EndIs
  <2>7. QED
    BY <2>6 DEF g, TextAt
<1>8. QED
  BY <1>2, <1>5, <1>6, <1>7 DEF f, dx

\* The left-hand neighbour of p is no occurrence: p is the next to be merged.
LEMMA OneMerged ==
    ASSUME NEW x \in Text, NEW cx \in SUBSET (1..Len(x)), NEW pair,
           NEW p \in PlacesIn(x, cx, pair),
           \A j \in PlacesIn(x, cx, pair) : End(x, cx, j) # p
    PROVE  MergeWord(x, Without(x, cx, p), pair) = MergeWord(x, cx, pair)
<1> DEFINE e  == End(x, cx, p)
           f  == End(x, cx, e)
           dx == Without(x, cx, p)
           P  == PlacesIn(x, cx, pair)
           Q  == PlacesIn(x, dx, pair)
           T  == Taken(x, cx, pair)
           U  == T \ {p}
           E(i) == End(x, cx, i)
           F(i) == End(x, dx, i)
           A(i) == TextAt(x, cx, i)
           B(i) == TextAt(x, dx, i)
<1>1. PairStands(x, cx, pair, p, e, f)
  BY PlaceFacts
<1>2. /\ dx \in SUBSET (1..Len(x)) /\ F(p) = f /\ B(p) = Merged(pair)
      /\ \A i \in dx : i # p => F(i) = E(i) /\ B(i) = A(i)
  BY OneCut
<1>3. dx = cx \ {e}
  BY DEF Without
<1>4. Len(x) \in Nat
  BY DEF Text
<1>5. p \in cx /\ p \in Nat /\ e \in cx /\ e \in Nat /\ f \in Nat /\ p < e /\ e < f /\ p \in dx
  <2> HIDE DEF e, f
  <2> QED BY <1>1, <1>3, <1>4 DEF PairStands
<1>6. Merged(pair) # pair[1] /\ Merged(pair) # pair[2]
  <2>1. pair[1] \in Text /\ pair[2] \in Text /\ Len(pair[1]) > 0 /\ Len(pair[2]) > 0
    <3> HIDE DEF e, f
    <3> QED BY <1>1, <1>4, <1>5 DEF PairStands
  <2>2. Len(Merged(pair)) = Len(pair[1]) + Len(pair[2]) /\ Len(pair[1]) \in Nat /\ Len(pair[2]) \in Nat
    BY <2>1, TextsJoined DEF Merged
  <2>3. Len(Merged(pair)) # Len(pair[1]) /\ Len(Merged(pair)) # Len(pair[2])
    <3> DEFINE l == Len(pair[1])
               r == Len(pair[2])
    <3>1. l \in Nat /\ r \in Nat /\ l > 0 /\ r > 0 /\ Len(Merged(pair)) = l + r
      BY <2>1, <2>2
    <3> HIDE DEF l, r
    <3>2. Len(Merged(pair)) # l /\ Len(Merged(pair)) # r
      BY <3>1
    <3>3. QED
      BY <3>2 DEF l, r
  <2>4. QED
    BY <2>3
<1>7. /\ P \in SUBSET cx
      /\ \A i \in cx : i \in P <=> A(i) = pair[1] /\ E(i) \in cx /\ A(E(i)) = pair[2]
  BY DEF PlacesIn
<1>8. /\ Q \in SUBSET dx
      /\ \A i \in dx : i \in Q <=> B(i) = pair[1] /\ F(i) \in dx /\ B(F(i)) = pair[2]
  BY DEF PlacesIn
<1>9. /\ T \in SUBSET P /\ \A i \in P : i \in T <=> \A j \in T : E(j) # i
  BY MergeWordFacts
<1>10. \A j \in cx : j # p => E(j) # e
  <2> SUFFICES ASSUME NEW j \in cx, j # p PROVE E(j) # e
    OBVIOUS
  <2>1. j < p => E(j) <= p
    BY <1>5, EndsApart
  <2>2. p < j => e < E(j)
    BY <1>5, EndsApart
  <2>3. j \in 1..Len(x)
    OBVIOUS
  <2>4. E(j) \in (j + 1)..(Len(x) + 1)
    BY <2>3, EndFacts
  <2> HIDE DEF e, E
  <2>5. QED
    BY <1>4, <1>5, <2>1, <2>2, <2>3, <2>4
<1>11. P \in SUBSET cx /\ p \in P /\ (\A j \in P : E(j) # p) /\ E(p) = e /\ E(e) = f
  BY <1>7
<1> HIDE DEF e, f, dx, P, Q, T, E, F, A, B
<1>12. ASSUME NEW i \in dx PROVE i \in Q <=> i \in P /\ i # p
  <2>1. CASE i = p
    BY <1>2, <1>6, <1>8, <2>1
  <2>2. CASE i # p
    <3>1. i \in cx /\ F(i) = E(i) /\ B(i) = A(i) /\ E(i) # e
      BY <1>2, <1>3, <1>10, <2>2
    <3>2. E(i) \in dx <=> E(i) \in cx
      BY <1>3, <3>1
    <3>3. CASE E(i) = p
      <4>1. i \notin P
        BY <1>11, <3>3
      <4>2. i \notin Q
        BY <1>2, <1>6, <1>8, <3>1, <3>3
      <4>3. QED
        BY <4>1, <4>2
    <3>4. CASE E(i) # p
      <4>1. E(i) \in dx => B(E(i)) = A(E(i))
        BY <1>2, <3>4
      <4>2. QED
        BY <1>7, <1>8, <2>2, <3>1, <3>2, <4>1
    <3>5. QED
      BY <3>3, <3>4
  <2>3. QED
    BY <2>1, <2>2
<1>13. p \in T
  BY <1>9, <1>11
<1>14. e \notin T
  BY <1>9, <1>11, <1>13
<1>15. /\ U \in SUBSET dx /\ \A i \in U : i \in Q /\ F(i) = E(i)
  <2>1. U \subseteq dx
    BY <1>3, <1>9, <1>11, <1>14
  <2>2. QED
    BY <1>2, <1>9, <1>12, <2>1
<1>16. ASSUME NEW i \in Q PROVE i \in U <=> \A j \in U : F(j) # i
  <2>1. i \in P /\ i # p /\ i \in dx /\ i # e
    BY <1>3, <1>8, <1>12
  <2>2. i \in U <=> \A j \in T : E(j) # i
    BY <1>9, <2>1
  <2>3. E(p) # i
    BY <1>11, <2>1
  <2>4. QED
    BY <1>15, <2>2, <2>3
<1>17. LeftToRight(x, dx, pair, U)
  BY <1>15, <1>16 DEF LeftToRight, Q, F
<1>18. Taken(x, dx, pair) = U
  BY <1>2, <1>17, TakenIs
<1>19. MergeWord(x, dx, pair) = dx \ {F(i) : i \in U}
  BY <1>18 DEF MergeWord, F
<1>20. MergeWord(x, cx, pair) = cx \ {E(i) : i \in T}
  BY DEF MergeWord, E, T
<1>21. {F(i) : i \in U} = {E(i) : i \in U}
  BY <1>15
<1>22. {E(i) : i \in T} = {E(i) : i \in U} \cup {e}
  BY <1>11, <1>13
<1>23. MergeWord(x, dx, pair) = MergeWord(x, cx, pair)
  BY <1>3, <1>19, <1>20, <1>21, <1>22
<1>24. QED
  BY <1>23 DEF dx

LEMMA NothingToMerge ==
    ASSUME NEW x \in Text, NEW cx \in SUBSET (1..Len(x)), NEW pair,
           PlacesIn(x, cx, pair) = {}
    PROVE  MergeWord(x, cx, pair) = cx
<1>1. Taken(x, cx, pair) = {}
  BY MergeWordFacts
<1>2. QED
  BY <1>1 DEF MergeWord

-----------------------------------------------------------------------------
(* Tokens and the texts they stand for.                                    *)

\* Each token is spelt as the stretch of its word that it stands for.
Spelt ==
    \A w \in DOMAIN splits : \A i \in LiveCut(w) :
        vocabulary[token[<<w, i>>]] = TextAt(splits[w].chars, LiveCut(w), i)

\* Equal stretches of two words are, once the round is through, cut alike.
CutsAlike ==
    \A w, v \in DOMAIN splits :
        AlikeIn(splits[w].chars, GreedyCuts[w], splits[v].chars, GreedyCuts[v])

WholeEverywhere(text) == \A w \in DOMAIN splits : Whole(splits[w].chars, GreedyCuts[w], text)

\* Where the text of a token stands in a word, from one cut to another, it is one token.
TextsWhole == \A v \in DOMAIN vocabulary : WholeEverywhere(vocabulary[v])

TextsApart == \A v, u \in DOMAIN vocabulary : vocabulary[v] = vocabulary[u] => v = u

VocabularyTexts == vocabulary \in Seq(Text)

\* The text of the token of this round, before it is in the vocabulary and then.
NewText ==
    /\ phase = "walk" => /\ \A v \in DOMAIN vocabulary : vocabulary[v] # Merged(Texts(best))
                         /\ WholeEverywhere(Merged(Texts(best)))
    /\ InRound => vocabulary[merged_token] = Merged(Texts(best))

SInv ==
    /\ VocabularyTexts /\ Spelt /\ CutsAlike /\ TextsWhole /\ TextsApart /\ NewText

LEMMA WordFacts ==
    ASSUME splits \in Corpora, NEW w \in DOMAIN splits
    PROVE  /\ splits[w].chars \in Text /\ Len(splits[w].chars) \in Nat
           /\ LiveCut(w) \in SUBSET (1..Len(splits[w].chars))
           /\ GreedyCuts[w] \in SUBSET (1..Len(splits[w].chars))
<1>1. splits \in Seq([chars : Seq(1..byte_max), count : Nat])
  BY CorpusAssumption
<1>2. splits[w] \in [chars : Seq(1..byte_max), count : Nat]
  <2> DEFINE S == [chars : Seq(1..byte_max), count : Nat]
  <2>1. splits \in Seq(S)
    BY <1>1
  <2> HIDE DEF S
  <2>2. splits[w] \in S
    BY <2>1
  <2>3. QED
    BY <2>2 DEF S
<1>3. splits[w].chars \in Seq(1..byte_max)
  BY <1>2
<1> DEFINE x == splits[w].chars
<1>4. x \in Text /\ Len(x) \in Nat
  <2>1. 1..byte_max \subseteq Nat \ {0}
    BY ByteAssumption
  <2> HIDE DEF x
  <2>2. x \in Seq(1..byte_max)
    BY <1>3 DEF x
  <2> DEFINE S == 1..byte_max
             N == Nat \ {0}
  <2>3. x \in Seq(S)
    BY <2>2
  <2> HIDE DEF S
  <2>4. \A k \in S : k \in N
    BY <2>1 DEF S
  <2> HIDE DEF N
  <2>5. x \in Seq(N) /\ Len(x) \in Nat
    BY <2>3, <2>4
  <2>6. QED
    BY <2>5 DEF Text, N
<1>5. LiveCut(w) \in SUBSET (1..Len(x))
  BY DEF LiveCut
<1> HIDE DEF x
<1>6. MergeWord(x, LiveCut(w), Texts(best)) \in SUBSET LiveCut(w)
  BY <1>4, <1>5, MergeWordFacts
<1>7. GreedyCuts[w] = IF Merging THEN MergeWord(x, LiveCut(w), Texts(best)) ELSE LiveCut(w)
  BY DEF GreedyCuts, x
<1>8. GreedyCuts[w] \in SUBSET (1..Len(x))
  BY <1>5, <1>6, <1>7
<1>9. QED
  BY <1>4, <1>5, <1>8 DEF x

LEMMA LiveSlot ==
    ASSUME splits \in Corpora, ChainTyped, ChainOrdered, NEW w \in DOMAIN splits, NEW i
    PROVE  i \in LiveCut(w) <=> <<w, i>> \in Position /\ alive[<<w, i>>]
<1>1. <<w, i>> \in Position <=> i \in 1..(Len(splits[w].chars) + 1)
  BY PositionsTyped
<1>2. Len(splits[w].chars) \in Nat
  BY WordFacts
<1>3. ASSUME <<w, i>> \in Position, alive[<<w, i>>] PROVE i # Len(splits[w].chars) + 1
  BY <1>3, EndsDead DEF IsEnd
<1>4. QED
  BY <1>1, <1>2, <1>3 DEF LiveCut

\* next leads to where the token ends.
LEMMA NextIsEnd ==
    ASSUME splits \in Corpora, ChainTyped, ChainOrdered, ChainIntact,
           NEW w \in DOMAIN splits, NEW i \in LiveCut(w), NEW e, e = End(splits[w].chars, LiveCut(w), i)
    PROVE  /\ <<w, i>> \in Position /\ alive[<<w, i>>] /\ <<w, e>> \in Position
           /\ next[<<w, i>>] = <<w, e>>
           /\ is_live(next[<<w, i>>]) <=> e \in LiveCut(w)
<1> DEFINE x == splits[w].chars
           c == LiveCut(w)
           p == <<w, i>>
           q == <<w, e>>
<1>1. x \in Text /\ Len(x) \in Nat /\ c \in SUBSET (1..Len(x))
  BY WordFacts
<1>2. i \in 1..Len(x) /\ i \in Nat
  BY <1>1
<1>3. p \in Position /\ alive[p]
  BY LiveSlot
<1> HIDE DEF x, c
<1>4. e = End(x, c, i)
  BY DEF x, c
<1>5. /\ e \in (i + 1)..(Len(x) + 1)
      /\ e \in Bounds(x, c)
      /\ \A k \in (i + 1)..(e - 1) : k \notin c
  BY <1>1, <1>2, <1>4, EndFacts
<1>6. e \in 1..(Len(x) + 1) /\ e \in Nat /\ i < e
  BY <1>1, <1>2, <1>5
<1>7. q \in Position /\ no_position \notin Position
  BY <1>6, PositionsTyped DEF x
<1>8. e \in c <=> alive[q]
  BY <1>7, LiveSlot DEF c
<1>9. alive[q] \/ e = Len(x) + 1
  BY <1>5, <1>8 DEF Bounds
<1>10. ASSUME NEW r \in Position, r[1] = w, i < r[2], r[2] < e PROVE ~alive[r]
  <2>1. r = <<w, r[2]>> /\ r[2] \in Nat
    BY <1>10, PositionsTyped
  <2>2. r[2] \in (i + 1)..(e - 1)
    BY <1>2, <1>6, <1>10, <2>1
  <2>3. r[2] \notin c
    BY <1>5, <2>2
  <2>4. QED
    BY <1>10, <2>1, <2>3, LiveSlot DEF c
<1>11. p[1] = w /\ p[2] = i /\ q[1] = w /\ q[2] = e
  OBVIOUS
<1>12. Follows(p, q)
  <2> HIDE DEF p, q
  <2>1. QED
    BY <1>3, <1>6, <1>9, <1>10, <1>11 DEF Follows, x
<1>13. next[p] = q
  BY <1>3, <1>7, <1>12 DEF ChainIntact
<1>14. is_live(next[p]) <=> e \in c
  BY <1>7, <1>8, <1>13 DEF is_live
<1>15. QED
  BY <1>3, <1>7, <1>13, <1>14 DEF c

\* The occurrences of a pair of tokens are those of their texts.
LEMMA PlacesAre ==
    ASSUME splits \in Corpora, ChainTyped, ChainOrdered, ChainIntact, TokensKnown,
           Spelt, TextsApart, NEW w \in DOMAIN splits,
           NEW l \in DOMAIN vocabulary, NEW r \in DOMAIN vocabulary, NEW i
    PROVE  i \in PlacesIn(splits[w].chars, LiveCut(w), <<vocabulary[l], vocabulary[r]>>)
              <=> <<w, i>> \in Position /\ pair_is_at(<<w, i>>, l, r)
<1> DEFINE x == splits[w].chars
           c == LiveCut(w)
           pair == <<vocabulary[l], vocabulary[r]>>
           p == <<w, i>>
           e == End(x, c, i)
<1>1. i \in PlacesIn(x, c, pair)
         <=> i \in c /\ TextAt(x, c, i) = vocabulary[l] /\ e \in c /\ TextAt(x, c, e) = vocabulary[r]
  BY DEF PlacesIn
<1>2. p \in Position /\ pair_is_at(p, l, r)
         <=> /\ p \in Position /\ alive[p] /\ token[p] = l
             /\ is_live(next[p]) /\ token[next[p]] = r
  <2>1. no_position \notin Position
    BY PositionsTyped
  <2> HIDE DEF p
  <2>2. QED
    BY <2>1 DEF pair_is_at, is_live
<1>3. ASSUME i \in c
      PROVE  i \in PlacesIn(x, c, pair) <=> p \in Position /\ pair_is_at(p, l, r)
  <2>1. /\ p \in Position /\ alive[p] /\ next[p] = <<w, e>>
        /\ is_live(next[p]) <=> e \in c
    BY <1>3, NextIsEnd
  <2>2. TextAt(x, c, i) = vocabulary[l] <=> token[p] = l
    <3>1. TextAt(x, c, i) = vocabulary[token[p]] /\ token[p] \in DOMAIN vocabulary
      BY <1>3, <2>1 DEF Spelt, TokensKnown
    <3>2. QED
      BY <3>1 DEF TextsApart
  <2>3. ASSUME e \in c
        PROVE  TextAt(x, c, e) = vocabulary[r] <=> token[next[p]] = r
    <3>1. <<w, e>> \in Position /\ alive[<<w, e>>]
      BY <2>3, LiveSlot
    <3>2. TextAt(x, c, e) = vocabulary[token[<<w, e>>]] /\ token[<<w, e>>] \in DOMAIN vocabulary
      BY <2>3, <3>1 DEF Spelt, TokensKnown
    <3>3. QED
      BY <2>1, <3>2 DEF TextsApart
  <2> HIDE DEF x, c, pair, p, e
  <2>4. QED
    BY <1>1, <1>2, <1>3, <2>1, <2>2, <2>3
<1>4. ASSUME i \notin c
      PROVE  ~(p \in Position /\ alive[p])
  BY <1>4, LiveSlot
<1>5. QED
  BY <1>1, <1>2, <1>3, <1>4

LEMMA BestTexts == Texts(best) = <<vocabulary[left_token], vocabulary[right_token]>>
BY DEF Texts, left_token, right_token

LEMMA BestTextsNext == Texts(best)' = <<vocabulary'[left_token'], vocabulary'[right_token']>>
BY DEF Texts, left_token, right_token

LEMMA RoundTokens ==
    ASSUME IInv, InRound
    PROVE  /\ left_token \in DOMAIN vocabulary /\ right_token \in DOMAIN vocabulary
           /\ merged_token \in DOMAIN vocabulary /\ merged_token \in Nat
<1>1. /\ left_token \in 1..(Len(vocabulary) - 1) /\ right_token \in 1..(Len(vocabulary) - 1)
  BY DEF IInv, PairsKnown
<1>2. Len(vocabulary) \in Nat /\ DOMAIN vocabulary = 1..Len(vocabulary)
  BY InvFacts
<1>3. QED
  BY <1>1, <1>2, RoundFacts

\* One merge: the word loses one cut, and what it will be cut into stays the same.
LEMMA MergeOne ==
    ASSUME IInv, ChainIntact, Spelt, TextsApart, NewText, InRound, InRound',
           splits' = splits, vocabulary' = vocabulary,
           left_token' = left_token, right_token' = right_token,
           NEW p \in Position, Unmerged(p), NEW n, n = Neighbours(p), Splice(n, merged_token),
           \A q \in Position : next[q] = p => ~Unmerged(q)
    PROVE  Spelt' /\ GreedyCuts' = GreedyCuts
<1> DEFINE w == p[1]
           i == p[2]
           x == splits[w].chars
           c == LiveCut(w)
           e == End(x, c, i)
           d == Without(x, c, i)
           pair == <<vocabulary[left_token], vocabulary[right_token]>>
<1>1. splits \in Corpora /\ ChainTyped /\ ChainOrdered /\ ChainLinked /\ TokensKnown
  BY InvFacts DEF IInv
<1>2. /\ p = <<w, i>> /\ w \in DOMAIN splits /\ no_position \notin Position
  BY <1>1, PositionsTyped
<1>3. x \in Text /\ c \in SUBSET (1..Len(x)) /\ Len(x) \in Nat
  BY <1>1, <1>2, WordFacts
<1>4. /\ left_token \in DOMAIN vocabulary /\ right_token \in DOMAIN vocabulary
      /\ merged_token \in DOMAIN vocabulary /\ merged_token \in Nat
  BY RoundTokens
<1>5. \A v \in DOMAIN splits : \A j :
         j \in PlacesIn(splits[v].chars, LiveCut(v), pair)
            <=> <<v, j>> \in Position /\ Unmerged(<<v, j>>)
  BY <1>1, <1>4, PlacesAre DEF Unmerged
<1>6. i \in PlacesIn(x, c, pair)
  BY <1>2, <1>5
<1>7. i \in c /\ i \in 1..Len(x)
  BY <1>3, <1>6 DEF PlacesIn
<1>8. next[p] = <<w, e>> /\ <<w, e>> \in Position /\ is_live(next[p])
  <2>1. e \in c
    BY <1>6 DEF PlacesIn
  <2>2. QED
    BY <1>1, <1>2, <1>7, <2>1, NextIsEnd
<1>9. Spliced(p, n.right, n.after, merged_token) /\ n.right = <<w, e>>
  <2>1. alive[p] /\ alive[next[p]]
    BY DEF Unmerged, pair_is_at, is_live
  <2>2. QED
    BY <1>1, <1>4, <1>8, <2>1, SpliceFacts, NeighbourFacts
<1>10. \A q \in Position : /\ token'[q] = IF q = p THEN merged_token ELSE token[q]
                           /\ alive'[q] <=> q # <<w, e>> /\ alive[q]
  BY <1>9 DEF Spliced
<1>11. \A v \in DOMAIN splits : LiveCut(v)' = IF v = w THEN d ELSE LiveCut(v)
  <2> SUFFICES ASSUME NEW v \in DOMAIN splits, NEW j \in 1..Len(splits[v].chars)
               PROVE  alive'[<<v, j>>] <=> (IF v = w THEN j # e /\ alive[<<v, j>>] ELSE alive[<<v, j>>])
    BY DEF LiveCut, Without
  <2>1. <<v, j>> \in Position
    <3>1. Len(splits[v].chars) \in Nat
      BY <1>1, WordFacts
    <3>2. j \in 1..(Len(splits[v].chars) + 1)
      BY <3>1
    <3>3. QED
      BY <1>1, <3>2, PositionsTyped
  <2>2. QED
    BY <1>10, <2>1
<1>12. /\ End(x, d, i) = End(x, c, e) /\ TextAt(x, d, i) = Merged(pair)
       /\ \A j \in d : j # i => TextAt(x, d, j) = TextAt(x, c, j)
       /\ d \in SUBSET c
  <2> HIDE DEF w, x, c, i, pair
  <2>1. /\ End(x, d, i) = End(x, c, e) /\ TextAt(x, d, i) = Merged(pair)
        /\ \A j \in d : j # i => TextAt(x, d, j) = TextAt(x, c, j)
    BY <1>3, <1>6, OneCut
  <2>2. d \in SUBSET c
    BY DEF Without
  <2>3. QED
    BY <2>1, <2>2
<1>13. Spelt'
  <2> SUFFICES ASSUME NEW v \in DOMAIN splits, NEW j \in LiveCut(v)'
               PROVE  vocabulary[token'[<<v, j>>]] = TextAt(splits[v].chars, LiveCut(v)', j)
    BY DEF Spelt
  <2>1. CASE v # w
    <3>1. j \in LiveCut(v) /\ LiveCut(v)' = LiveCut(v)
      BY <1>11, <2>1
    <3>2. <<v, j>> \in Position /\ <<v, j>> # p
      BY <1>1, <1>2, <2>1, <3>1, LiveSlot
    <3>3. token'[<<v, j>>] = token[<<v, j>>]
      BY <1>10, <3>2
    <3>4. QED
      BY <3>1, <3>3 DEF Spelt
  <2>2. CASE v = w /\ j = i
    <3>1. token'[<<v, j>>] = merged_token /\ LiveCut(v)' = d
      BY <1>2, <1>10, <1>11, <2>2
    <3>2. vocabulary[merged_token] = Merged(pair)
      BY BestTexts DEF NewText
    <3>3. QED
      BY <1>12, <2>2, <3>1, <3>2
  <2>3. CASE v = w /\ j # i
    <3>1. LiveCut(v)' = d /\ j \in d /\ j \in c
      BY <1>11, <1>12, <2>3
    <3>2. <<v, j>> \in Position /\ <<v, j>> # p
      BY <1>1, <1>2, <2>3, <3>1, LiveSlot
    <3>3. token'[<<v, j>>] = token[<<v, j>>]
      BY <1>10, <3>2
    <3>4. vocabulary[token[<<w, j>>]] = TextAt(x, c, j)
      BY <1>2, <3>1 DEF Spelt
    <3>5. QED
      BY <1>12, <2>3, <3>1, <3>3, <3>4
  <2>4. QED
    BY <2>1, <2>2, <2>3
<1>14. \A j \in PlacesIn(x, c, pair) : End(x, c, j) # i
  <2> SUFFICES ASSUME NEW j \in PlacesIn(x, c, pair), End(x, c, j) = i PROVE FALSE
    OBVIOUS
  <2>1. <<w, j>> \in Position /\ Unmerged(<<w, j>>)
    BY <1>2, <1>5
  <2>2. j \in c
    BY <1>3 DEF PlacesIn
  <2>3. next[<<w, j>>] = <<w, i>>
    BY <1>1, <1>2, <2>2, NextIsEnd
  <2>4. QED
    BY <1>2, <2>1, <2>3
<1>15. MergeWord(x, d, pair) = MergeWord(x, c, pair)
  <2> HIDE DEF w, x, c, i, pair
  <2>1. QED
    BY <1>3, <1>6, <1>14, OneMerged
<1>16. GreedyCuts' = GreedyCuts
  <2>1. Texts(best) = pair /\ Texts(best)' = pair
    BY BestTexts, BestTextsNext
  <2>2. Merging /\ Merging'
    BY DEF InRound, Merging
  <2>3. GreedyCuts = [v \in DOMAIN splits |-> MergeWord(splits[v].chars, LiveCut(v), pair)]
    BY <2>1, <2>2 DEF GreedyCuts
  <2>4. GreedyCuts' = [v \in DOMAIN splits |-> MergeWord(splits[v].chars, LiveCut(v)', pair)]
    BY <2>1, <2>2 DEF GreedyCuts
  <2>5. \A v \in DOMAIN splits : MergeWord(splits[v].chars, LiveCut(v)', pair)
                                    = MergeWord(splits[v].chars, LiveCut(v), pair)
    BY <1>11, <1>15
  <2>6. QED
    BY <2>3, <2>4, <2>5
<1>17. QED
  BY <1>13, <1>16

-----------------------------------------------------------------------------
(* The invariant, a step at a time.                                        *)

LEMMA SameCuts ==
    ASSUME VocabularyTexts, CutsAlike, TextsWhole, TextsApart,
           splits' = splits, vocabulary' = vocabulary, GreedyCuts' = GreedyCuts
    PROVE  /\ VocabularyTexts' /\ CutsAlike' /\ TextsWhole' /\ TextsApart'
           /\ \A t : WholeEverywhere(t)' <=> WholeEverywhere(t)
<1>1. \A t : WholeEverywhere(t)' <=> WholeEverywhere(t)
  BY DEF WholeEverywhere
<1>2. QED
  BY <1>1 DEF VocabularyTexts, CutsAlike, TextsWhole, TextsApart

LEMMA SameSpelling ==
    ASSUME splits' = splits, UNCHANGED <<chain, vocabulary>>, Spelt
    PROVE  /\ Spelt' /\ \A w \in DOMAIN splits : LiveCut(w)' = LiveCut(w)
<1>1. token' = token /\ alive' = alive
  BY DEF chain
<1>2. \A w \in DOMAIN splits : LiveCut(w)' = LiveCut(w)
  BY <1>1 DEF LiveCut
<1>3. QED
  BY <1>1, <1>2 DEF Spelt

\* Outside the rounds.
LEMMA QuietSpelling ==
    ASSUME SInv, splits' = splits, UNCHANGED <<chain, vocabulary>>, ~Merging, ~Merging'
    PROVE  SInv' /\ GreedyCuts' = GreedyCuts
<1>1. Spelt' /\ \A w \in DOMAIN splits : LiveCut(w)' = LiveCut(w)
  BY SameSpelling DEF SInv
<1>2. GreedyCuts' = GreedyCuts
  BY <1>1 DEF GreedyCuts
<1>3. NewText'
  BY DEF Merging, NewText, InRound
<1>4. QED
  BY <1>1, <1>2, <1>3, SameCuts DEF SInv

\* Within a round.
LEMMA RoundSpelling ==
    ASSUME SInv, splits' = splits, UNCHANGED <<chain, vocabulary>>, Merging, Merging',
           Texts(best)' = Texts(best), phase' = "walk" => phase = "walk", InRound' => InRound
    PROVE  SInv' /\ GreedyCuts' = GreedyCuts
<1>1. Spelt' /\ \A w \in DOMAIN splits : LiveCut(w)' = LiveCut(w)
  BY SameSpelling DEF SInv
<1>2. GreedyCuts' = GreedyCuts
  BY <1>1 DEF GreedyCuts
<1>3. /\ VocabularyTexts' /\ CutsAlike' /\ TextsWhole' /\ TextsApart'
      /\ \A t : WholeEverywhere(t)' <=> WholeEverywhere(t)
  BY <1>2, SameCuts DEF SInv
<1>4. phase' = "walk" => /\ \A v \in DOMAIN vocabulary' : vocabulary'[v] # Merged(Texts(best)')
                         /\ WholeEverywhere(Merged(Texts(best)))'
  <2> SUFFICES ASSUME phase' = "walk"
               PROVE  /\ \A v \in DOMAIN vocabulary : vocabulary[v] # Merged(Texts(best)')
                      /\ WholeEverywhere(Merged(Texts(best)))'
    OBVIOUS
  <2>p. PICK t : t = Merged(Texts(best))
    OBVIOUS
  <2>1. (\A v \in DOMAIN vocabulary : vocabulary[v] # t) /\ WholeEverywhere(t)
    BY <2>p DEF SInv, NewText
  <2>2. WholeEverywhere(t)' /\ Merged(Texts(best)') = t
    BY <1>3, <2>p, <2>1
  <2>3. WholeEverywhere(Merged(Texts(best)))'
    BY <2>2 DEF WholeEverywhere
  <2>4. QED
    BY <2>1, <2>2, <2>3
<1>5. InRound' => vocabulary'[merged_token'] = Merged(Texts(best)')
  BY DEF SInv, NewText, merged_token
<1>6. NewText'
  BY <1>4, <1>5 DEF NewText
<1>7. QED
  BY <1>1, <1>2, <1>3, <1>6 DEF SInv

LEMMA AppendTexts ==
    ASSUME NEW S, NEW q \in Seq(S), NEW t \in S
    PROVE  Append(q, t) \in Seq(S)
OBVIOUS

LEMMA StartRoundSpelling == IInv /\ SInv /\ StartRound => SInv' /\ GreedyCuts' = GreedyCuts
<1> SUFFICES ASSUME IInv, SInv, StartRound PROVE SInv' /\ GreedyCuts' = GreedyCuts
  OBVIOUS
<1> DEFINE n == Len(vocabulary)
           t == Merged(Texts(best))
<1>1. /\ phase = "walk" /\ phase' \in {"surgery", "sequential"} /\ best' = best
      /\ vocabulary' = Append(vocabulary, t)
      /\ splits' = splits /\ UNCHANGED <<chain, book>>
  BY DEF StartRound, Texts, Merged, left_token, right_token
<1>2. /\ vocabulary \in Seq(Text) /\ n \in Nat /\ DOMAIN vocabulary = 1..n
      /\ splits \in Corpora
  BY InvFacts DEF SInv, VocabularyTexts
<1>3. /\ DOMAIN vocabulary' = 1..(n + 1) /\ vocabulary'[n + 1] = t
      /\ \A v \in 1..n : vocabulary'[v] = vocabulary[v]
      /\ Len(vocabulary') = n + 1
  BY <1>1, <1>2
<1>4. best \in DOMAIN book.pairs /\ left_token \in DOMAIN vocabulary /\ right_token \in DOMAIN vocabulary
  BY <1>1 DEF IInv, PairsKnown, KeysIn, left_token, right_token
<1>5. left_token' = left_token /\ right_token' = right_token
  BY <1>1 DEF left_token, right_token
<1>6. Texts(best)' = Texts(best)
  BY <1>2, <1>3, <1>4, <1>5, BestTexts, BestTextsNext
<1>7. t \in Text
  <2>1. vocabulary[left_token] \in Text /\ vocabulary[right_token] \in Text
    BY <1>2, <1>4
  <2>2. QED
    BY <2>1, BestTexts, TextsJoined DEF Merged
<1>8. VocabularyTexts'
  <2> HIDE DEF t
  <2>1. QED
    BY <1>1, <1>2, <1>7, AppendTexts DEF VocabularyTexts
<1>9. Merging /\ Merging'
  BY <1>1 DEF Merging
<1>10. alive' = alive /\ token' = token /\ \A w \in DOMAIN splits : LiveCut(w)' = LiveCut(w)
  BY <1>1 DEF LiveCut, chain
<1>11. GreedyCuts' = GreedyCuts
  BY <1>1, <1>6, <1>9, <1>10 DEF GreedyCuts
<1>12. \A u : WholeEverywhere(u)' <=> WholeEverywhere(u)
  BY <1>1, <1>11 DEF WholeEverywhere
<1>13. Spelt'
  <2> SUFFICES ASSUME NEW w \in DOMAIN splits, NEW i \in LiveCut(w)
               PROVE  vocabulary'[token[<<w, i>>]] = TextAt(splits[w].chars, LiveCut(w), i)
    BY <1>1, <1>10 DEF Spelt
  <2>1. <<w, i>> \in Position /\ alive[<<w, i>>]
    BY <1>2, InvFacts, LiveSlot DEF IInv
  <2>2. token[<<w, i>>] \in 1..n
    BY <1>2, <2>1 DEF IInv, TokensKnown
  <2>3. QED
    BY <1>3, <2>2 DEF SInv, Spelt
<1>14. CutsAlike'
  BY <1>1, <1>11 DEF SInv, CutsAlike
<1>15. /\ \A v \in DOMAIN vocabulary : vocabulary[v] # t
       /\ WholeEverywhere(t)
  BY <1>1 DEF SInv, NewText
<1>16. TextsWhole'
  <2> HIDE DEF t
  <2>1. \A v \in 1..n : WholeEverywhere(vocabulary[v])
    BY <1>2 DEF SInv, TextsWhole
  <2>2. \A v \in 1..(n + 1) : WholeEverywhere(vocabulary'[v])
    BY <1>2, <1>3, <1>15, <2>1
  <2>3. QED
    BY <1>3, <1>12, <2>2 DEF TextsWhole, WholeEverywhere
<1>17. TextsApart'
  <2> HIDE DEF t
  <2>1. \A v, u \in 1..(n + 1) : vocabulary'[v] = vocabulary'[u] => v = u
    BY <1>2, <1>3, <1>15 DEF SInv, TextsApart
  <2>2. QED
    BY <1>3, <2>1 DEF TextsApart
<1>18. NewText'
  <2>1. vocabulary'[merged_token'] = t
    BY <1>3 DEF merged_token
  <2>2. QED
    BY <1>1, <1>6, <2>1 DEF NewText
<1>19. QED
  BY <1>8, <1>11, <1>13, <1>14, <1>16, <1>17, <1>18 DEF SInv

\* The texts of a pair, and its occurrences in a word.
LEMMA PairTexts ==
    ASSUME IInv, ChainIntact, Spelt, TextsApart, NEW s \in DOMAIN book.pairs
    PROVE  /\ book.pairs[s].key[1] \in DOMAIN vocabulary /\ book.pairs[s].key[2] \in DOMAIN vocabulary
           /\ \A w \in DOMAIN splits : \A i :
                 i \in PlacesIn(splits[w].chars, LiveCut(w), Texts(s))
                    <=> <<w, i>> \in Edges(book.pairs[s].key)
<1>1. book.pairs[s].key[1] \in DOMAIN vocabulary /\ book.pairs[s].key[2] \in DOMAIN vocabulary
  BY DEF IInv, PairsKnown, KeysIn
<1>2. splits \in Corpora /\ ChainTyped /\ ChainOrdered /\ TokensKnown
  BY InvFacts DEF IInv
<1>3. \A w \in DOMAIN splits : \A i :
         i \in PlacesIn(splits[w].chars, LiveCut(w), Texts(s))
            <=> <<w, i>> \in Position /\ pair_is_at(<<w, i>>, book.pairs[s].key[1], book.pairs[s].key[2])
  BY <1>1, <1>2, PlacesAre DEF Texts
<1>4. QED
  BY <1>1, <1>3 DEF Edges

\* A pair that counts occurs.
LEMMA EligibleOccurs ==
    ASSUME IInv, EInv, Quiescent, NEW s \in DOMAIN book.pairs, Eligible(s)
    PROVE  Edges(book.pairs[s].key) # {}
<1>1. /\ BookOK(book, Position) /\ Slots(Position) /\ Exact(book, Frequencies)
  BY ExactFacts DEF Sound
<1>2. EdgesOf(book, s) = Edges(book.pairs[s].key)
  BY QuietFacts
<1>3. EligibleIn(book, s)
  BY DEF Eligible, EligibleIn
<1>4. QED
  BY <1>1, <1>2, <1>3, NoEdges

\* What pop_best_state changes when it has found the best pair.
LEMMA BestChosen ==
    ASSUME IInv, PopBest
    PROVE  \E e \in Top :
              /\ e.state \in DOMAIN book.pairs /\ Eligible(e.state)
              /\ e.count = book.pairs[e.state].count
              /\ best' = e.state /\ Texts(best)' = Texts(e.state)
<1>1. PICK e \in Top : /\ Eligible(e.state)
                       /\ e.count = book.pairs[e.state].count
                       /\ best' = e.state
                       /\ book' = [book EXCEPT !.pairs[e.state] = WithoutList(@)]
  BY DEF PopBest
<1>2. e.state \in DOMAIN book.pairs
  BY DEF Top, IInv, PairsKnown
<1>3. BookOK(book, Position)
  BY InvFacts
<1>4. SameButLists(book, book')
  <2>s. PICK s : s = e.state
    OBVIOUS
  <2>1. s \in DOMAIN book.pairs /\ book' = [book EXCEPT !.pairs[s] = WithoutList(@)]
    BY <1>1, <1>2, <2>s
  <2>2. splits \in Corpora
    BY InvFacts
  <2>3. QED
    BY <1>3, <2>1, <2>2, EmptyList
<1>5. book'.pairs[e.state].key = book.pairs[e.state].key
  BY <1>2, <1>4 DEF SameButLists, SamePair
<1>6. vocabulary' = vocabulary
  BY DEF PopBest
<1>7. Texts(best)' = Texts(e.state)
  BY <1>1, <1>5, <1>6 DEF Texts
<1>8. QED
  BY <1>1, <1>2, <1>7

LEMMA PopBestSpelling == IInv /\ ChainIntact /\ EInv /\ SInv /\ PopBest => SInv'
<1> SUFFICES ASSUME IInv, ChainIntact, EInv, SInv, PopBest PROVE SInv'
  OBVIOUS
<1>1. PICK s \in DOMAIN book.pairs : Eligible(s) /\ best' = s /\ Texts(best)' = Texts(s)
  BY BestChosen
<1>t. PICK pair : pair = Texts(s)
  OBVIOUS
<1>2. /\ splits' = splits /\ UNCHANGED <<chain, vocabulary>>
      /\ phase = "pop" /\ phase' = "walk"
  BY DEF PopBest
<1>3. Spelt' /\ \A w \in DOMAIN splits : LiveCut(w)' = LiveCut(w)
  BY <1>2, SameSpelling DEF SInv
<1>4. \A w \in DOMAIN splits :
         /\ GreedyCuts[w] = LiveCut(w)
         /\ GreedyCuts'[w] = MergeWord(splits[w].chars, LiveCut(w), pair)
  BY <1>1, <1>2, <1>3, <1>t DEF GreedyCuts, Merging
<1>5. \A w \in DOMAIN splits : splits[w].chars \in Text /\ LiveCut(w) \in SUBSET (1..Len(splits[w].chars))
  BY InvFacts, WordFacts
<1>6. CutsAlike'
  <2> SUFFICES ASSUME NEW w \in DOMAIN splits, NEW v \in DOMAIN splits
               PROVE  AlikeIn(splits[w].chars, GreedyCuts'[w], splits[v].chars, GreedyCuts'[v])
    BY <1>2 DEF CutsAlike
  <2>1. AlikeIn(splits[w].chars, LiveCut(w), splits[v].chars, LiveCut(v))
    BY <1>4 DEF SInv, CutsAlike
  <2>2. QED
    BY <1>4, <1>5, <2>1, MergedAlike
<1>7. TextsWhole'
  <2> SUFFICES ASSUME NEW v \in DOMAIN vocabulary, NEW w \in DOMAIN splits
               PROVE  Whole(splits[w].chars, GreedyCuts'[w], vocabulary[v])
    BY <1>2 DEF TextsWhole, WholeEverywhere
  <2>1. Whole(splits[w].chars, LiveCut(w), vocabulary[v])
    BY <1>4 DEF SInv, TextsWhole, WholeEverywhere
  <2>2. QED
    BY <1>4, <1>5, <2>1, MergedStaysWhole
<1>8. PICK u \in DOMAIN splits : PlacesIn(splits[u].chars, LiveCut(u), pair) # {}
  <2>1. PICK p \in Edges(book.pairs[s].key) : TRUE
    BY <1>1, <1>2, EligibleOccurs DEF Quiescent
  <2>2. p = <<p[1], p[2]>> /\ p[1] \in DOMAIN splits
    BY InvFacts, PositionsTyped DEF Edges
  <2>3. p[2] \in PlacesIn(splits[p[1]].chars, LiveCut(p[1]), Texts(s))
    BY <2>1, <2>2, PairTexts DEF SInv
  <2>4. QED
    BY <1>t, <2>2, <2>3
<1>9. \A w \in DOMAIN splits : Whole(splits[w].chars, GreedyCuts'[w], Merged(pair))
  <2> TAKE w \in DOMAIN splits
  <2>1. AlikeIn(splits[w].chars, LiveCut(w), splits[u].chars, LiveCut(u))
    BY <1>4 DEF SInv, CutsAlike
  <2>2. QED
    BY <1>4, <1>5, <1>8, <2>1, MergedWhole
<1>10. \A v \in DOMAIN vocabulary : vocabulary[v] # Merged(pair)
  <2>1. ~Whole(splits[u].chars, LiveCut(u), Merged(pair))
    BY <1>5, <1>8, MergedNew
  <2>2. \A v \in DOMAIN vocabulary : Whole(splits[u].chars, LiveCut(u), vocabulary[v])
    BY <1>4 DEF SInv, TextsWhole, WholeEverywhere
  <2>3. QED
    BY <2>1, <2>2
<1>11. NewText'
  <2>1. WholeEverywhere(Merged(Texts(best)))'
    BY <1>1, <1>2, <1>9, <1>t DEF WholeEverywhere
  <2>2. \A v \in DOMAIN vocabulary' : vocabulary'[v] # Merged(Texts(best)')
    BY <1>1, <1>2, <1>10, <1>t
  <2>3. QED
    BY <1>2, <2>1, <2>2 DEF NewText, InRound
<1>12. VocabularyTexts' /\ TextsApart'
  BY <1>2 DEF SInv, VocabularyTexts, TextsApart
<1>13. QED
  BY <1>3, <1>6, <1>7, <1>11, <1>12 DEF SInv

\* The round is through: nothing is left to be merged.
LEMMA EndRoundSpelling ==
    ASSUME Team = Threads, IInv, ChainIntact, EInv, SInv, EndRound
    PROVE  SInv' /\ GreedyCuts' = GreedyCuts
<1>1. /\ splits' = splits /\ UNCHANGED <<chain, vocabulary>>
      /\ RoundProcessed /\ phase' = "pop"
  BY DEF EndRound
<1>2. Merging /\ InRound /\ ~Merging' /\ phase \in {"sequential", "replay"}
  BY <1>1 DEF Merging, InRound, RoundProcessed
<1>3. Spelt' /\ \A w \in DOMAIN splits : LiveCut(w)' = LiveCut(w)
  BY <1>1, SameSpelling DEF SInv
<1>4. \A p \in Position : ~Unmerged(p)
  BY <1>1 DEF RoundProcessed, EInv, AllCovered
<1>5. ASSUME NEW w \in DOMAIN splits
      PROVE  MergeWord(splits[w].chars, LiveCut(w), Texts(best)) = LiveCut(w)
  <2>1. best \in DOMAIN book.pairs
    BY <1>2 DEF IInv, PairsKnown
  <2>2. PlacesIn(splits[w].chars, LiveCut(w), Texts(best)) = {}
    BY <1>4, <2>1, PairTexts DEF SInv, Edges, Unmerged, left_token, right_token
  <2>3. splits[w].chars \in Text /\ LiveCut(w) \in SUBSET (1..Len(splits[w].chars))
    BY InvFacts, WordFacts
  <2>4. QED
    BY <2>2, <2>3, NothingToMerge
<1>6. GreedyCuts = [w \in DOMAIN splits |-> LiveCut(w)]
  BY <1>2, <1>5 DEF GreedyCuts
<1>7. GreedyCuts' = [w \in DOMAIN splits |-> LiveCut(w)]
  BY <1>1, <1>2, <1>3 DEF GreedyCuts
<1>8. GreedyCuts' = GreedyCuts
  BY <1>6, <1>7
<1>9. NewText'
  BY <1>1 DEF NewText, InRound
<1>10. QED
  BY <1>1, <1>3, <1>8, <1>9, SameCuts DEF SInv

\* The occurrence on the left of the one that is merged would have come first.
LEMMA LeftMergedFirst ==
    ASSUME IInv, EInv, phase = "sequential", positions # << >>,
           NEW p \in Position, p = positions[1], NEW q \in Position, next[q] = p
    PROVE  ~Unmerged(q)
<1> SUFFICES ASSUME Unmerged(q) PROVE FALSE
  OBVIOUS
<1>1. splits \in Corpora
  BY InvFacts
<1>2. q[1] = p[1] /\ p[2] > q[2] /\ p[2] \in Nat /\ q[2] \in Nat
  <2>1. no_position \notin Position /\ \A x \in Position : x[2] \in Nat
    BY <1>1, PositionsTyped
  <2>2. QED
    BY <2>1 DEF IInv, ChainOrdered
<1>3. PICK i \in DOMAIN positions : positions[i] = q
  BY DEF EInv, AllCovered
<1>4. positions \in Seq(Position) /\ InOrder(positions)
  BY DEF IInv, TypeOK, EInv, PositionsInOrder
<1>5. i # 1
  BY <1>2, <1>3
<1>6. positions[1][2] < positions[i][2]
  BY <1>2, <1>3, <1>4, <1>5, HeadFirst
<1>7. QED
  BY <1>2, <1>3, <1>6

LEMMA LeftAppliedFirst ==
    ASSUME Team = Threads, IInv, EInv, phase = "surgery", NEW t \in Threads, held[t] # no_position,
           NEW p \in Position, p = held[t].position, NEW q \in Position, next[q] = p
    PROVE  ~Unmerged(q)
<1> SUFFICES ASSUME Unmerged(q) PROVE FALSE
  OBVIOUS
<1>1. splits \in Corpora
  BY InvFacts
<1>2. /\ q[1] = p[1] /\ p[2] > q[2] /\ p[2] \in Nat /\ q[2] \in Nat
      /\ \A x \in Position : x[1] # 0
  <2>1. no_position \notin Position /\ \A x \in Position : x[2] \in Nat /\ x[1] # 0
    BY <1>1, PositionsTyped
  <2>2. QED
    BY <2>1 DEF IInv, ChainOrdered
<1>3. ThreadRegion(t)
  BY DEF EInv, Region
<1>4. /\ p[1] = word[t] /\ word[t] \notin bucket[t]
      /\ \A k \in Remaining(t) : p[2] < positions[k][2]
  BY <1>3 DEF ThreadRegion
<1>5. Owner(p[1]) = t
  BY DEF IInv, ThreadsOwn
<1>6. PICK u \in Threads :
         \/ held[u] # no_position /\ held[u].position = q
         \/ \E k \in DOMAIN positions : /\ positions[k] = q
                                        /\ q[1] \in bucket[u] \/ k \in Remaining(u)
  BY DEF EInv, AllCovered
<1>7. CASE held[u] # no_position /\ held[u].position = q
  <2>1. Owner(q[1]) = u
    BY <1>7 DEF IInv, ThreadsOwn
  <2>2. u = t
    BY <1>2, <1>5, <2>1
  <2>3. QED
    BY <1>2, <1>7, <2>2
<1>8. ASSUME NEW k \in DOMAIN positions, positions[k] = q, q[1] \in bucket[u] PROVE FALSE
  <2>1. Owner(q[1]) = u
    BY <1>8 DEF IInv, ThreadsOwn
  <2>2. u = t
    BY <1>2, <1>5, <2>1
  <2>3. QED
    BY <1>2, <1>4, <1>8, <2>2
<1>9. ASSUME NEW k \in DOMAIN positions, positions[k] = q, k \in Remaining(u) PROVE FALSE
  <2>1. q[1] = word[u]
    BY <1>9 DEF Remaining
  <2>2. Owner(q[1]) = u
    BY <1>2, <2>1 DEF IInv, ThreadsOwn
  <2>3. u = t
    BY <1>2, <1>5, <2>2
  <2>4. p[2] < q[2]
    BY <1>4, <1>9, <2>3
  <2>5. QED
    BY <1>2, <2>4
<1>10. QED
  BY <1>6, <1>7, <1>8, <1>9

\* Keys do not change while the book is worked on.
LEMMA BestTextsKept ==
    ASSUME IInv, InRound, NEW ev, Workable(book, ev, DOMAIN vocabulary), Rewire(ev),
           splits' = splits, UNCHANGED <<vocabulary, queue, best>>
    PROVE  /\ left_token' = left_token /\ right_token' = right_token /\ merged_token' = merged_token
           /\ Texts(best)' = Texts(best)
<1>1. /\ splits \in Corpora /\ BookOK(book, Position) /\ KeysIn(book, DOMAIN vocabulary)
      /\ DOMAIN vocabulary \in SUBSET Nat /\ merged_token \in DOMAIN vocabulary
  BY RoundFacts
<1>2. Kept(book, book', DOMAIN vocabulary) /\ (phase' = phase \/ phase' = "aborted")
  BY <1>1, RewireKept
<1>3. left_token' = left_token /\ right_token' = right_token /\ merged_token' = merged_token
  BY <1>2, RoundKept
<1>4. QED
  BY <1>3, BestTexts, BestTextsNext

LEMMA MergePositionSpelling ==
    IInv /\ ChainIntact /\ EInv /\ EInv' /\ SInv /\ MergePosition => SInv' /\ GreedyCuts' = GreedyCuts
<1> SUFFICES ASSUME IInv, ChainIntact, EInv, EInv', SInv, MergePosition
             PROVE  SInv' /\ GreedyCuts' = GreedyCuts
  OBVIOUS
<1>p. PICK p : p = Head(positions)
  OBVIOUS
<1>n. PICK n : n = Neighbours(p)
  OBVIOUS
<1>e. PICK ev : ev = MergeEvent(n)
  OBVIOUS
<1>1. /\ splits' = splits /\ UNCHANGED <<vocabulary, queue, best>>
      /\ phase = "sequential" /\ positions # << >>
      /\ Unmerged(p) /\ Rewire(ev) /\ Splice(n, merged_token)
  BY <1>p, <1>n, <1>e DEF MergePosition, Unmerged
<1>2. p = positions[1] /\ p \in Position
  <2>1. positions \in Seq(Position)
    BY DEF IInv, TypeOK
  <2>2. QED
    BY <1>1, <1>p, <2>1, TailFacts
<1>3. phase' = "sequential"
  BY <1>1 DEF Rewire, EInv, NeverAborted
<1>4. InRound /\ InRound'
  BY <1>1, <1>3 DEF InRound
<1>5. /\ left_token' = left_token /\ right_token' = right_token /\ merged_token' = merged_token
      /\ Texts(best)' = Texts(best)
  <2>1. Workable(book, ev, DOMAIN vocabulary)
    BY <1>1, <1>2, <1>n, <1>e, OccurrenceWorkable
  <2>2. QED
    BY <1>1, <1>4, <2>1, BestTextsKept
<1>6. \A q \in Position : next[q] = p => ~Unmerged(q)
  BY <1>1, <1>2, LeftMergedFirst
<1>7. Spelt' /\ GreedyCuts' = GreedyCuts
  BY <1>1, <1>2, <1>4, <1>5, <1>6, <1>n, MergeOne DEF SInv
<1>8. NewText'
  BY <1>1, <1>3, <1>4, <1>5 DEF SInv, NewText
<1>9. QED
  BY <1>1, <1>7, <1>8, SameCuts DEF SInv

LEMMA ApplySpelling ==
    ASSUME Team = Threads, IInv, ChainIntact, EInv, SInv, NEW t \in Team, Apply(t)
    PROVE  SInv' /\ GreedyCuts' = GreedyCuts
<1>n. PICK n : n = held[t]
  OBVIOUS
<1>p. PICK p : p = n.position
  OBVIOUS
<1>1. /\ splits' = splits /\ phase = "surgery" /\ phase' = "surgery" /\ n # no_position
      /\ Splice(n, merged_token) /\ UNCHANGED <<vocabulary, book, best>>
  BY <1>n DEF Apply
<1>2. t \in Threads
  BY ThreadAssumption
<1>3. p \in Position /\ Unmerged(p) /\ n = Neighbours(p)
  <2>1. n \in Optional(Occurrence)
    BY <1>2, <1>n DEF IInv, TypeOK
  <2>2. p \in Position
    BY <1>1, <1>p, <2>1 DEF Optional, Occurrence
  <2>3. QED
    BY <1>1, <1>2, <1>n, <1>p, <2>2 DEF IInv, HeldFresh, Unmerged
<1>4. InRound /\ InRound'
  BY <1>1 DEF InRound
<1>5. /\ left_token' = left_token /\ right_token' = right_token /\ merged_token' = merged_token
      /\ Texts(best)' = Texts(best)
  BY <1>1, SameTokens, BestTexts, BestTextsNext
<1>6. \A q \in Position : next[q] = p => ~Unmerged(q)
  BY <1>1, <1>2, <1>3, <1>n, <1>p, LeftAppliedFirst
<1>7. Spelt' /\ GreedyCuts' = GreedyCuts
  BY <1>1, <1>3, <1>4, <1>5, <1>6, MergeOne DEF SInv
<1>8. NewText'
  BY <1>1, <1>4, <1>5 DEF SInv, NewText
<1>9. QED
  BY <1>1, <1>7, <1>8, SameCuts DEF SInv

LEMMA ReplayEventSpelling ==
    IInv /\ EInv' /\ SInv /\ ReplayEvent => SInv' /\ GreedyCuts' = GreedyCuts
<1> SUFFICES ASSUME IInv, EInv', SInv, ReplayEvent PROVE SInv' /\ GreedyCuts' = GreedyCuts
  OBVIOUS
<1>1. PICK t \in Threads : events[t] # << >> /\ Rewire(Head(events[t]))
  BY DEF ReplayEvent
<1>e. PICK ev : ev = Head(events[t])
  OBVIOUS
<1>2. /\ splits' = splits /\ UNCHANGED <<chain, vocabulary, queue, best>>
      /\ phase = "replay" /\ phase' = "replay"
  BY DEF ReplayEvent, Rewire, EInv, NeverAborted
<1>3. ev \in PendingEvents /\ ev \in EventSet
  <2> DEFINE q == events[t]
  <2>1. q \in Seq(EventSet) /\ q # << >> /\ ev = Head(q)
    BY <1>1, <1>e DEF IInv, TypeOK
  <2> HIDE DEF q
  <2>2. 1 \in DOMAIN q /\ ev = q[1] /\ ev \in EventSet
    BY <2>1
  <2>3. QED
    BY <2>2 DEF q, PendingEvents
<1>4. InRound /\ InRound'
  BY <1>2 DEF InRound
<1>5. Texts(best)' = Texts(best)
  BY <1>1, <1>2, <1>3, <1>4, <1>e, EventWorkable, BestTextsKept
<1>6. QED
  BY <1>2, <1>4, <1>5, RoundSpelling DEF Merging

\* Bytes are their own tokens, one at each place.
LEMMA BytesCut ==
    ASSUME NEW x \in Text, NEW cut, cut = 1..Len(x)
    PROVE  /\ cut \in SUBSET (1..Len(x)) /\ Bounds(x, cut) = 1..(Len(x) + 1)
           /\ \A i \in cut : TextAt(x, cut, i) = <<x[i]>>
<1>1. Len(x) \in Nat
  BY DEF Text
<1>2. Bounds(x, cut) = 1..(Len(x) + 1)
  BY <1>1 DEF Bounds
<1>3. ASSUME NEW i \in cut PROVE TextAt(x, cut, i) = <<x[i]>>
  <2>1. End(x, cut, i) = i + 1
    <3>1. i + 1 \in (i + 1)..(Len(x) + 1) /\ i + 1 \in Bounds(x, cut)
      BY <1>1, <1>2
    <3>2. \A k \in (i + 1)..((i + 1) - 1) : k \notin cut
      BY <1>1
    <3>3. QED
      BY <3>1, <3>2, EndIs
  <2>2. TextAt(x, cut, i) = Span(x, i, i + 1)
    BY <2>1 DEF TextAt, Span
  <2>3. /\ Span(x, i, i + 1) \in Text /\ Len(Span(x, i, i + 1)) = 1
        /\ Span(x, i, i + 1)[1] = x[i]
    <3>1. i + 1 \in i..(Len(x) + 1) /\ i \in 1..Len(x)
      BY <1>1
    <3>j. PICK j : j = i + 1
      OBVIOUS
    <3>2. /\ Span(x, i, j) \in Text /\ Len(Span(x, i, j)) = j - i
          /\ \A k \in 1..(j - i) : Span(x, i, j)[k] = x[i + k - 1]
      BY <3>1, <3>j, SpanFacts
    <3>3. 1 \in 1..(j - i) /\ j - i = 1 /\ i + 1 - 1 = i
      BY <1>1, <3>j
    <3>4. QED
      BY <3>j, <3>2, <3>3
  <2>4. <<x[i]>> \in Text /\ Len(<<x[i]>>) = 1 /\ <<x[i]>>[1] = x[i]
    <3>1. x[i] \in Nat \ {0}
      BY <1>1 DEF Text
    <3>2. QED
      BY <3>1 DEF Text
  <2> DEFINE s == Span(x, i, i + 1)
             t == <<x[i]>>
  <2>5. s \in Text /\ t \in Text /\ Len(s) = 1 /\ Len(t) = 1 /\ s[1] = t[1]
    BY <2>3, <2>4
  <2> HIDE DEF s, t
  <2>6. s = t
    BY <2>5, TextsEqual
  <2>7. QED
    BY <2>2, <2>6 DEF s, t
<1>4. QED
  BY <1>2, <1>3

LEMMA BytesAlike ==
    ASSUME NEW x \in Text, NEW y \in Text, NEW cx, cx = 1..Len(x), NEW cy, cy = 1..Len(y)
    PROVE  AlikeIn(x, cx, y, cy)
<1>1. /\ Bounds(x, cx) = 1..(Len(x) + 1) /\ Bounds(y, cy) = 1..(Len(y) + 1)
      /\ Len(x) \in Nat /\ Len(y) \in Nat
  BY BytesCut DEF Text
<1> SUFFICES ASSUME NEW a \in cx, NEW c \in cy, NEW b \in Bounds(x, cx), NEW d \in Bounds(y, cy),
                    a < b, c < d, Span(x, a, b) = Span(y, c, d), NEW i \in a..b
             PROVE  i \in Bounds(x, cx) <=> c + (i - a) \in Bounds(y, cy)
  BY DEF AlikeIn
<1>2. b - a = d - c
  <2>1. a \in 1..Len(x) /\ b \in a..(Len(x) + 1) /\ c \in 1..Len(y) /\ d \in c..(Len(y) + 1)
    BY <1>1
  <2>2. Len(Span(x, a, b)) = b - a /\ Len(Span(y, c, d)) = d - c
    BY <2>1, SpanFacts
  <2>3. QED
    BY <2>2
<1>3. QED
  BY <1>1, <1>2

LEMMA BytesWhole ==
    ASSUME NEW x \in Text, NEW cx, cx = 1..Len(x), NEW t, Len(t) = 1
    PROVE  Whole(x, cx, t)
<1>1. Bounds(x, cx) = 1..(Len(x) + 1) /\ Len(x) \in Nat
  BY BytesCut DEF Text
<1> SUFFICES ASSUME NEW a \in cx, NEW b \in Bounds(x, cx), a < b, Span(x, a, b) = t,
                    NEW i \in (a + 1)..(b - 1)
             PROVE  i \notin cx
  BY DEF Whole
<1>2. b - a = 1
  <2>1. a \in 1..Len(x) /\ b \in a..(Len(x) + 1)
    BY <1>1
  <2>2. Len(Span(x, a, b)) = b - a
    BY <2>1, SpanFacts
  <2>3. QED
    BY <2>2
<1>3. QED
  BY <1>1, <1>2

LEMMA InitSpelling == Init => SInv
<1> SUFFICES ASSUME Init PROVE SInv
  OBVIOUS
<1>1. /\ splits \in Corpora /\ vocabulary = [v \in 1..byte_max |-> <<v>>] /\ phase = "build"
      /\ \A p \in Position : p[2] <= Len(splits[p[1]].chars) =>
            alive[p] /\ token[p] = splits[p[1]].chars[p[2]]
  BY DEF Init, InitInput
<1>2. \A w \in DOMAIN splits : splits[w].chars \in Text /\ Len(splits[w].chars) \in Nat
  BY <1>1, WordFacts
<1>3. ASSUME NEW w \in DOMAIN splits, NEW i \in 1..Len(splits[w].chars)
      PROVE  /\ alive[<<w, i>>] /\ token[<<w, i>>] = splits[w].chars[i]
             /\ splits[w].chars[i] \in 1..byte_max
  <2>1. i \in 1..(Len(splits[w].chars) + 1) /\ i <= Len(splits[w].chars)
    BY <1>2
  <2>2. <<w, i>> \in Position
    BY <1>1, <2>1, PositionsTyped
  <2>3. splits[w].chars[i] \in 1..byte_max
    BY <1>1, <2>1, <2>2, CorpusByte
  <2>4. QED
    BY <1>1, <2>1, <2>2, <2>3
<1>4. \A w \in DOMAIN splits : LiveCut(w) = 1..Len(splits[w].chars) /\ GreedyCuts[w] = LiveCut(w)
  BY <1>1, <1>3 DEF LiveCut, GreedyCuts, Merging
<1>5. \A v \in 1..byte_max : vocabulary[v] = <<v>> /\ Len(vocabulary[v]) = 1 /\ vocabulary[v] \in Text
  <2> TAKE v \in 1..byte_max
  <2>1. v \in Nat \ {0}
    BY ByteAssumption
  <2>2. <<v>> \in Text /\ Len(<<v>>) = 1
    BY <2>1 DEF Text
  <2>3. QED
    BY <1>1, <2>2
<1>6. VocabularyTexts
  <2>1. vocabulary \in [1..byte_max -> Text]
    BY <1>1, <1>5
  <2> HIDE DEF Text
  <2>2. QED
    BY <2>1, ByteAssumption DEF VocabularyTexts
<1>7. Spelt
  <2> SUFFICES ASSUME NEW w \in DOMAIN splits, NEW i \in 1..Len(splits[w].chars)
               PROVE  vocabulary[token[<<w, i>>]] = TextAt(splits[w].chars, LiveCut(w), i)
    BY <1>4 DEF Spelt
  <2>1. TextAt(splits[w].chars, LiveCut(w), i) = <<splits[w].chars[i]>>
    BY <1>2, <1>4, BytesCut
  <2>2. QED
    BY <1>3, <1>5, <2>1
<1>8. CutsAlike
  BY <1>2, <1>4, BytesAlike DEF CutsAlike
<1>9. TextsWhole
  <2>1. DOMAIN vocabulary = 1..byte_max
    BY <1>1
  <2>2. QED
    BY <1>2, <1>4, <1>5, <2>1, BytesWhole DEF TextsWhole, WholeEverywhere
<1>10. TextsApart
  <2>1. DOMAIN vocabulary = 1..byte_max
    BY <1>1
  <2>2. QED
    BY <1>5, <2>1 DEF TextsApart
<1>11. NewText
  BY <1>1 DEF NewText, InRound
<1>12. QED
  BY <1>6, <1>7, <1>8, <1>9, <1>10, <1>11 DEF SInv

\* What a step means for the words: nothing, unless it chooses the next pair.
LEMMA NextSpelling ==
    ASSUME Team = Threads, IInv, ChainIntact, EInv, EInv', SInv, [Next]_vars
    PROVE  SInv' /\ (GreedyCuts' = GreedyCuts \/ PopBest)
<1>1. CASE BuildPosition \/ BuildNextWord \/ StartMerging
  BY <1>1, QuietSpelling DEF BuildPosition, BuildNextWord, StartMerging, Merging
<1>2. CASE PopIneligible \/ PopOutdated \/ Finish
  BY <1>2, QuietSpelling DEF PopIneligible, PopOutdated, Finish, Merging
<1>3. CASE PopBest
  BY <1>3, PopBestSpelling
<1>4. CASE WalkList
  BY <1>4, RoundSpelling DEF WalkList, Texts, Merging, InRound
<1>5. CASE StartRound
  BY <1>5, StartRoundSpelling
<1>6. CASE SkipPosition
  BY <1>6, RoundSpelling DEF SkipPosition, Texts, Merging, InRound
<1>7. CASE MergePosition
  BY <1>7, MergePositionSpelling
<1>8. CASE Join
  BY <1>8, RoundSpelling DEF Join, Texts, Merging, InRound
<1>9. CASE ReplayEvent
  BY <1>9, ReplayEventSpelling
<1>10. CASE EndRound
  BY <1>10, EndRoundSpelling
<1>11. CASE \E t \in Team : ThreadStep(t)
  <2>1. PICK t \in Team : TakeWord(t) \/ Resolve(t) \/ Apply(t)
    BY <1>11 DEF ThreadStep
  <2>2. CASE TakeWord(t)
    BY <2>2, RoundSpelling DEF TakeWord, Texts, Merging, InRound
  <2>3. CASE Resolve(t)
    BY <2>3, RoundSpelling DEF Resolve, Texts, Merging, InRound
  <2>4. CASE Apply(t)
    BY <2>4, ApplySpelling
  <2>5. QED
    BY <2>1, <2>2, <2>3, <2>4
<1>12. CASE Terminated \/ UNCHANGED vars
  <2>1. splits' = splits /\ UNCHANGED <<chain, vocabulary, book, best, phase>>
    BY <1>12 DEF Terminated, vars
  <2>2. CASE Merging
    <3>1. Merging' /\ (phase' = "walk" => phase = "walk") /\ (InRound' => InRound)
      BY <2>1, <2>2 DEF Merging, InRound
    <3>2. Texts(best)' = Texts(best)
      BY <2>1 DEF Texts
    <3>3. QED
      BY <2>1, <2>2, <3>1, <3>2, RoundSpelling
  <2>3. CASE ~Merging
    BY <2>1, <2>3, QuietSpelling DEF Merging
  <2>4. QED
    BY <2>2, <2>3
<1>13. QED
  BY <1>1, <1>2, <1>3, <1>4, <1>5, <1>6, <1>7, <1>8, <1>9, <1>10, <1>11, <1>12 DEF Next, MainStep

-----------------------------------------------------------------------------
(* No text twice.                                                          *)

LEMMA SpellingInv == Team = Threads /\ Spec => []SInv
<1>1. CASE Team = Threads
  <2>1. IInv /\ ChainIntact /\ EInv /\ EInv' /\ SInv /\ [Next]_vars => SInv'
    BY <1>1, NextSpelling
  <2>2. Spec => []SInv
    BY <2>1, InitSpelling, Inductive, ChainStaysIntact, BookKeepsUp, PTL DEF Spec
  <2>3. QED
    BY <2>2
<1>2. CASE Team # Threads
  BY <1>2
<1>3. QED
  BY <1>1, <1>2

\* A text that two pairs merge to is put together in one way.
LEMMA SplitOnce ==
    ASSUME NEW x \in Text, NEW cx \in SUBSET (1..Len(x)),
           NEW y \in Text, NEW cy \in SUBSET (1..Len(y)), AlikeIn(x, cx, y, cy),
           NEW pair, NEW other, NEW i \in PlacesIn(x, cx, pair), NEW j \in PlacesIn(y, cy, other),
           Merged(pair) = Merged(other)
    PROVE  pair[1] = other[1] /\ pair[2] = other[2]
<1> DEFINE e == End(x, cx, i)
           f == End(x, cx, e)
           g == End(y, cy, j)
           h == End(y, cy, g)
<1>1. PairStands(x, cx, pair, i, e, f) /\ PairStands(y, cy, other, j, g, h)
  BY PlaceFacts
<1>2. e = End(x, cx, i) /\ g = End(y, cy, j)
  OBVIOUS
<1> HIDE DEF e, f, g, h
<1>3. /\ i \in cx /\ i \in 1..Len(x) /\ e \in cx /\ e \in (i + 1)..Len(x)
      /\ f \in (e + 1)..(Len(x) + 1) /\ f \in Bounds(x, cx)
      /\ Span(x, i, e) = pair[1] /\ Span(x, e, f) = pair[2]
      /\ Span(x, i, f) = Merged(pair)
  BY <1>1 DEF PairStands
<1>4. /\ j \in cy /\ j \in 1..Len(y) /\ g \in cy /\ g \in (j + 1)..Len(y)
      /\ h \in (g + 1)..(Len(y) + 1) /\ h \in Bounds(y, cy)
      /\ Span(y, j, g) = other[1] /\ Span(y, g, h) = other[2]
      /\ Span(y, j, h) = Merged(other)
  BY <1>1 DEF PairStands
<1>5. Len(x) \in Nat /\ Len(y) \in Nat
  BY DEF Text
<1> DEFINE n == Len(x)
           m == Len(y)
<1>6. i < f /\ j < h /\ f \in i..(n + 1) /\ h \in j..(m + 1) /\ Span(x, i, f) = Span(y, j, h)
  BY <1>3, <1>4, <1>5
<1>7. g = j + (e - i) /\ TextAt(x, cx, i) = TextAt(y, cy, j)
  BY <1>2, <1>3, <1>4, <1>6, AlikeFirst
<1>8. f - i = h - j
  BY <1>3, <1>4, <1>6, SpansEqual
<1>9. pair[1] = other[1]
  BY <1>2, <1>3, <1>4, <1>7 DEF TextAt, Span
<1>10. e \in i..(f - 1) /\ f \in e..f /\ j + (f - i) = h
  <2> HIDE DEF n, m
  <2>1. n \in Nat /\ m \in Nat
    BY <1>5 DEF n, m
  <2>2. /\ i \in 1..n /\ e \in (i + 1)..n /\ f \in (e + 1)..(n + 1)
        /\ j \in 1..m /\ g \in (j + 1)..m /\ h \in (g + 1)..(m + 1)
    BY <1>3, <1>4 DEF n, m
  <2>3. QED
    BY <1>8, <2>1, <2>2
<1>11. Span(x, e, f) = Span(y, j + (e - i), j + (f - i))
  BY <1>3, <1>4, <1>6, <1>10, SubSpans
<1>12. QED
  BY <1>3, <1>4, <1>7, <1>9, <1>10, <1>11

LEMMA KeyParts ==
    ASSUME NEW b, NEW V, KeysIn(b, V), NEW s \in DOMAIN b.pairs
    PROVE  /\ b.pairs[s].key[1] \in V /\ b.pairs[s].key[2] \in V
           /\ b.pairs[s].key = <<b.pairs[s].key[1], b.pairs[s].key[2]>>
<1>k. PICK key : key = b.pairs[s].key
  OBVIOUS
<1>1. key \in V \X V
  BY <1>k DEF KeysIn
<1>2. QED
  BY <1>k, <1>1

\* Pairs that occur and have the same texts merged are one pair.
LEMMA PairsApart ==
    ASSUME IInv, ChainIntact, EInv, SInv, Quiescent,
           NEW s \in DOMAIN book.pairs, NEW r \in DOMAIN book.pairs,
           book.pairs[s].count > 0, book.pairs[r].count > 0,
           Merged(Texts(s)) = Merged(Texts(r))
    PROVE  s = r
<1>1. /\ Exact(book, Frequencies) /\ BookOK(book, Position)
      /\ \A k \in DOMAIN book.pairs : EdgesOf(book, k) = Edges(book.pairs[k].key)
  BY ExactFacts, QuietFacts DEF Sound
<1>2. \A k \in DOMAIN book.pairs : book.pairs[k].count > 0 =>
         \E w \in DOMAIN splits : \E i : i \in PlacesIn(splits[w].chars, LiveCut(w), Texts(k))
  <2> TAKE k \in DOMAIN book.pairs
  <2> HAVE book.pairs[k].count > 0
  <2>1. Edges(book.pairs[k].key) # {}
    <3>1. book.pairs[k].count = Weight(Edges(book.pairs[k].key), Frequencies)
      BY <1>1 DEF Exact, CountsSound
    <3>2. QED
      BY <3>1, WeightEmpty
  <2>2. PICK p \in Edges(book.pairs[k].key) : TRUE
    BY <2>1
  <2>3. p = <<p[1], p[2]>> /\ p[1] \in DOMAIN splits
    BY InvFacts, PositionsTyped DEF Edges
  <2>4. p[2] \in PlacesIn(splits[p[1]].chars, LiveCut(p[1]), Texts(k))
    BY <2>2, <2>3, PairTexts DEF SInv
  <2>5. QED
    BY <2>3, <2>4
<1>3. PICK w \in DOMAIN splits : \E i : i \in PlacesIn(splits[w].chars, LiveCut(w), Texts(s))
  BY <1>2
<1>i. PICK i : i \in PlacesIn(splits[w].chars, LiveCut(w), Texts(s))
  BY <1>3
<1>4. PICK v \in DOMAIN splits : \E j : j \in PlacesIn(splits[v].chars, LiveCut(v), Texts(r))
  BY <1>2
<1>j. PICK j : j \in PlacesIn(splits[v].chars, LiveCut(v), Texts(r))
  BY <1>4
<1>5. /\ splits[w].chars \in Text /\ LiveCut(w) \in SUBSET (1..Len(splits[w].chars))
      /\ splits[v].chars \in Text /\ LiveCut(v) \in SUBSET (1..Len(splits[v].chars))
  BY InvFacts, WordFacts
<1>6. AlikeIn(splits[w].chars, LiveCut(w), splits[v].chars, LiveCut(v))
  <2>1. GreedyCuts[w] = LiveCut(w) /\ GreedyCuts[v] = LiveCut(v)
    BY DEF GreedyCuts, Merging, Quiescent
  <2>2. QED
    BY <2>1 DEF SInv, CutsAlike
<1>7. Texts(s)[1] = Texts(r)[1] /\ Texts(s)[2] = Texts(r)[2]
  BY <1>i, <1>j, <1>5, <1>6, SplitOnce
<1>8. \A k \in DOMAIN book.pairs :
         /\ book.pairs[k].key[1] \in DOMAIN vocabulary /\ book.pairs[k].key[2] \in DOMAIN vocabulary
         /\ book.pairs[k].key = <<book.pairs[k].key[1], book.pairs[k].key[2]>>
  BY KeyParts DEF IInv, PairsKnown
<1>9. /\ book.pairs[s].key[1] = book.pairs[r].key[1]
      /\ book.pairs[s].key[2] = book.pairs[r].key[2]
  BY <1>7, <1>8 DEF Texts, SInv, TextsApart
<1>10. book.pairs[s].key = book.pairs[r].key
  BY <1>8, <1>9
<1>11. QED
  BY <1>10 DEF EInv, KeysKnown, KeysUnique

LEMMA TextsKept == IInv /\ ChainIntact /\ EInv /\ SInv => TextsUnique
BY PairsApart DEF TextsUnique, SInv, TextsApart

\* No two tokens ever get the same text, and no two pairs in use merge to the same
\* text: strcmp decides every tie, and the order in which words were counted and
\* pairs were born never shows.
THEOREM TextsStayUnique == Team = Threads /\ Spec => []TextsUnique
<1>1. Team = Threads /\ Spec => []TextsUnique
  BY SpellingInv, TextsKept, Inductive, ChainStaysIntact, BookKeepsUp, PTL
<1>2. QED
  BY <1>1

-----------------------------------------------------------------------------
(* The state that greedy BPE is in.                                        *)

(* The operators of GreedyBPE are those of BpeText. *)

LEMMA GreedyText ==
    ASSUME NEW x, NEW c, NEW pair
    PROVE  /\ \A i : Abstract!End(x, c, i) = End(x, c, i) /\ Abstract!TextAt(x, c, i) = TextAt(x, c, i)
           /\ Abstract!PlacesIn(x, c, pair) = PlacesIn(x, c, pair)
           /\ Abstract!Taken(x, c, pair) = Taken(x, c, pair)
           /\ Abstract!MergeWord(x, c, pair) = MergeWord(x, c, pair)
           /\ Abstract!Merged(pair) = Merged(pair)
           /\ \A s, t : Abstract!strcmp_less(s, t) = strcmp_less(s, t)
<1>1. \A i : Abstract!End(x, c, i) = End(x, c, i) /\ Abstract!TextAt(x, c, i) = TextAt(x, c, i)
  BY DEF Abstract!End, End, Abstract!TextAt, TextAt
<1>2. Abstract!PlacesIn(x, c, pair) = PlacesIn(x, c, pair)
  BY DEF Abstract!PlacesIn, PlacesIn, Abstract!End, End, Abstract!TextAt, TextAt
<1>3. Abstract!Taken(x, c, pair) = Taken(x, c, pair)
  BY DEF Abstract!Taken, Taken, Abstract!PlacesIn, PlacesIn, Abstract!End, End, Abstract!TextAt, TextAt
<1>4. Abstract!MergeWord(x, c, pair) = MergeWord(x, c, pair)
  BY <1>1, <1>3 DEF Abstract!MergeWord, MergeWord
<1>5. Abstract!Merged(pair) = Merged(pair)
  BY DEF Abstract!Merged, Merged
<1>6. \A s, t : Abstract!strcmp_less(s, t) = strcmp_less(s, t)
  BY DEF Abstract!strcmp_less, strcmp_less, Abstract!ByteAt, ByteAt
<1>7. QED
  BY <1>1, <1>2, <1>3, <1>4, <1>5, <1>6

LEMMA InitGreedy == Init => Abstract!Init
<1> SUFFICES ASSUME Init PROVE Abstract!Init
  OBVIOUS
<1>1. /\ splits \in Corpora /\ phase = "build"
      /\ \A p \in Position : p[2] <= Len(splits[p[1]].chars) => alive[p]
  BY DEF Init, InitInput
<1>2. \A w \in DOMAIN splits : /\ DOMAIN splits[w].chars = 1..Len(splits[w].chars)
                               /\ Len(splits[w].chars) \in Nat
  <2> TAKE w \in DOMAIN splits
  <2> DEFINE x == splits[w].chars
  <2>1. x \in Text
    BY <1>1, WordFacts
  <2> HIDE DEF x
  <2>2. DOMAIN x = 1..Len(x) /\ Len(x) \in Nat
    BY <2>1 DEF Text
  <2>3. QED
    BY <2>2 DEF x
<1>3. ASSUME NEW w \in DOMAIN splits, NEW i \in 1..Len(splits[w].chars) PROVE alive[<<w, i>>]
  <2>1. i \in 1..(Len(splits[w].chars) + 1) /\ i <= Len(splits[w].chars)
    BY <1>2
  <2>2. <<w, i>> \in Position
    BY <1>1, <2>1, PositionsTyped
  <2>3. QED
    BY <1>1, <2>1, <2>2
<1>4. GreedyCuts = [w \in DOMAIN splits |-> DOMAIN splits[w].chars]
  BY <1>1, <1>2, <1>3 DEF GreedyCuts, LiveCut, Merging
<1>5. QED
  BY <1>1, <1>4 DEF Abstract!Init

\* Between rounds the words of GreedyBPE are cut where the live slots are.
LEMMA GreedyState ==
    ASSUME Quiescent, NEW w \in DOMAIN splits
    PROVE  GreedyCuts[w] = LiveCut(w)
BY DEF Quiescent, GreedyCuts, Merging

LEMMA GreedyCardinality == ASSUME NEW S PROVE Abstract!Cardinality(S) = Cardinality(S)
BY DEF Abstract!Cardinality, Cardinality

LEMMA GreedyPlaces ==
    ASSUME IInv, ChainIntact, EInv, SInv, Quiescent, NEW s \in DOMAIN book.pairs
    PROVE  /\ Abstract!Places(Texts(s)) = Edges(book.pairs[s].key)
           /\ Abstract!Weight(Texts(s)) = book.pairs[s].count
           /\ Abstract!Cardinality({p[1] : p \in Abstract!Places(Texts(s))}) = book.pairs[s].word_count
<1> DEFINE pair == Texts(s)
           E == Edges(book.pairs[s].key)
<1>1. \A w \in DOMAIN splits : \A i : i \in PlacesIn(splits[w].chars, LiveCut(w), pair) <=> <<w, i>> \in E
  BY PairTexts DEF SInv
<1>2. \A p \in E : p = <<p[1], p[2]>> /\ p[1] \in DOMAIN splits
  BY InvFacts, PositionsTyped DEF Edges
<1>3. \A w \in DOMAIN splits : Abstract!PlacesIn(splits[w].chars, GreedyCuts[w], pair)
                                    = PlacesIn(splits[w].chars, LiveCut(w), pair)
  BY GreedyText, GreedyState
<1> HIDE DEF pair, E
<1>4. PICK P : P = [w \in DOMAIN splits |-> PlacesIn(splits[w].chars, LiveCut(w), pair)]
  OBVIOUS
<1>5. Abstract!Places(pair) = UNION {{w} \X P[w] : w \in DOMAIN splits}
  BY <1>3, <1>4 DEF Abstract!Places
<1>6. PICK A : A = Abstract!Places(pair)
  OBVIOUS
<1>7. ASSUME NEW p \in A PROVE p \in E
  <2>1. PICK w \in DOMAIN splits : p \in {w} \X P[w]
    BY <1>5, <1>6
  <2>2. p = <<w, p[2]>> /\ p[2] \in P[w]
    BY <2>1
  <2>3. QED
    BY <1>1, <1>4, <2>2
<1>8. ASSUME NEW p \in E PROVE p \in A
  <2>1. p = <<p[1], p[2]>> /\ p[1] \in DOMAIN splits
    BY <1>2
  <2>2. p[2] \in P[p[1]]
    BY <1>1, <1>4, <2>1
  <2>3. p \in {p[1]} \X P[p[1]]
    BY <2>1, <2>2
  <2>4. QED
    BY <1>5, <1>6, <2>1, <2>3
<1>9. Abstract!Places(pair) = E
  BY <1>6, <1>7, <1>8
<1>10. Abstract!WeightOf(E) = Cardinality(Occurrences(E))
  <2>1. Abstract!WeightOf(E) = Abstract!Cardinality(Occurrences(E))
    BY DEF Abstract!WeightOf, Occurrences, Frequency
  <2>2. QED
    BY <2>1, GreedyCardinality
<1>11. /\ book.pairs[s].count = Cardinality(Occurrences(E))
       /\ book.pairs[s].word_count = Cardinality(WordsOf(E))
  BY CountsKept DEF CountsExact, E
<1>12. Abstract!Cardinality({p[1] : p \in E}) = Cardinality(WordsOf(E))
  BY GreedyCardinality DEF WordsOf
<1>13. QED
  BY <1>9, <1>10, <1>11, <1>12 DEF Abstract!Weight, pair, E

\* The pair that an adjacent pair of tokens is counted as.
LEMMA AdjacentCounted ==
    ASSUME IInv, ChainIntact, EInv, SInv, Quiescent, NEW pair \in Abstract!Adjacent
    PROVE  \E s \in DOMAIN book.pairs : pair = Texts(s)
<1>1. PICK q \in Abstract!Slots :
         /\ End(splits[q[1]].chars, GreedyCuts[q[1]], q[2]) \in GreedyCuts[q[1]]
         /\ pair = <<TextAt(splits[q[1]].chars, GreedyCuts[q[1]], q[2]),
                     TextAt(splits[q[1]].chars, GreedyCuts[q[1]],
                            End(splits[q[1]].chars, GreedyCuts[q[1]], q[2]))>>
  BY GreedyText DEF Abstract!Adjacent, Abstract!TokenAt
<1>2. PICK w \in DOMAIN splits : q \in {w} \X GreedyCuts[w]
  BY DEF Abstract!Slots
<1>i. PICK i : i = q[2]
  OBVIOUS
<1>3. q = <<w, i>> /\ i \in LiveCut(w) /\ GreedyCuts[w] = LiveCut(w)
  BY <1>2, <1>i, GreedyState
<1>e. PICK e : e = End(splits[w].chars, LiveCut(w), i)
  OBVIOUS
<1>4. /\ e \in LiveCut(w)
      /\ pair = <<TextAt(splits[w].chars, LiveCut(w), i), TextAt(splits[w].chars, LiveCut(w), e)>>
  BY <1>1, <1>3, <1>e
<1>5. splits \in Corpora /\ ChainTyped /\ ChainOrdered
  BY InvFacts DEF IInv
<1>p. PICK p : p = <<w, i>>
  OBVIOUS
<1>6. p \in Position /\ alive[p] /\ next[p] = <<w, e>> /\ is_live(next[p])
  BY <1>3, <1>4, <1>5, <1>e, <1>p, NextIsEnd
<1>7. no_position \notin Position
  BY <1>5, PositionsTyped
<1>8. <<token[p], token[next[p]]>> \in KeysInUse
  BY <1>6, <1>7 DEF KeysInUse, is_live
<1>9. PICK s \in DOMAIN book.pairs : book.pairs[s].key = <<token[p], token[next[p]]>>
  <2>1. Cardinality({s \in DOMAIN book.pairs : book.pairs[s].key = <<token[p], token[next[p]]>>}) = 1
    BY <1>8, CountsKept DEF CountsExact
  <2>2. {s \in DOMAIN book.pairs : book.pairs[s].key = <<token[p], token[next[p]]>>} # {}
    BY <2>1, FS_EmptySet
  <2>3. QED
    BY <2>2
<1>10. /\ vocabulary[token[p]] = TextAt(splits[w].chars, LiveCut(w), i)
       /\ vocabulary[token[next[p]]] = TextAt(splits[w].chars, LiveCut(w), e)
  BY <1>3, <1>4, <1>6, <1>p DEF SInv, Spelt
<1>11. pair = Texts(s)
  BY <1>4, <1>9, <1>10 DEF Texts
<1>12. QED
  BY <1>11

\* An eligible pair stands next to each other somewhere.
LEMMA EligibleAdjacent ==
    ASSUME IInv, ChainIntact, EInv, SInv, Quiescent, NEW s \in DOMAIN book.pairs, Eligible(s)
    PROVE  Texts(s) \in Abstract!Adjacent
<1>1. PICK p \in Edges(book.pairs[s].key) : TRUE
  BY EligibleOccurs
<1>2. p = <<p[1], p[2]>> /\ p[1] \in DOMAIN splits
  BY InvFacts, PositionsTyped DEF Edges
<1>w. PICK w \in DOMAIN splits : \E i : w = p[1] /\ i = p[2]
  BY <1>2
<1>i. PICK i : w = p[1] /\ i = p[2]
  BY <1>w
<1>3. i \in PlacesIn(splits[w].chars, LiveCut(w), Texts(s))
  BY <1>1, <1>2, <1>i, PairTexts DEF SInv
<1>e. PICK e : e = End(splits[w].chars, LiveCut(w), i)
  OBVIOUS
<1>4. /\ i \in LiveCut(w) /\ e \in LiveCut(w)
      /\ TextAt(splits[w].chars, LiveCut(w), i) = Texts(s)[1]
      /\ TextAt(splits[w].chars, LiveCut(w), e) = Texts(s)[2]
  BY <1>3, <1>e DEF PlacesIn
<1>5. GreedyCuts[w] = LiveCut(w)
  BY GreedyState
<1>6. Texts(s) = <<Texts(s)[1], Texts(s)[2]>>
  BY DEF Texts
<1>q. PICK q : q = <<w, i>>
  OBVIOUS
<1>7. q[1] = w /\ q[2] = i
  BY <1>q
<1>8. q \in Abstract!Slots
  BY <1>4, <1>5, <1>q DEF Abstract!Slots
<1>r. PICK r : r = <<w, e>>
  OBVIOUS
<1>o. r[1] = w /\ r[2] = e
  BY <1>r
<1>c. PICK x, c : x = splits[w].chars /\ c = LiveCut(w)
  OBVIOUS
<1>t. /\ Abstract!End(x, c, i) = End(x, c, i)
      /\ Abstract!TextAt(x, c, i) = TextAt(x, c, i) /\ Abstract!TextAt(x, c, e) = TextAt(x, c, e)
  BY GreedyText
<1>9. /\ Abstract!End(splits[q[1]].chars, GreedyCuts[q[1]], q[2]) = e
      /\ Abstract!End(splits[q[1]].chars, GreedyCuts[q[1]], q[2]) \in GreedyCuts[q[1]]
  BY <1>4, <1>5, <1>7, <1>e, <1>c, <1>t
<1>10. Abstract!TokenAt(q) = Texts(s)[1] /\ Abstract!TokenAt(r) = Texts(s)[2]
  BY <1>4, <1>5, <1>7, <1>o, <1>c, <1>t DEF Abstract!TokenAt
<1>11. <<Abstract!TokenAt(q), Abstract!TokenAt(<<q[1], Abstract!End(splits[q[1]].chars, GreedyCuts[q[1]], q[2])>>)>>
          \in Abstract!Adjacent
  BY <1>8, <1>9 DEF Abstract!Adjacent
<1>12. QED
  BY <1>6, <1>7, <1>9, <1>10, <1>11, <1>r

\* The pairs greedy BPE may merge are the eligible ones.
LEMMA CandidatesAre ==
    ASSUME IInv, ChainIntact, EInv, SInv, Quiescent, NEW pair
    PROVE  pair \in Abstract!Candidates
              <=> \E s \in DOMAIN book.pairs : Eligible(s) /\ pair = Texts(s)
<1>1. ASSUME NEW s \in DOMAIN book.pairs
      PROVE  Texts(s) \in Abstract!Candidates <=> Texts(s) \in Abstract!Adjacent /\ Eligible(s)
  <2>1. /\ Abstract!Weight(Texts(s)) = book.pairs[s].count
        /\ Abstract!Cardinality({p[1] : p \in Abstract!Places(Texts(s))}) = book.pairs[s].word_count
    BY GreedyPlaces
  <2>2. QED
    BY <2>1 DEF Abstract!Candidates, Eligible
<1>2. ASSUME pair \in Abstract!Candidates
      PROVE  \E s \in DOMAIN book.pairs : Eligible(s) /\ pair = Texts(s)
  <2>1. pair \in Abstract!Adjacent
    BY <1>2 DEF Abstract!Candidates
  <2>2. PICK s \in DOMAIN book.pairs : pair = Texts(s)
    BY <2>1, AdjacentCounted
  <2>3. QED
    BY <1>1, <1>2, <2>2
<1>3. ASSUME NEW s \in DOMAIN book.pairs, Eligible(s), pair = Texts(s)
      PROVE  pair \in Abstract!Candidates
  BY <1>1, <1>3, EligibleAdjacent
<1>4. QED
  BY <1>2, <1>3

-----------------------------------------------------------------------------
(* Steps of greedy BPE.                                                    *)

LEMMA PairTextsTyped ==
    ASSUME IInv, SInv, NEW s \in DOMAIN book.pairs
    PROVE  Texts(s) \in Text \X Text /\ Merged(Texts(s)) \in Text
<1>1. book.pairs[s].key[1] \in DOMAIN vocabulary /\ book.pairs[s].key[2] \in DOMAIN vocabulary
  BY DEF IInv, PairsKnown, KeysIn
<1>2. vocabulary \in Seq(Text)
  BY DEF SInv, VocabularyTexts
<1>l. PICK l, r : l = Texts(s)[1] /\ r = Texts(s)[2]
  OBVIOUS
<1>3. l \in Text /\ r \in Text /\ Texts(s) = <<l, r>>
  <2> HIDE DEF Text
  <2>1. QED
    BY <1>1, <1>2, <1>l DEF Texts
<1>4. l \o r \in Text
  BY <1>3, JoinedText
<1>5. QED
  BY <1>3, <1>4 DEF Merged

\* The entry on top of the queue, when it is up to date, is the best pair.
LEMMA TopIsBest ==
    ASSUME Team = Threads, IInv, RInv, ChainIntact, EInv, SInv, phase = "pop",
           NEW e \in Top, e.state \in DOMAIN book.pairs, Eligible(e.state),
           e.count = book.pairs[e.state].count
    PROVE  Texts(e.state) \in Abstract!Chosen
<1>s. PICK s \in DOMAIN book.pairs : s = e.state
  OBVIOUS
<1>q. Quiescent
  BY DEF Quiescent
<1>1. Texts(s) \in Abstract!Candidates
  BY <1>s, <1>q, CandidatesAre
<1>2. ASSUME NEW d \in Abstract!Candidates \ {Texts(s)} PROVE Abstract!Beats(Texts(s), d)
  <2>1. PICK r \in DOMAIN book.pairs : Eligible(r) /\ d = Texts(r)
    BY <1>q, CandidatesAre
  <2>2. r # s
    BY <2>1
  <2>3. PICK f \in queue : f.state = r /\ f.count >= book.pairs[r].count
    BY <2>1, QueueHasAll DEF QueueCovers
  <2>4. e \in queue /\ ~queue_compare(e, f)
    BY DEF Top
  <2>5. e.count \in Nat /\ f.count \in Nat /\ book.pairs[s].count \in Nat /\ book.pairs[r].count \in Nat
    <3>1. queue \subseteq [state : Nat, count : Nat]
      BY DEF IInv, TypeOK
    <3>2. BookOK(book, Position)
      BY InvFacts
    <3>3. \A k \in DOMAIN book.pairs : book.pairs[k].count \in Nat
      BY <3>2, CountsTyped DEF BookOK
    <3>4. QED
      BY <2>4, <3>1, <3>3
  <2>6. /\ Abstract!Weight(Texts(s)) = book.pairs[s].count
        /\ Abstract!Weight(d) = book.pairs[r].count
    BY <1>q, <2>1, GreedyPlaces
  <2>7. book.pairs[r].count <= book.pairs[s].count
    BY <1>s, <2>3, <2>4, <2>5 DEF queue_compare
  <2>8. CASE book.pairs[r].count < book.pairs[s].count
    BY <2>5, <2>6, <2>8 DEF Abstract!Beats
  <2>9. CASE book.pairs[r].count = book.pairs[s].count
    <3>1. e.count = f.count
      BY <1>s, <2>3, <2>4, <2>5, <2>9 DEF queue_compare
    <3>2. ~RanksBelow(Texts(s), Texts(r))
      BY <1>s, <2>3, <2>4, <3>1 DEF queue_compare
    <3>3. /\ Texts(s) \in Text \X Text /\ Texts(r) \in Text \X Text
          /\ Merged(Texts(s)) \in Text /\ Merged(Texts(r)) \in Text
      BY PairTextsTyped
    <3>4. ~strcmp_less(Merged(Texts(r)), Merged(Texts(s)))
      BY <3>2, <3>3, StagesAgree DEF Merged
    <3>5. book.pairs[s].count > 0 /\ book.pairs[r].count > 0
      BY <1>s, <2>1, <2>5 DEF Eligible
    <3>6. Merged(Texts(s)) # Merged(Texts(r))
      BY <1>q, <2>2, <3>5, PairsApart
    <3>7. strcmp_less(Merged(Texts(s)), Merged(Texts(r)))
      BY <3>3, <3>4, <3>6, Total
    <3>8. Abstract!strcmp_less(Abstract!Merged(Texts(s)), Abstract!Merged(d))
      <4>1. Abstract!Merged(Texts(s)) = Merged(Texts(s)) /\ Abstract!Merged(d) = Merged(d)
        BY GreedyText
      <4>2. QED
        BY <2>1, <3>7, <4>1, GreedyText
    <3>9. QED
      BY <2>6, <2>9, <3>8 DEF Abstract!Beats
  <2>10. QED
    BY <2>5, <2>7, <2>8, <2>9
<1>3. Texts(s) \in Abstract!Chosen
  BY <1>1, <1>2 DEF Abstract!Chosen
<1>4. QED
  BY <1>3, <1>s

\* Choosing the best pair is a round of greedy BPE.
LEMMA PopBestMerges ==
    ASSUME Team = Threads, IInv, RInv, ChainIntact, EInv, SInv, PopBest
    PROVE  Abstract!Merge
<1>1. PICK e \in Top : /\ e.state \in DOMAIN book.pairs /\ Eligible(e.state)
                       /\ e.count = book.pairs[e.state].count
                       /\ Texts(best)' = Texts(e.state)
  BY BestChosen
<1>t. PICK pair : pair = Texts(e.state)
  OBVIOUS
<1>2. /\ splits' = splits /\ UNCHANGED <<chain, vocabulary>>
      /\ phase = "pop" /\ phase' = "walk"
  BY DEF PopBest
<1>3. pair \in Abstract!Chosen
  BY <1>1, <1>2, <1>t, TopIsBest
<1>4. \A w \in DOMAIN splits : LiveCut(w)' = LiveCut(w)
  BY <1>2, SameSpelling DEF SInv
<1>5. \A w \in DOMAIN splits : GreedyCuts[w] = LiveCut(w)
  BY <1>2, GreedyState DEF Quiescent
<1>6. \A w \in DOMAIN splits :
         Abstract!MergeWord(splits[w].chars, GreedyCuts[w], pair)
            = MergeWord(splits[w].chars, LiveCut(w), pair)
  BY <1>5, GreedyText
<1>7. GreedyCuts' = [w \in DOMAIN splits |-> MergeWord(splits[w].chars, LiveCut(w), pair)]
  BY <1>1, <1>2, <1>4, <1>t DEF GreedyCuts, Merging
<1>8. GreedyCuts' = [w \in DOMAIN splits |-> Abstract!MergeWord(splits[w].chars, GreedyCuts[w], pair)]
  BY <1>6, <1>7
<1>9. QED
  BY <1>2, <1>3, <1>8 DEF Abstract!Merge

\* The queue is empty only when nothing is left to merge.
LEMMA FinishHalts ==
    ASSUME Team = Threads, IInv, RInv, ChainIntact, EInv, SInv, Finish, GreedyCuts' = GreedyCuts
    PROVE  Abstract!Halt
<1>1. phase = "pop" /\ queue = {} /\ phase' = "done" /\ splits' = splits
  BY DEF Finish
<1>2. \A s \in DOMAIN book.pairs : ~Eligible(s)
  BY <1>1, QueueHasAll DEF QueueCovers
<1>3. Abstract!Candidates = {}
  <2>1. \A pair : pair \notin Abstract!Candidates
    BY <1>1, <1>2, CandidatesAre DEF Quiescent
  <2>2. QED
    BY <2>1
<1>4. QED
  BY <1>1, <1>3 DEF Abstract!Halt

LEMMA NextGreedy ==
    ASSUME Team = Threads, IInv, RInv, ChainIntact, EInv, EInv', SInv, [Next]_vars
    PROVE  [Abstract!Next]_(Abstract!vars)
<1>1. GreedyCuts' = GreedyCuts \/ PopBest
  BY NextSpelling
<1>2. CASE PopBest
  BY <1>2, PopBestMerges DEF Abstract!Next
<1>3. CASE ~PopBest
  <2>1. GreedyCuts' = GreedyCuts
    BY <1>1, <1>3
  <2>2. CASE Finish
    BY <2>1, <2>2, FinishHalts DEF Abstract!Next
  <2>3. CASE ~Finish
    <3>1. splits' = splits
      BY <1>3, <2>3 DEF Next, MainStep, ThreadStep, Terminated, vars, BuildPosition, BuildNextWord,
           StartMerging, PopIneligible, PopOutdated, WalkList, StartRound, SkipPosition, MergePosition,
           Join, ReplayEvent, EndRound, TakeWord, Resolve, Apply
    <3>2. (phase' = "done") = (phase = "done")
      BY <1>3, <2>3 DEF Next, MainStep, ThreadStep, Terminated, vars, BuildPosition, BuildNextWord,
           StartMerging, PopIneligible, PopOutdated, WalkList, StartRound, SkipPosition, MergePosition,
           Join, ReplayEvent, EndRound, TakeWord, Resolve, Apply, RoundProcessed, Rewire
    <3>3. QED
      BY <2>1, <3>1, <3>2 DEF Abstract!vars
  <2>4. QED
    BY <2>2, <2>3
<1>4. QED
  BY <1>2, <1>3

\* THEOREM.  Every run of the merge loop, for every list of words, any number of
\* threads, every interleaving and every order in which the words of a bucket come,
\* is a run of greedy byte-pair encoding that counts every pair afresh before each
\* merge; and it stops only when greedy BPE does.
THEOREM MergeLoopIsGreedy == Team = Threads /\ Spec => ImplementsGreedyBPE
<1>1. CASE Team = Threads
  <2>1. IInv /\ RInv /\ ChainIntact /\ EInv /\ EInv' /\ SInv /\ [Next]_vars => [Abstract!Next]_(Abstract!vars)
    BY <1>1, NextGreedy
  <2>2. Spec => []SInv
    BY <1>1, SpellingInv
  <2>3. Spec => Abstract!Init /\ [][Abstract!Next]_(Abstract!vars)
    BY <2>1, <2>2, InitGreedy, Inductive, Rounds, ChainStaysIntact, BookKeepsUp, PTL DEF Spec
  <2>4. QED
    BY <2>3 DEF ImplementsGreedyBPE, Abstract!Spec
<1>2. CASE Team # Threads
  BY <1>2
<1>3. QED
  BY <1>1, <1>2

-----------------------------------------------------------------------------
(* The reported list.                                                      *)

\* The members of L that come before a.
Before(L, less, a) == {b \in L : <<b, a>> \in less}

StrictOrderOn(L, less) ==
    /\ \A a \in L : <<a, a>> \notin less
    /\ \A a, b, c \in L : <<a, b>> \in less /\ <<b, c>> \in less => <<a, c>> \in less
    /\ \A a, b \in L : a # b => <<a, b>> \in less \/ <<b, a>> \in less

\* Counting what comes before it numbers the members of a finite order.
LEMMA Ranked ==
    ASSUME NEW L, IsFiniteSet(L), NEW less, StrictOrderOn(L, less), NEW n, n = Cardinality(L)
    PROVE  /\ n \in Nat
           /\ \A a \in L : Cardinality(Before(L, less, a)) \in 0..(n - 1)
           /\ \A a, b \in L : <<a, b>> \in less =>
                 Cardinality(Before(L, less, a)) < Cardinality(Before(L, less, b))
           /\ \A a, b \in L : Cardinality(Before(L, less, a)) = Cardinality(Before(L, less, b)) => a = b
           /\ \A k \in 0..(n - 1) : \E a \in L : Cardinality(Before(L, less, a)) = k
<1>1. n \in Nat
  BY FS_CardinalityType
<1>2. \A a : /\ Before(L, less, a) \in SUBSET L /\ IsFiniteSet(Before(L, less, a))
             /\ Cardinality(Before(L, less, a)) \in Nat
  <2> TAKE a
  <2>1. Before(L, less, a) \in SUBSET L
    BY DEF Before
  <2>2. QED
    BY <2>1, FS_Subset, FS_CardinalityType
<1>3. \A a \in L : Cardinality(Before(L, less, a)) \in 0..(n - 1)
  <2> TAKE a \in L
  <2>1. a \notin Before(L, less, a)
    BY DEF Before, StrictOrderOn
  <2> DEFINE B == Before(L, less, a)
  <2>2. B # L /\ B \in SUBSET L
    BY <1>2, <2>1
  <2>b. Cardinality(B) \in Nat
    BY <1>2
  <2> HIDE DEF B
  <2>3. Cardinality(B) <= n /\ Cardinality(B) # n
    BY <2>2, FS_Subset
  <2>4. Cardinality(B) \in 0..(n - 1)
    BY <1>1, <2>3, <2>b
  <2>5. QED
    BY <2>4 DEF B
<1>4. ASSUME NEW a \in L, NEW b \in L, <<a, b>> \in less
      PROVE  Cardinality(Before(L, less, a)) < Cardinality(Before(L, less, b))
  <2>1. Before(L, less, a) \in SUBSET Before(L, less, b)
    BY <1>4 DEF Before, StrictOrderOn
  <2>2. a \in Before(L, less, b) /\ a \notin Before(L, less, a)
    BY <1>4 DEF Before, StrictOrderOn
  <2> DEFINE B == Before(L, less, a)
             C == Before(L, less, b)
  <2>3. B \in SUBSET C /\ B # C /\ IsFiniteSet(C) /\ Cardinality(B) \in Nat /\ Cardinality(C) \in Nat
    BY <1>2, <2>1, <2>2
  <2> HIDE DEF B, C
  <2>4. Cardinality(B) <= Cardinality(C) /\ Cardinality(B) # Cardinality(C)
    BY <2>3, FS_Subset
  <2>5. Cardinality(B) < Cardinality(C)
    BY <2>3, <2>4
  <2>6. QED
    BY <2>5 DEF B, C
<1>5. ASSUME NEW a \in L, NEW b \in L,
             Cardinality(Before(L, less, a)) = Cardinality(Before(L, less, b))
      PROVE  a = b
  <2> SUFFICES ASSUME a # b PROVE FALSE
    OBVIOUS
  <2>1. <<a, b>> \in less \/ <<b, a>> \in less
    BY DEF StrictOrderOn
  <2>2. QED
    BY <1>2, <1>4, <1>5, <2>1
<1>6. \A k \in 0..(n - 1) : \E a \in L : Cardinality(Before(L, less, a)) = k
  <2> DEFINE R == {Cardinality(Before(L, less, a)) : a \in L}
             f == [a \in L |-> Cardinality(Before(L, less, a))]
  <2>1. f \in Bijection(L, R)
    <3>1. f \in [L -> R]
      OBVIOUS
    <3>2. \A a, b \in L : f[a] = f[b] => a = b
      BY <1>5
    <3>3. \A r \in R : \E a \in L : f[a] = r
      OBVIOUS
    <3> HIDE DEF f, R
    <3>4. QED
      BY <3>1, <3>2, <3>3 DEF Bijection, Injection, Surjection, IsInjective
  <2>2. R \in SUBSET (0..(n - 1))
    BY <1>3
  <2> HIDE DEF R, f
  <2>3. Cardinality(R) = n
    BY <2>1, FS_Bijection DEF ExistsBijection
  <2>4. IsFiniteSet(0..(n - 1)) /\ Cardinality(0..(n - 1)) = n
    <3>1. 0 \in Int /\ n - 1 \in Int
      BY <1>1
    <3>m. PICK m : m = n - 1
      OBVIOUS
    <3>2. IsFiniteSet(0..m) /\ Cardinality(0..m) = IF 0 > m THEN 0 ELSE m - 0 + 1
      BY <3>1, <3>m, FS_Interval
    <3>3. QED
      BY <1>1, <3>2, <3>m
  <2>5. R = 0..(n - 1)
    <3> DEFINE I == 0..(n - 1)
    <3>1. R \in SUBSET I /\ IsFiniteSet(I) /\ Cardinality(R) = Cardinality(I)
      BY <2>2, <2>3, <2>4
    <3> HIDE DEF I
    <3>2. R = I
      BY <3>1, FS_Subset
    <3>3. QED
      BY <3>2 DEF I
  <2>6. QED
    BY <2>5 DEF R
<1>7. QED
  BY <1>1, <1>3, <1>4, <1>5, <1>6

Preceding == {e \in live_tokens \X live_tokens : RanksFirst(e[1], e[2])}

\* finalize_results puts the tokens in use in a strict order.
LEMMA ResultOrdered ==
    ASSUME IInv, SInv
    PROVE  /\ IsFiniteSet(live_tokens) /\ StrictOrderOn(live_tokens, Preceding)
           /\ \A v \in live_tokens : v \in DOMAIN vocabulary /\ vocabulary[v] \in Text /\ token_count[v] \in Int
<1>1. token_count \in Seq(Int) /\ Len(token_count) = Len(vocabulary)
  BY DEF IInv, TypeOK, TokensKnown
<1>2. vocabulary \in Seq(Text)
  BY DEF SInv, VocabularyTexts
<1>3. /\ Len(token_count) \in Nat /\ DOMAIN token_count = 1..Len(token_count)
      /\ DOMAIN vocabulary = 1..Len(vocabulary)
      /\ \A v \in DOMAIN token_count : token_count[v] \in Int
      /\ \A v \in DOMAIN vocabulary : vocabulary[v] \in Text
  <2> HIDE DEF Text
  <2>1. QED
    BY <1>1, <1>2
<1>4. IsFiniteSet(live_tokens)
  <2>1. live_tokens \in SUBSET (1..Len(token_count))
    BY <1>3 DEF live_tokens
  <2>m. PICK m : m = Len(token_count)
    OBVIOUS
  <2>2. IsFiniteSet(1..m)
    <3>1. 1 \in Int /\ m \in Int
      BY <1>3, <2>m
    <3>2. QED
      BY <3>1, FS_Interval
  <2>3. QED
    BY <2>1, <2>2, <2>m, FS_Subset
<1>5. \A v \in live_tokens : v \in DOMAIN vocabulary /\ vocabulary[v] \in Text /\ token_count[v] \in Int
  BY <1>1, <1>3 DEF live_tokens
<1>6. \A v, u \in live_tokens : v # u => vocabulary[v] # vocabulary[u]
  BY <1>5 DEF SInv, TextsApart
<1>7. ASSUME NEW a \in live_tokens, NEW b \in live_tokens
      PROVE  <<a, b>> \in Preceding <=> RanksFirst(a, b)
  BY DEF Preceding
<1>8. \A a \in live_tokens : ~RanksFirst(a, a)
  BY <1>5, StrictTotalOrder DEF RanksFirst
<1>9. ASSUME NEW a \in live_tokens, NEW b \in live_tokens, NEW c \in live_tokens,
             RanksFirst(a, b), RanksFirst(b, c)
      PROVE  RanksFirst(a, c)
  <2>1. /\ token_count[a] \in Int /\ token_count[b] \in Int /\ token_count[c] \in Int
        /\ vocabulary[a] \in Text /\ vocabulary[b] \in Text /\ vocabulary[c] \in Text
    BY <1>5
  <2>2. strcmp_less(vocabulary[a], vocabulary[b]) /\ strcmp_less(vocabulary[b], vocabulary[c])
           => strcmp_less(vocabulary[a], vocabulary[c])
    BY <2>1, StrictTotalOrder
  <2>3. QED
    BY <1>9, <2>1, <2>2 DEF RanksFirst
<1>10. ASSUME NEW a \in live_tokens, NEW b \in live_tokens, a # b
       PROVE  RanksFirst(a, b) \/ RanksFirst(b, a)
  <2>1. /\ token_count[a] \in Int /\ token_count[b] \in Int
        /\ strcmp_less(vocabulary[a], vocabulary[b]) \/ strcmp_less(vocabulary[b], vocabulary[a])
    BY <1>5, <1>6, <1>10, StrictTotalOrder
  <2>2. QED
    BY <2>1 DEF RanksFirst
<1>11. StrictOrderOn(live_tokens, Preceding)
  BY <1>7, <1>8, <1>9, <1>10 DEF StrictOrderOn
<1>12. QED
  BY <1>4, <1>5, <1>11

\* The token that finalize_results puts at place i.
Reported(i) ==
    CHOOSE a \in live_tokens : Cardinality({b \in live_tokens : RanksFirst(b, a)}) = i - 1

\* The reported list is the tokens in use, each once, in that order.
LEMMA ResultListed ==
    ASSUME IInv, SInv, NEW n, n = Cardinality(live_tokens)
    PROVE  /\ n \in Nat /\ DOMAIN finalize_results = 1..n /\ Len(finalize_results) = n
           /\ \A i \in 1..n : /\ Reported(i) \in live_tokens
                              /\ finalize_results[i] = [text |-> vocabulary[Reported(i)],
                                                        count |-> token_count[Reported(i)]]
           /\ \A a \in live_tokens : \E i \in 1..n : Reported(i) = a
           /\ \A i, j \in 1..n : i < j => RanksFirst(Reported(i), Reported(j))
<1>1. /\ IsFiniteSet(live_tokens) /\ StrictOrderOn(live_tokens, Preceding)
  BY ResultOrdered
<1> DEFINE Rank(a) == Cardinality(Before(live_tokens, Preceding, a))
<1>2. /\ n \in Nat
      /\ \A a \in live_tokens : Rank(a) \in 0..(n - 1)
      /\ \A a, b \in live_tokens : <<a, b>> \in Preceding => Rank(a) < Rank(b)
      /\ \A a, b \in live_tokens : Rank(a) = Rank(b) => a = b
      /\ \A k \in 0..(n - 1) : \E a \in live_tokens : Rank(a) = k
  BY <1>1, Ranked
<1>3. \A a \in live_tokens : Cardinality({b \in live_tokens : RanksFirst(b, a)}) = Rank(a)
  <2> TAKE a \in live_tokens
  <2>1. {b \in live_tokens : RanksFirst(b, a)} = Before(live_tokens, Preceding, a)
    BY DEF Before, Preceding
  <2>2. QED
    BY <2>1
<1> HIDE DEF Rank
<1>4. \A i \in 1..n : Reported(i) \in live_tokens /\ Rank(Reported(i)) = i - 1
  <2> TAKE i \in 1..n
  <2>1. i - 1 \in 0..(n - 1)
    BY <1>2
  <2>2. \E a \in live_tokens : Cardinality({b \in live_tokens : RanksFirst(b, a)}) = i - 1
    BY <1>2, <1>3, <2>1
  <2>3. /\ Reported(i) \in live_tokens
        /\ Cardinality({b \in live_tokens : RanksFirst(b, Reported(i))}) = i - 1
    BY <2>2 DEF Reported
  <2>4. QED
    BY <1>3, <2>3
<1>5. \A a \in live_tokens : \E i \in 1..n : Reported(i) = a
  <2> TAKE a \in live_tokens
  <2>1. Rank(a) \in 0..(n - 1)
    BY <1>2
  <2>2. Rank(a) + 1 \in 1..n /\ (Rank(a) + 1) - 1 = Rank(a)
    BY <1>2, <2>1
  <2>3. QED
    BY <1>2, <1>4, <2>2
<1>6. \A i, j \in 1..n : i < j => RanksFirst(Reported(i), Reported(j))
  <2> SUFFICES ASSUME NEW i \in 1..n, NEW j \in 1..n, i < j
               PROVE  RanksFirst(Reported(i), Reported(j))
    OBVIOUS
  <2>a. PICK a, b : a = Reported(i) /\ b = Reported(j)
    OBVIOUS
  <2>1. a \in live_tokens /\ b \in live_tokens /\ Rank(a) = i - 1 /\ Rank(b) = j - 1
    BY <1>4, <2>a
  <2>2. a # b /\ ~(Rank(b) < Rank(a))
    BY <1>2, <2>1
  <2>3. <<a, b>> \in Preceding
    BY <1>1, <1>2, <2>1, <2>2 DEF StrictOrderOn
  <2>4. QED
    BY <2>3, <2>a DEF Preceding
<1>7. finalize_results = [i \in 1..n |-> [text |-> vocabulary[Reported(i)], count |-> token_count[Reported(i)]]]
  BY DEF finalize_results, Reported
<1>8. DOMAIN finalize_results = 1..n /\ Len(finalize_results) = n
  BY <1>2, <1>7
<1>9. QED
  BY <1>2, <1>4, <1>5, <1>6, <1>7, <1>8

\* What greedy BPE counts is what the tokens count.
LEMMA TextCounts ==
    ASSUME IInv, ChainIntact, TInv, EInv, SInv, Quiescent, NEW v \in DOMAIN vocabulary
    PROVE  /\ Abstract!TextCount(vocabulary[v]) = token_count[v]
           /\ v \in live_tokens => vocabulary[v] \in Abstract!Occurring
<1>1. splits \in Corpora /\ ChainTyped /\ ChainOrdered /\ TokensKnown
  BY InvFacts DEF IInv
<1> DEFINE mine == {p \in Position : alive[p] /\ token[p] = v}
           text == {p \in Abstract!Slots : Abstract!TokenAt(p) = vocabulary[v]}
<1>2. \A w \in DOMAIN splits : \A i : i \in LiveCut(w) =>
         /\ <<w, i>> \in Position /\ alive[<<w, i>>]
         /\ TextAt(splits[w].chars, LiveCut(w), i) = vocabulary[token[<<w, i>>]]
         /\ token[<<w, i>>] \in DOMAIN vocabulary
  BY <1>1, LiveSlot DEF SInv, Spelt, TokensKnown
<1>3. \A w \in DOMAIN splits : \A i :
         /\ GreedyCuts[w] = LiveCut(w)
         /\ Abstract!TokenAt(<<w, i>>) = TextAt(splits[w].chars, LiveCut(w), i)
  <2> TAKE w \in DOMAIN splits
  <2> TAKE i
  <2>1. GreedyCuts[w] = LiveCut(w)
    BY GreedyState
  <2>p. PICK p : p = <<w, i>>
    OBVIOUS
  <2>2. p[1] = w /\ p[2] = i
    BY <2>p
  <2>3. Abstract!TokenAt(p) = Abstract!TextAt(splits[w].chars, LiveCut(w), i)
    BY <2>1, <2>2 DEF Abstract!TokenAt
  <2>4. QED
    BY <2>1, <2>3, <2>p, GreedyText
<1>4. \A p : p \in Abstract!Slots <=> \E w \in DOMAIN splits : \E i \in LiveCut(w) : p = <<w, i>>
  <2>1. PICK C : C = [w \in DOMAIN splits |-> LiveCut(w)]
    OBVIOUS
  <2>2. Abstract!Slots = UNION {{w} \X C[w] : w \in DOMAIN splits}
    BY <1>3, <2>1 DEF Abstract!Slots
  <2>3. QED
    BY <2>1, <2>2
<1>5. \A p \in Position : alive[p] => \E w \in DOMAIN splits : \E i \in LiveCut(w) : p = <<w, i>>
  <2> SUFFICES ASSUME NEW p \in Position, alive[p]
               PROVE  \E w \in DOMAIN splits : \E i \in LiveCut(w) : p = <<w, i>>
    OBVIOUS
  <2>1. p = <<p[1], p[2]>> /\ p[1] \in DOMAIN splits
    BY <1>1, PositionsTyped
  <2>2. p[2] \in LiveCut(p[1])
    BY <1>1, <2>1, LiveSlot
  <2>3. QED
    BY <2>1, <2>2
<1>6. ASSUME NEW p PROVE p \in text <=> p \in mine
  <2>1. ASSUME p \in text PROVE p \in mine
    <3>1. PICK w, i : w \in DOMAIN splits /\ i \in LiveCut(w) /\ p = <<w, i>>
      BY <1>4, <2>1
    <3>2. vocabulary[token[p]] = vocabulary[v] /\ token[p] \in DOMAIN vocabulary
      BY <1>2, <1>3, <2>1, <3>1
    <3>3. token[p] = v
      BY <3>2 DEF SInv, TextsApart
    <3>4. QED
      BY <1>2, <3>1, <3>3
  <2>2. ASSUME p \in mine PROVE p \in text
    <3>1. PICK w, i : w \in DOMAIN splits /\ i \in LiveCut(w) /\ p = <<w, i>>
      BY <1>5, <2>2
    <3>2. Abstract!TokenAt(p) = vocabulary[v] /\ p \in Abstract!Slots
      BY <1>2, <1>3, <1>4, <2>2, <3>1
    <3>3. QED
      BY <3>2
  <2>3. QED
    BY <2>1, <2>2
<1>7. text = mine
  <2> HIDE DEF text, mine
  <2>1. QED
    BY <1>6
<1>8. Abstract!TextCount(vocabulary[v]) = Cardinality(Occurrences(mine))
  <2>1. Abstract!TextCount(vocabulary[v]) = Abstract!WeightOf(mine)
    BY <1>7 DEF Abstract!TextCount
  <2> HIDE DEF mine, text
  <2>2. Abstract!WeightOf(mine) = Abstract!Cardinality(Occurrences(mine))
    BY DEF Abstract!WeightOf, Occurrences, Frequency
  <2>3. QED
    BY <2>1, <2>2, GreedyCardinality
<1>9. v \in DOMAIN token_count
  BY <1>1 DEF TokensKnown, IInv, TypeOK
<1>10. token_count[v] = Cardinality(Occurrences(mine))
  BY <1>9, TokensAddUp DEF TokenCountsExact
<1>11. ASSUME v \in live_tokens PROVE vocabulary[v] \in Abstract!Occurring
  <2>1. mine # {}
    <3> SUFFICES ASSUME mine = {} PROVE FALSE
      OBVIOUS
    <3>1. Occurrences({}) = {}
      BY DEF Occurrences
    <3>2. Cardinality(Occurrences(mine)) = 0
      BY <3>1, FS_EmptySet
    <3>3. QED
      BY <1>10, <1>11, <3>2 DEF live_tokens
  <2>2. PICK p : p \in text
    BY <1>7, <2>1
  <2>3. QED
    BY <2>2 DEF Abstract!Occurring
<1>12. QED
  BY <1>8, <1>10, <1>11

\* The reported record of a token.
Record(a) == [text |-> vocabulary[a], count |-> token_count[a]]

LEMMA CountedAre ==
    ASSUME IInv, ChainIntact, TInv, EInv, SInv, Quiescent
    PROVE  Abstract!Counted = {Record(a) : a \in live_tokens}
<1>1. \A a \in live_tokens : a \in DOMAIN vocabulary /\ token_count[a] # 0
  BY ResultOrdered DEF live_tokens
<1>2. ASSUME NEW r \in Abstract!Counted PROVE \E a \in live_tokens : r = Record(a)
  <2>1. PICK u \in Abstract!Occurring : /\ Abstract!TextCount(u) # 0
                                        /\ r = [text |-> u, count |-> Abstract!TextCount(u)]
    BY DEF Abstract!Counted
  <2>2. PICK p \in Abstract!Slots : u = Abstract!TokenAt(p)
    BY DEF Abstract!Occurring
  <2>3. PICK v \in DOMAIN vocabulary : u = vocabulary[v]
    <3>1. PICK w \in DOMAIN splits : p \in {w} \X GreedyCuts[w]
      BY DEF Abstract!Slots
    <3>2. GreedyCuts[w] = LiveCut(w)
      BY GreedyState
    <3>i. PICK i \in LiveCut(w) : p[1] = w /\ p[2] = i
      BY <3>1, <3>2
    <3>3. Abstract!TokenAt(p) = TextAt(splits[w].chars, LiveCut(w), i)
      <4>1. Abstract!TokenAt(p) = Abstract!TextAt(splits[w].chars, LiveCut(w), i)
        BY <3>2, <3>i DEF Abstract!TokenAt
      <4>2. QED
        BY <4>1, GreedyText
    <3>4. u = vocabulary[token[<<w, i>>]]
      BY <2>2, <3>3 DEF SInv, Spelt
    <3>5. splits \in Corpora /\ ChainTyped /\ ChainOrdered /\ TokensKnown
      BY InvFacts DEF IInv
    <3>6. token[<<w, i>>] \in DOMAIN vocabulary
      BY <3>5, LiveSlot DEF TokensKnown
    <3>7. QED
      BY <3>4, <3>6
  <2>4. Abstract!TextCount(u) = token_count[v] /\ token_count[v] # 0
    BY <2>1, <2>3, TextCounts
  <2>5. v \in live_tokens
    <3>1. Len(token_count) = Len(vocabulary) /\ token_count \in Seq(Int) /\ vocabulary \in Seq(Seq(Nat))
      BY DEF IInv, TypeOK, TokensKnown
    <3>2. v \in DOMAIN token_count
      BY <3>1
    <3>3. QED
      BY <2>4, <3>2 DEF live_tokens
  <2>6. QED
    BY <2>1, <2>3, <2>4, <2>5 DEF Record
<1>3. ASSUME NEW a \in live_tokens PROVE Record(a) \in Abstract!Counted
  <2>u. PICK u : u = vocabulary[a]
    OBVIOUS
  <2>1. u \in Abstract!Occurring /\ Abstract!TextCount(u) = token_count[a] /\ token_count[a] # 0
    BY <1>1, <2>u, TextCounts
  <2>2. [text |-> u, count |-> Abstract!TextCount(u)] \in Abstract!Counted
    BY <2>1 DEF Abstract!Counted
  <2>3. QED
    BY <2>1, <2>2, <2>u DEF Record
<1>4. QED
  BY <1>2, <1>3

\* When the loop is through, what it reports is what greedy BPE has counted.
LEMMA ReportsGreedy == IInv /\ ChainIntact /\ TInv /\ EInv /\ SInv => ResultIsGreedy
<1> SUFFICES ASSUME IInv, ChainIntact, TInv, EInv, SInv, phase = "done"
             PROVE  Abstract!IsResult(finalize_results)
  BY DEF ResultIsGreedy
<1>q. Quiescent
  BY DEF Quiescent
<1>n. PICK n : n = Cardinality(live_tokens)
  OBVIOUS
<1>l. PICK list : list = finalize_results
  OBVIOUS
<1>1. /\ n \in Nat /\ DOMAIN list = 1..n /\ Len(list) = n
      /\ \A i \in 1..n : Reported(i) \in live_tokens /\ list[i] = Record(Reported(i))
      /\ \A a \in live_tokens : \E i \in 1..n : Reported(i) = a
      /\ \A i, j \in 1..n : i < j => RanksFirst(Reported(i), Reported(j))
  BY <1>n, <1>l, ResultListed DEF Record
<1>2. Abstract!Counted = {Record(a) : a \in live_tokens}
  BY <1>q, CountedAre
<1> DEFINE Records == {Record(a) : a \in live_tokens}
<1>3. {list[i] : i \in DOMAIN list} = Records
  BY <1>1
<1>4. Cardinality(Records) = n
  <2> DEFINE f == [a \in live_tokens |-> Record(a)]
  <2>1. f \in [live_tokens -> Records] /\ \A r \in Records : \E a \in live_tokens : f[a] = r
    OBVIOUS
  <2>2. \A a, b \in live_tokens : f[a] = f[b] => a = b
    <3> SUFFICES ASSUME NEW a \in live_tokens, NEW b \in live_tokens, Record(a) = Record(b) PROVE a = b
      OBVIOUS
    <3>1. Record(a).text = vocabulary[a] /\ Record(b).text = vocabulary[b]
      BY DEF Record
    <3>2. a \in DOMAIN vocabulary /\ b \in DOMAIN vocabulary
      BY ResultOrdered
    <3>3. QED
      BY <3>1, <3>2 DEF SInv, TextsApart
  <2> HIDE DEF f, Records
  <2>3. f \in Bijection(live_tokens, Records)
    BY <2>1, <2>2 DEF Bijection, Injection, Surjection, IsInjective
  <2>4. IsFiniteSet(live_tokens)
    BY ResultOrdered
  <2>5. QED
    BY <1>n, <2>3, <2>4, FS_Bijection DEF ExistsBijection
<1>5. ASSUME NEW i \in 1..n, NEW j \in 1..n, i < j
      PROVE  \/ list[i].count > list[j].count
             \/ list[i].count = list[j].count /\ Abstract!strcmp_less(list[i].text, list[j].text)
  <2>a. PICK a, b : a = Reported(i) /\ b = Reported(j)
    OBVIOUS
  <2>1. RanksFirst(a, b) /\ list[i] = Record(a) /\ list[j] = Record(b)
    BY <1>1, <1>5, <2>a
  <2>2. /\ list[i].text = vocabulary[a] /\ list[i].count = token_count[a]
        /\ list[j].text = vocabulary[b] /\ list[j].count = token_count[b]
    BY <2>1 DEF Record
  <2>3. strcmp_less(vocabulary[a], vocabulary[b])
           => Abstract!strcmp_less(list[i].text, list[j].text)
    BY <2>2, GreedyText
  <2>4. QED
    BY <2>1, <2>2, <2>3 DEF RanksFirst
<1>6. Abstract!Cardinality(Abstract!Counted) = n
  BY <1>2, <1>4, GreedyCardinality
<1> HIDE DEF Records
<1>7. {list[i] : i \in DOMAIN list} = Abstract!Counted
  BY <1>2, <1>3 DEF Records
<1>8. Abstract!IsResult(list)
  BY <1>1, <1>5, <1>6, <1>7 DEF Abstract!IsResult
<1>9. QED
  BY <1>8, <1>l

\* THEOREM.  The tokens finalize_results reports are those greedy BPE ends with, each
\* with its exact weighted count, by falling count and then by strcmp: the output does
\* not depend on the number of threads, on how they interleave or on any hash order.
THEOREM ReportsGreedyResult == Team = Threads /\ Spec => []ResultIsGreedy
<1>1. Spec => []TInv
  BY InitTokens, NextTokens, Inductive, ChainStaysIntact, BookKeepsUp, PTL DEF Spec
<1>2. Team = Threads /\ Spec => []ResultIsGreedy
  BY <1>1, SpellingInv, ReportsGreedy, Inductive, ChainStaysIntact, BookKeepsUp, PTL
<1>3. QED
  BY <1>2
=============================================================================
